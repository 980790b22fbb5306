\* One phone with two requests at a time, two sockets of the Mac, one fault.
SPECIFICATION FairSpec
CONSTANTS
  r1 = r1 r2 = r2 k1 = k1 d1 = d1 p1 = p1
  Requests = {r1, r2}
  Keys = {k1}
  Devices = {d1}
  PublicKeys = {p1}
  Uploads = {u1}
  None = none
  Messages <- TwoAtATime
  MacSockets = {s1, s2}
  NoSocket = noSocket
  MaxFaults = 1
\* The faults and the uploads run out.
CHECK_DEADLOCK FALSE
INVARIANTS
  ControlInv
  AcceptedIsDurable
  UnboundOnlyByFault
PROPERTIES
  MacComesBack
