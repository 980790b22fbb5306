\* One upload, two sockets of one session, and two writes that fail.
SPECIFICATION MCFairSpec
CONSTANTS
  Uploads = {u1}
  Progress = {p0, p1}
  FirstProgress = p0
  MaxFaults = 2
  Sessions = {s1}
  Connections = {c1, c2}
  Reasons <- CloseReasons
  NoFrame = NoFrame
  None = None
INVARIANTS
  NativeInv
  ConfirmedSurvives
  CloseIsRouted
PROPERTIES
  RegistrySettles
CHECK_DEADLOCK FALSE
