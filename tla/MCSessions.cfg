\* One upload, three sessions, two overlapping calls, awaits that end.
SPECIFICATION MCSpec
CONSTANTS
  Uploads = {u1}
  Sessions = {s1, s2, s3}
  Calls = {c1, c2}
  None = none
\* The identifiers run out.
CHECK_DEADLOCK FALSE
INVARIANTS
  OneLiveSession
  LiveHasRoute
  RoutesOwned
  OldRouteClosed
  SessionsInv
PROPERTIES
  CallsAnswered
  LossNoticed
