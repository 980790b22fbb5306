\* Two recordings, and nothing else to do.
SPECIFICATION Spec
CONSTANTS
  Items = {i1, i2}
  Recordings = {i1, i2}
  Uploads = {u1}
  MaxConcurrent = 1
  None = none
  NoRetry = noRetry
\* Files run out.
CHECK_DEADLOCK FALSE
INVARIANTS
  StopReleases
