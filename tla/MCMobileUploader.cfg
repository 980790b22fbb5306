\* Two transfers at a time for three files, of which two can come from the camera.
SPECIFICATION MCFairSpec
CONSTANTS
  Items = {i1, i2, i3}
  Recordings = {i2, i3}
  Uploads = {u1, u2}
  MaxConcurrent = 2
  None = none
  NoRetry = noRetry
\* Files run out.
CHECK_DEADLOCK FALSE
INVARIANTS
  PageInv
  NothingForgotten
PROPERTIES
  EveryFileSettles
  CameraSettles
