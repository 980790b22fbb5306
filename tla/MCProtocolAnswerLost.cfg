\* One attempt on a file of one chunk; the connection can be lost at any time.
SPECIFICATION Spec
CONSTANTS
  Attempts = {a1}
  FileSize = 2
  ChunkBytes = 2
  MaxStops = 0
  None = none
\* Attempts run out.
CHECK_DEADLOCK FALSE
INVARIANT
  FailedIsResumable
