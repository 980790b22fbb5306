\* Two attempts on a file of a whole chunk and a short one, one stop of the Mac.
SPECIFICATION Spec
CONSTANTS
  Attempts = {a1, a2}
  FileSize = 3
  ChunkBytes = 2
  MaxStops = 1
  None = none
\* Attempts run out.
CHECK_DEADLOCK FALSE
SYMMETRY Symmetric
INVARIANTS
  SuccessMeansReady
  PositionIsDurable
  StoredIsPrefix
  AcksExpected
  ChunksWelcome
  BytesRecorded
  ProtocolInv
