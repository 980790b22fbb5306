\* One upload of two bytes; chunks are split, replayed, damaged, failed and raced;
\* two stops or failing calls, a fair scheduler.
SPECIFICATION FairSpec
CONSTANTS
  u1 = u1 u2 = u2 h1 = h1 h2 = h2 t1 = t1 t2 = t2
  Uploads = {u1}
  Shas = {h1, h2}
  FileSize <- TwoByteFiles
  MaxBytes = 2
  Capacity = 3
  Declared <- TwoByteFile
  Packets <- TwoBytePackets
  Tasks = {t1, t2}
  Recovery = recovery
  Creation = creation
  MaxFaults = 2
  Hole = hole
  None = none
CHECK_DEADLOCK FALSE
INVARIANTS
  AcknowledgedBytesIntact
  ReceivedIsCovered
  ManifestNeverAhead
PROPERTIES
  EveryRequestAnswered
  RestartSettles
