\* Two uploads of the same file, no fault: the second may never get its reference.
SPECIFICATION FairSpec
CONSTANTS
  u1 = u1 u2 = u2 h1 = h1 h2 = h2 t1 = t1 t2 = t2
  Uploads = {u1, u2}
  Shas = {h1, h2}
  FileSize <- OneByteFiles
  MaxBytes = 1
  Capacity = 3
  Declared <- SameFile
  Packets <- GoodPacket
  Tasks = {t1, t2}
  Recovery = recovery
  Creation = creation
  MaxFaults = 0
  Hole = hole
  None = none
PROPERTIES
  VerifiedBecomesReady
