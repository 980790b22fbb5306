\* Two uploads, of the same file or competing for a volume of three bytes, completed,
\* cancelled and restarted at every step.
SPECIFICATION MCSpec
CONSTANTS
  u1 = u1 u2 = u2 h1 = h1 h2 = h2 t1 = t1 t2 = t2
  Uploads = {u1, u2}
  Shas = {h1, h2}
  FileSize <- MixedSizes
  MaxBytes = 2
  Capacity = 3
  Declared <- MixedFiles
  Packets <- MixedPackets
  Tasks = {t1, t2}
  Recovery = recovery
  Creation = creation
  MaxFaults = 2
  Hole = hole
  None = none
\* The identifiers run out: failed creations leave an orphan staging file each.
CHECK_DEADLOCK FALSE
SYMMETRY SymmetricUploads
INVARIANTS
  VisibleIsIntact
  BlobsIntact
  NothingLost
  MutualExclusion
  NoOvercommit
  LibraryInv
PROPERTIES
  ServesReconciled
  KeepsPromise
