\* One attempt under the timers of the phone; a second attempt could do to it only what
\* PeerEnds does.
SPECIFICATION FairSpec
CONSTANTS
  Attempts = {a1}
  FileSize = 3
  ChunkBytes = 2
  MaxStops = 2
  None = none
\* Attempts run out.
CHECK_DEADLOCK FALSE
PROPERTY
  AttemptEnds
