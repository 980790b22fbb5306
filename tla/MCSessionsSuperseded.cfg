\* Two overlapping calls for one upload.
SPECIFICATION MCSpec
CONSTANTS
  Uploads = {u1}
  Sessions = {s1, s2}
  Calls = {c1, c2}
  None = none
\* The identifiers run out.
CHECK_DEADLOCK FALSE
SYMMETRY Symmetric
INVARIANTS
  PriorRouteClosed
