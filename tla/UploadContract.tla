--------------------------- MODULE UploadContract ---------------------------
(***************************************************************************)
(* What the row of one upload promises to those who transfer the file: its *)
(* size stays as declared, what is received only grows, up to that size,   *)
(* and it is settled only when it is whole.  MaterialLibrary keeps this    *)
(* for each of its uploads, and TransferProtocol, which has the row        *)
(* without the steps of the library, lives by it.                          *)
(***************************************************************************)
EXTENDS Naturals

VARIABLES
  phase,     \* where the upload is on its path, as in UploadLifecycle
  size,      \* the bytes it declares, once it is registered
  received   \* the bytes that are stored

vars == <<phase, size, received>>

Init == phase = "absent" /\ size = 0 /\ received = 0

Register ==
  /\ phase = "absent" /\ phase' = "receiving"
  /\ size' \in Nat \ {0}
  /\ UNCHANGED received

Receive ==
  /\ phase = "receiving"
  /\ received' \in received + 1 .. size
  /\ UNCHANGED <<phase, size>>

Settle ==
  /\ phase = "receiving" /\ received = size
  /\ phase' = "settling"
  /\ UNCHANGED <<size, received>>

Cancel ==
  /\ phase = "receiving" /\ phase' = "cancelled"
  /\ UNCHANGED <<size, received>>

End ==
  /\ phase = "settling" /\ phase' \in {"visible", "failed"}
  /\ UNCHANGED <<size, received>>

Next == Register \/ Receive \/ Settle \/ Cancel \/ End

Spec == Init /\ [][Next]_vars
=============================================================================
