------------------------- MODULE MCTransferProtocol -------------------------
(* Instances of TransferProtocol for TLC. *)
EXTENDS TransferProtocol, TLC

Symmetric == Permutations(Attempts)
=============================================================================
