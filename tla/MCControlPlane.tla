--------------------------- MODULE MCControlPlane ---------------------------
(* Instances of ControlPlane for TLC. *)
EXTENDS ControlPlane, TLC

CONSTANTS r1, r2, k1, d1, p1

Asked(r, kind) ==
  [id |-> r, ask |-> [kind |-> kind, key |-> k1, device |-> d1, public |-> p1]]

\* A phone redeems its key, and starts and resumes uploads, two at a time.
TwoAtATime == {Asked(r1, "redeem"), Asked(r1, "create"), Asked(r2, "create"), Asked(r2, "resume")}
=============================================================================
