--------------------------- MODULE UploadLifecycle ---------------------------
(***************************************************************************)
(* What the material library promises about an upload, whatever happens to *)
(* its process, its requests and its calls to the disk: an upload moves    *)
(* along one path, a material reference appears only for an upload that    *)
(* has been settled, only over content that is stored and verified, and    *)
(* stored content is never taken away again.  MaterialLibrary implements   *)
(* this module.                                                            *)
(***************************************************************************)
CONSTANTS Uploads, Shas, None

VARIABLES
  phase,     \* where each upload is on its path
  claim,     \* the SHA-256 each upload has declared
  stored,    \* the SHA-256 whose content is complete in the library
  visible    \* the material references later stages may read

vars == <<phase, claim, stored, visible>>

Init ==
  /\ phase = [u \in Uploads |-> "absent"]
  /\ claim = [u \in Uploads |-> None]
  /\ stored = {} /\ visible = {}

Register(u, h) ==
  /\ phase[u] = "absent"
  /\ phase' = [phase EXCEPT ![u] = "receiving"]
  /\ claim' = [claim EXCEPT ![u] = h]
  /\ UNCHANGED <<stored, visible>>

Move(u, from, to) ==
  /\ phase[u] = from
  /\ phase' = [phase EXCEPT ![u] = to]
  /\ UNCHANGED <<claim, stored>>

Settle(u) == Move(u, "receiving", "settling") /\ UNCHANGED visible
Cancel(u) == Move(u, "receiving", "cancelled") /\ UNCHANGED visible
GiveUp(u) == Move(u, "settling", "failed") /\ UNCHANGED visible

Keep(u) ==
  /\ phase[u] = "settling"
  /\ stored' = stored \union {claim[u]}
  /\ UNCHANGED <<phase, claim, visible>>

Publish(u) ==
  /\ claim[u] \in stored
  /\ Move(u, "settling", "visible")
  /\ visible' = visible \union {[upload |-> u, sha |-> claim[u]]}

Next ==
  \E u \in Uploads :
    \/ \E h \in Shas : Register(u, h)
    \/ Settle(u) \/ Cancel(u) \/ GiveUp(u) \/ Keep(u) \/ Publish(u)

Spec == Init /\ [][Next]_vars
=============================================================================
