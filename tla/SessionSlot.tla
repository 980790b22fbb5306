---------------------------- MODULE SessionSlot ----------------------------
(***************************************************************************)
(* What the sessions of one upload promise: one of them is live at most, a *)
(* session is opened once, and one that was closed or superseded is never  *)
(* live again.  TransferSessions keeps this for each upload, and the       *)
(* sessions of TransferProtocol, without their calls and sockets, do too.  *)
(***************************************************************************)
CONSTANT Sessions

VARIABLES
  live,  \* the live session, or nothing
  used   \* the sessions that cannot be opened any more

vars == <<live, used>>

Init == live = {} /\ used = {}

\* A new session takes the place of the one before.
Open(s) ==
  /\ s \notin used /\ s \in used'
  /\ live' = {s}

Close == live' = {}

Next ==
  /\ used \subseteq used'
  /\ Close \/ UNCHANGED live \/ \E s \in Sessions : Open(s)

Spec == Init /\ [][Next]_vars
=============================================================================
