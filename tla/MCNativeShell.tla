--------------------------- MODULE MCNativeShell ---------------------------
(* Instances of NativeShell for TLC. *)
EXTENDS NativeShell, TLC

CloseReasons == {"CONNECTION_FAILED", "TRANSFER_CANCELLED", "TRANSFER_FINISHED"}

\* No connection, no session, no binding.
ShellAtRest ==
  /\ \A c \in Connections : pc[c] = "idle" /\ roomEnd[c] = "gone"
  /\ \A s \in Sessions : bindings[s] = None /\ s \notin closed

AtFirstProgress ==
  \A d \in left, u \in Uploads :
    \A e \in {queue[u], told[u], d[u]} \union unsure[u] : e.progress = FirstProgress

OneConnection == \E c \in Connections : \A d \in Connections \ {c} : pc[d] = "idle"

\* A second failing write, and a failing one among acknowledgements, is for the queue alone:
\* two connections at a time go with no failing write, and one with a failing write and no
\* acknowledgement.  A handler that may not fail still has its other step, so fairness never
\* asks for a step cut off here.
MCNext ==
  /\ Next
  /\ \/ faults' = 0 \/ ShellAtRest'
     \/ faults' = 1 /\ AtFirstProgress' /\ OneConnection'

MCFairSpec == Init /\ [][MCNext]_vars /\ Fairness
=============================================================================
