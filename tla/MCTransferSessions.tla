------------------------- MODULE MCTransferSessions -------------------------
(***************************************************************************)
(* Instances of TransferSessions for TLC, with one history variable.       *)
(***************************************************************************)
EXTENDS TransferSessions, TLC

\* The sessions that another call superseded while their own call was still connecting
\* them: the gateway has no connection to close for those, which the run
\* sessions_superseded shows.
VARIABLE overtaken

mcvars == <<vars, overtaken>>

Overtaken ==
  {s \in Sessions :
     /\ \E u \in Uploads : sessionByUpload[u] = s /\ sessionByUpload'[u] # s
     /\ \E c \in Calls : /\ call[c].pc \in {"connect", "register"} /\ call[c].session = s
                         /\ call'[c] = call[c]}

MCInit == Init /\ overtaken = {}
MCNext == Next /\ overtaken' = overtaken \union Overtaken

MCSpec ==
  /\ MCInit /\ [][MCNext]_mcvars
  /\ \A c \in Calls : WF_vars(CallStep(c))
  /\ \A s \in Sessions : WF_vars(socket[s] = "lost" /\ RouteFails(s))

\* "The prior local peer and Mac signaling socket are both closed before the new
\* grant is used", for all calls in any order: once the grant of an upload's session
\* is out, an older session of that upload has neither a peer nor a socket, unless it
\* was superseded before its connection was stored.
OldRouteClosed ==
  \A u \in Uploads : sessionByUpload[u] \in granted =>
    \A s \in Sessions \ {sessionByUpload[u]} : uploadOf[s] = u =>
      s \notin sessions /\ (socket[s] \in {"connecting", "open"} => s \in overtaken)

\* Interchangeable identifiers, for the run without liveness.
Symmetric == Permutations(Uploads) \union Permutations(Sessions) \union Permutations(Calls)
=============================================================================
