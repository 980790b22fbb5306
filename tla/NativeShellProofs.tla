------------------------- MODULE NativeShellProofs -------------------------
(***************************************************************************)
(* Proofs about the native shell: NativeInv, CloseIsRouted and             *)
(* ConfirmedSurvives, for any sets of uploads, sessions and connections    *)
(* and any bound on failing writes.  The last part is about final statuses *)
(* and about the way of a connection to its end.                           *)
(***************************************************************************)
EXTENDS NativeShell, TLAPS

-----------------------------------------------------------------------------
(* The queue *)

\* The last change of an upload to a final status has no successor with another entry.
FinalIsLast ==
  \A u \in Uploads : told[u].status \in Final => unsure[u] \subseteq {told[u]}

QueueGood == ConfirmedSurvives /\ FinalIsLast

\* A call on an upload in a final status asks for the entry that is there.
LEMMA FinalChanges ==
  ASSUME queue \in [Uploads -> Entries], NEW u \in Uploads, queue[u].status \in Final,
         NEW e \in Changes(u)
  PROVE  e = queue[u]
BY DEF Final, Changes, MayEnqueue, MayAcknowledge, MaySet, WithStatus, Allowed, Moves, Entries

\* In a final status that was reported as done, the queue shows what was reported.
LEMMA FinalIsShown ==
  ASSUME QueueGood, NEW u \in Uploads, told[u].status \in Final
  PROVE  queue[u] = told[u]
BY DEF QueueGood, ConfirmedSurvives, FinalIsLast

\* A change that is written and synced leaves one document, with what it asked for.
LEMMA PersistedKeeps ==
  ASSUME QueueTypeOK, QueueGood, NEW u \in Uploads, NEW e \in Changes(u), Persisted(u, e)
  PROVE  QueueTypeOK' /\ QueueGood'
<1>1. Stored(u, e) \in [Uploads -> Entries] /\ e \in Entries
  BY DEF QueueTypeOK, Stored, Changes
<1>2. QueueTypeOK'
  <2>1. {queue', disk', told'} \subseteq [Uploads -> Entries] /\ left' \subseteq [Uploads -> Entries]
    BY <1>1 DEF QueueTypeOK, Persisted
  <2>2. unsure' \in [Uploads -> SUBSET Entries]
    BY DEF QueueTypeOK, Persisted
  <2> QED
    BY <2>1, <2>2 DEF QueueTypeOK, Persisted
<1>3. ConfirmedSurvives'
  BY DEF QueueTypeOK, QueueGood, ConfirmedSurvives, Persisted, Stored
<1>4. FinalIsLast'
  BY DEF QueueTypeOK, QueueGood, FinalIsLast, Persisted
<1> QED
  BY <1>2, <1>3, <1>4 DEF QueueGood

\* A change that fails leaves the documents that are there, and one more perhaps.
LEMMA NotPersistedKeeps ==
  ASSUME QueueTypeOK, QueueGood, NEW u \in Uploads, NEW e \in Changes(u), NotPersisted(u, e)
  PROVE  QueueTypeOK' /\ QueueGood'
<1>1. Stored(u, e) \in [Uploads -> Entries] /\ e \in Entries
  BY DEF QueueTypeOK, Stored, Changes
<1>2. QueueTypeOK'
  BY <1>1, QueueConstants DEF QueueTypeOK, NotPersisted
<1>3. ConfirmedSurvives'
  <2>1. \A v \in Uploads : unsure[v] \subseteq unsure'[v]
    BY DEF QueueTypeOK, NotPersisted
  <2>2. {queue', disk'} \subseteq left'
    BY DEF QueueGood, ConfirmedSurvives, NotPersisted
  <2>3. ASSUME NEW d \in left, NEW v \in Uploads PROVE d[v] = told'[v] \/ d[v] \in unsure'[v]
    BY <2>1 DEF QueueGood, ConfirmedSurvives, NotPersisted
  <2>4. ASSUME NEW v \in Uploads
        PROVE  Stored(u, e)[v] = told'[v] \/ Stored(u, e)[v] \in unsure'[v]
    <3>1. CASE v = u
      BY <3>1 DEF QueueTypeOK, NotPersisted, Stored
    <3>2. CASE v # u
      BY <3>2, <2>1 DEF QueueTypeOK, QueueGood, ConfirmedSurvives, NotPersisted, Stored
    <3> QED
      BY <3>1, <3>2
  <2>5. \A d \in left' : d \in left \/ d = Stored(u, e)
    BY DEF QueueGood, ConfirmedSurvives, NotPersisted
  <2> QED
    BY <2>2, <2>3, <2>4, <2>5 DEF ConfirmedSurvives
<1>4. FinalIsLast'
  <2>1. told[u].status \in Final => e = told[u]
    BY FinalIsShown, FinalChanges DEF QueueTypeOK
  <2> QED
    BY <2>1 DEF QueueTypeOK, QueueGood, FinalIsLast, NotPersisted
<1> QED
  BY <1>2, <1>3, <1>4 DEF QueueGood

\* A start reads one of the documents that could be left.
LEMMA OpenKeeps ==
  ASSUME QueueTypeOK, QueueGood, Open
  PROVE  QueueTypeOK' /\ QueueGood'
BY DEF QueueTypeOK, QueueGood, ConfirmedSurvives, FinalIsLast, Open

-----------------------------------------------------------------------------
(* The shell *)

LEMMA InitNative == Init => NativeInv /\ CloseIsRouted /\ QueueGood
<1> SUFFICES ASSUME Init PROVE NativeInv /\ CloseIsRouted /\ QueueGood
  OBVIOUS
<1>1. Empty \in [Uploads -> Entries]
  BY QueueConstants DEF Empty, Absent, Entries, Statuses
<1>2. TypeOK
  BY <1>1, QueueConstants DEF Init, QueueInit, RoomInit, ShellInit, TypeOK, QueueTypeOK,
     RoomTypeOK
<1>3. RegistryOwned /\ OneOpenSocket /\ OneHandler /\ CloseIsRouted
  BY DEF Init, RoomInit, ShellInit, RegistryOwned, Owns, OneOpenSocket, OneHandler,
     Closing, Handling, CloseIsRouted
<1>4. QueueGood
  BY <1>1 DEF Init, QueueInit, QueueGood, ConfirmedSurvives, FinalIsLast
<1> QED
  BY <1>2, <1>3, <1>4 DEF NativeInv

\* A connection that starts holds nothing.
LEMMA StartKeeps ==
  ASSUME NativeInv, CloseIsRouted, NEW c \in Connections, NEW s \in Sessions,
         NEW byShell \in BOOLEAN, Start(c, s, byShell)
  PROVE  NativeInv' /\ CloseIsRouted'
<1>1. TypeOK'
  BY DEF NativeInv, TypeOK, QueueTypeOK, RoomTypeOK, queueVars, Start, Knock, Goto
<1>2. RegistryOwned'
  BY DEF NativeInv, RegistryOwned, Owns, Handling, Start, Knock, Goto
<1>3. OneOpenSocket'
  BY DEF NativeInv, OneOpenSocket, Start, Knock
<1>4. OneHandler'
  BY DEF NativeInv, OneHandler, Closing, Handling, Start, Knock, Goto
<1>5. CloseIsRouted'
  BY DEF CloseIsRouted, Handling, Start, Knock, Goto
<1> QED
  BY <1>1, <1>2, <1>3, <1>4, <1>5 DEF NativeInv

\* A handshake that fails never registered.
LEMMA ConnectFailsKeeps ==
  ASSUME NativeInv, CloseIsRouted, NEW c \in Connections, ConnectFails(c)
  PROVE  NativeInv' /\ CloseIsRouted'
<1>1. TypeOK'
  BY DEF NativeInv, TypeOK, QueueTypeOK, RoomTypeOK, queueVars, roomVars, ConnectFails,
     Goto
<1>2. RegistryOwned'
  BY DEF NativeInv, RegistryOwned, Owns, roomVars, Handling, ConnectFails, Goto
<1>3. OneOpenSocket'
  BY DEF NativeInv, OneOpenSocket, roomVars, ConnectFails
<1>4. OneHandler'
  BY DEF NativeInv, OneHandler, Closing, roomVars, Handling, ConnectFails, Goto
<1>5. CloseIsRouted'
  BY DEF CloseIsRouted, roomVars, Handling, ConnectFails, Goto
<1> QED
  BY <1>1, <1>2, <1>3, <1>4, <1>5 DEF NativeInv

\* The registry takes a name that it does not have.
LEMMA RegisterKeeps ==
  ASSUME NativeInv, CloseIsRouted, NEW c \in Connections, Register(c)
  PROVE  NativeInv' /\ CloseIsRouted'
<1>1. TypeOK'
  BY DEF NativeInv, TypeOK, QueueTypeOK, RoomTypeOK, queueVars, roomVars, Register
<1>2. RegistryOwned'
  BY DEF NativeInv, TypeOK, RegistryOwned, Owns, roomVars, Register
<1>3. OneOpenSocket'
  BY DEF NativeInv, OneOpenSocket, roomVars, Register
<1>4. OneHandler'
  BY DEF NativeInv, TypeOK, OneHandler, Closing, roomVars, Handling, Register
<1>5. CloseIsRouted'
  BY DEF NativeInv, TypeOK, CloseIsRouted, roomVars, Handling, Register
<1> QED
  BY <1>1, <1>2, <1>3, <1>4, <1>5 DEF NativeInv

\* A connection that the registry refuses leaves the entry to its owner.
LEMMA AlreadyConnectedKeeps ==
  ASSUME NativeInv, CloseIsRouted, NEW c \in Connections, AlreadyConnected(c)
  PROVE  NativeInv' /\ CloseIsRouted'
<1>1. TypeOK'
  BY DEF NativeInv, TypeOK, QueueTypeOK, RoomTypeOK, queueVars, roomVars, AlreadyConnected,
     Goto
<1>2. RegistryOwned'
  BY DEF NativeInv, RegistryOwned, Owns, roomVars, Handling, AlreadyConnected, Goto
<1>3. OneOpenSocket'
  BY DEF NativeInv, OneOpenSocket, roomVars, AlreadyConnected
<1>4. OneHandler'
  BY DEF NativeInv, OneHandler, Closing, roomVars, Handling, AlreadyConnected, Goto
<1>5. CloseIsRouted'
  BY DEF CloseIsRouted, roomVars, Handling, AlreadyConnected, Goto
<1> QED
  BY <1>1, <1>2, <1>3, <1>4, <1>5 DEF NativeInv

\* The page's socket has no entry.
LEMMA PageOpensKeeps ==
  ASSUME NativeInv, CloseIsRouted, NEW c \in Connections, PageOpens(c)
  PROVE  NativeInv' /\ CloseIsRouted'
<1>1. TypeOK'
  BY DEF NativeInv, TypeOK, QueueTypeOK, RoomTypeOK, queueVars, roomVars, PageOpens, Goto
<1>2. RegistryOwned'
  BY DEF NativeInv, RegistryOwned, Owns, roomVars, PageOpens, Goto
<1>3. OneOpenSocket'
  BY DEF NativeInv, OneOpenSocket, roomVars, PageOpens
<1>4. OneHandler'
  BY DEF NativeInv, OneHandler, Closing, roomVars, Handling, PageOpens, Goto
<1>5. CloseIsRouted'
  BY DEF CloseIsRouted, roomVars, Handling, PageOpens, Goto
<1> QED
  BY <1>1, <1>2, <1>3, <1>4, <1>5 DEF NativeInv

\* An end of the loop keeps the entry until remove.
LEMMA BreaksKeeps ==
  ASSUME NativeInv, CloseIsRouted, NEW c \in Connections, Breaks(c)
  PROVE  NativeInv' /\ CloseIsRouted'
<1>1. TypeOK'
  BY DEF NativeInv, TypeOK, QueueTypeOK, RoomTypeOK, queueVars, roomVars, Breaks, Goto
<1>2. RegistryOwned'
  BY DEF NativeInv, RegistryOwned, Owns, roomVars, Breaks, Goto
<1>3. OneOpenSocket'
  BY DEF NativeInv, OneOpenSocket, roomVars, Breaks
<1>4. OneHandler'
  BY DEF NativeInv, OneHandler, Closing, roomVars, Handling, Breaks, Goto
<1>5. CloseIsRouted'
  BY DEF CloseIsRouted, roomVars, Handling, Breaks, Goto
<1> QED
  BY <1>1, <1>2, <1>3, <1>4, <1>5 DEF NativeInv

\* The entry goes with the one connection that owns it.
LEMMA LeaveKeeps ==
  ASSUME NativeInv, CloseIsRouted, NEW c \in Connections, Leave(c)
  PROVE  NativeInv' /\ CloseIsRouted'
<1>1. TypeOK'
  BY DEF NativeInv, TypeOK, QueueTypeOK, RoomTypeOK, queueVars, roomVars, Leave, Goto
<1>2. RegistryOwned'
  BY DEF NativeInv, RegistryOwned, Owns, roomVars, Leave, Goto
<1>3. OneOpenSocket'
  BY DEF NativeInv, OneOpenSocket, roomVars, Leave
<1>4. OneHandler'
  BY DEF NativeInv, OneHandler, Closing, roomVars, Handling, Leave, Goto
<1>5. CloseIsRouted'
  BY DEF CloseIsRouted, roomVars, Handling, Leave, Goto
<1> QED
  BY <1>1, <1>2, <1>3, <1>4, <1>5 DEF NativeInv

\* The frame becomes the handler's.
LEMMA LookupKeeps ==
  ASSUME NativeInv, CloseIsRouted, NEW c \in Connections, Lookup(c)
  PROVE  NativeInv' /\ CloseIsRouted'
<1>1. TypeOK'
  BY ReasonsHandled DEF NativeInv, TypeOK, QueueTypeOK, RoomTypeOK, queueVars, Lookup, Goto
<1>2. RegistryOwned'
  <2>1. ASSUME NEW d \in Connections PROVE Owns(d)' <=> Owns(d)
    <3>1. frame[c] \in Handling
      BY ReasonsHandled DEF NativeInv, TypeOK, RoomTypeOK, Lookup
    <3> QED
      BY <3>1 DEF NativeInv, TypeOK, Owns, Lookup, Goto
  <2> QED
    BY <2>1 DEF NativeInv, RegistryOwned, Lookup
<1>3. OneOpenSocket'
  BY DEF NativeInv, OneOpenSocket, Lookup
<1>4. OneHandler'
  BY DEF NativeInv, TypeOK, RoomTypeOK, OneHandler, Closing, Lookup, Goto
<1>5. CloseIsRouted'
  BY DEF NativeInv, TypeOK, CloseIsRouted, Handling, Lookup, Goto
<1> QED
  BY <1>1, <1>2, <1>3, <1>4, <1>5 DEF NativeInv

\* No other handler looks at the session.
LEMMA UnbindKeeps ==
  ASSUME NativeInv, CloseIsRouted, NEW c \in Connections, Unbind(c)
  PROVE  NativeInv' /\ CloseIsRouted'
<1>1. TypeOK'
  BY DEF NativeInv, TypeOK, QueueTypeOK, RoomTypeOK, queueVars, roomVars, Unbind, Goto
<1>2. RegistryOwned'
  BY DEF NativeInv, RegistryOwned, Owns, roomVars, Handling, Unbind, Goto
<1>3. OneOpenSocket'
  BY DEF NativeInv, OneOpenSocket, roomVars, Unbind
<1>4. OneHandler'
  BY DEF NativeInv, OneHandler, Closing, roomVars, Handling, Unbind, Goto
<1>5. CloseIsRouted'
  BY DEF NativeInv, TypeOK, OneHandler, Closing, CloseIsRouted, roomVars, Handling, Unbind,
     Goto
<1> QED
  BY <1>1, <1>2, <1>3, <1>4, <1>5 DEF NativeInv

\* The newest socket is the only open one.
LEMMA RoomAcceptsKeeps ==
  ASSUME NativeInv, CloseIsRouted, NEW c \in Connections, RoomAccepts(c)
  PROVE  NativeInv' /\ CloseIsRouted'
<1>1. TypeOK'
  BY DEF NativeInv, TypeOK, QueueTypeOK, RoomTypeOK, queueVars, shellVars, RoomAccepts,
     AcceptMobile
<1>2. RegistryOwned'
  BY DEF NativeInv, RegistryOwned, Owns, shellVars, RoomAccepts, AcceptMobile
<1>3. OneOpenSocket'
  BY DEF NativeInv, OneOpenSocket, RoomAccepts, AcceptMobile, InRoom
<1>4. OneHandler'
  BY DEF NativeInv, OneHandler, Closing, shellVars, RoomAccepts, AcceptMobile
<1>5. CloseIsRouted'
  BY DEF CloseIsRouted, shellVars, RoomAccepts, AcceptMobile
<1> QED
  BY <1>1, <1>2, <1>3, <1>4, <1>5 DEF NativeInv

\* A socket that the room closes stays listed.
LEMMA RoomCutsKeeps ==
  ASSUME NativeInv, CloseIsRouted, NEW c \in Connections, RoomCuts(c)
  PROVE  NativeInv' /\ CloseIsRouted'
<1>1. TypeOK'
  BY DEF NativeInv, TypeOK, QueueTypeOK, RoomTypeOK, queueVars, shellVars, RoomCuts,
     RoomCloses
<1>2. RegistryOwned'
  BY DEF NativeInv, RegistryOwned, Owns, shellVars, RoomCuts, RoomCloses
<1>3. OneOpenSocket'
  BY DEF NativeInv, OneOpenSocket, RoomCuts, RoomCloses
<1>4. OneHandler'
  BY DEF NativeInv, OneHandler, Closing, shellVars, RoomCuts, RoomCloses
<1>5. CloseIsRouted'
  BY DEF CloseIsRouted, shellVars, RoomCuts, RoomCloses
<1> QED
  BY <1>1, <1>2, <1>3, <1>4, <1>5 DEF NativeInv

\* A socket that is gone takes its frame with it.
LEMMA RoomForgetsKeeps ==
  ASSUME NativeInv, CloseIsRouted, NEW c \in Connections, RoomForgets(c)
  PROVE  NativeInv' /\ CloseIsRouted'
<1>1. TypeOK'
  BY DEF NativeInv, TypeOK, QueueTypeOK, RoomTypeOK, queueVars, shellVars, RoomForgets,
     RoomDrops
<1>2. RegistryOwned'
  BY DEF NativeInv, RegistryOwned, Owns, shellVars, RoomForgets, RoomDrops
<1>3. OneOpenSocket'
  BY DEF NativeInv, OneOpenSocket, RoomForgets, RoomDrops
<1>4. OneHandler'
  BY DEF NativeInv, OneHandler, Closing, shellVars, RoomForgets, RoomDrops
<1>5. CloseIsRouted'
  BY DEF CloseIsRouted, shellVars, RoomForgets, RoomDrops
<1> QED
  BY <1>1, <1>2, <1>3, <1>4, <1>5 DEF NativeInv

\* The one close frame of a session reaches its one open socket.
LEMMA MacEndsKeeps ==
  ASSUME NativeInv, CloseIsRouted, NEW s \in Sessions, NEW reason \in Reasons, MacEnds(s, reason)
  PROVE  NativeInv' /\ CloseIsRouted'
<1> USE DEF MacEnds, shellVars
<1>1. TypeOK'
  BY DEF NativeInv, TypeOK, QueueTypeOK, RoomTypeOK, queueVars, MacCloses
<1>2. RegistryOwned'
  BY DEF NativeInv, RegistryOwned, Owns, MacCloses
<1>3. OneOpenSocket'
  BY DEF NativeInv, OneOpenSocket, MacCloses
<1>4. OneHandler'
  <2>1. ASSUME NEW c \in Connections, session[c] = s
        PROVE  frame[c] = NoFrame /\ pc[c] \notin Handling
    BY <2>1 DEF NativeInv, OneHandler, Closing, MacCloses
  <2>2. PICK served \in SUBSET InRoom(s, "open") :
          frame' = [c \in Connections |-> IF c \in served THEN reason ELSE frame[c]]
    BY DEF MacCloses
  <2>3. ASSUME NEW c \in Connections, c \in served PROVE session[c] = s
    BY <2>2, <2>3 DEF InRoom
  <2>4. ASSUME NEW c \in served, NEW d \in served PROVE c = d
    BY <2>2 DEF InRoom, NativeInv, OneOpenSocket
  <2> QED
    BY <2>1, <2>2, <2>3, <2>4 DEF NativeInv, OneHandler, Closing, MacCloses
<1>5. CloseIsRouted'
  BY DEF CloseIsRouted, MacCloses
<1> QED
  BY <1>1, <1>2, <1>3, <1>4, <1>5 DEF NativeInv

\* A session that is bound keeps its upload.
LEMMA BindKeeps ==
  ASSUME NativeInv, CloseIsRouted, NEW s \in Sessions, NEW u \in Uploads, Bind(s, u)
  PROVE  NativeInv' /\ CloseIsRouted'
<1>1. NativeInv'
  BY DEF NativeInv, TypeOK, QueueTypeOK, RoomTypeOK, RegistryOwned, Owns, OneOpenSocket,
     OneHandler, Closing, queueVars, roomVars, Bind
<1>2. CloseIsRouted'
  BY DEF CloseIsRouted, roomVars, Bind
<1> QED
  BY <1>1, <1>2

\* A start of the app knows no session, and a frame on its way finds no connection.
LEMMA RestartKeeps ==
  ASSUME NativeInv, CloseIsRouted, QueueGood, Restart
  PROVE  NativeInv' /\ CloseIsRouted' /\ QueueGood'
<1>1. QueueTypeOK' /\ QueueGood'
  BY OpenKeeps DEF NativeInv, TypeOK, Restart
<1>2. TypeOK'
  BY <1>1 DEF NativeInv, TypeOK, RoomTypeOK, roomVars, Restart
<1>3. RegistryOwned' /\ OneOpenSocket' /\ OneHandler' /\ CloseIsRouted'
  BY DEF NativeInv, RegistryOwned, Owns, OneOpenSocket, OneHandler, Closing, CloseIsRouted,
     Handling, roomVars, Restart
<1> QED
  BY <1>1, <1>2, <1>3 DEF NativeInv

\* A step of the orchestration is a change of the queue and of nothing else.
LEMMA OrchestrateKeeps ==
  ASSUME NativeInv, CloseIsRouted, QueueGood, Orchestrate
  PROVE  NativeInv' /\ CloseIsRouted' /\ QueueGood'
<1>1. QueueTypeOK' /\ QueueGood'
  BY PersistedKeeps, NotPersistedKeeps DEF NativeInv, TypeOK, Orchestrate, Mutate
<1>2. NativeInv' /\ CloseIsRouted'
  BY <1>1 DEF NativeInv, TypeOK, RoomTypeOK, RegistryOwned, Owns, OneOpenSocket,
     OneHandler, Closing, CloseIsRouted, roomVars, shellVars, Orchestrate
<1> QED
  BY <1>1, <1>2

\* A handler changes the status of the upload that its session is bound to.
LEMMA SetKeeps ==
  ASSUME NativeInv, CloseIsRouted, QueueGood, NEW c \in Connections,
         SetByClose(c) \/ SetFails(c)
  PROVE  NativeInv' /\ CloseIsRouted' /\ QueueGood'
<1> DEFINE e == WithStatus(held[c], StatusFor(pc[c]))
<1>1. pc[c] \in Handling /\ held[c] \in Uploads
  BY DEF NativeInv, TypeOK, CloseIsRouted, SetByClose, SetFails, SetsStatus
<1>2. MaySet(held[c], StatusFor(pc[c])) => e \in Changes(held[c])
  BY <1>1 DEF NativeInv, TypeOK, QueueTypeOK, MaySet, Allowed, Changes, WithStatus, Entries
<1>3. QueueTypeOK' /\ QueueGood'
  <2>1. CASE UNCHANGED queueVars
    BY <2>1 DEF NativeInv, TypeOK, QueueTypeOK, QueueGood, ConfirmedSurvives, FinalIsLast,
       queueVars
  <2>2. CASE MaySet(held[c], StatusFor(pc[c]))
             /\ (Persisted(held[c], e) \/ NotPersisted(held[c], e))
    BY <1>1, <1>2, <2>2, PersistedKeeps, NotPersistedKeeps DEF NativeInv, TypeOK
  <2> QED
    BY <2>1, <2>2 DEF SetByClose, SetFails
<1>4. TypeOK'
  BY <1>1, <1>3 DEF NativeInv, TypeOK, RoomTypeOK, roomVars, SetByClose, SetFails, Goto,
     Handling
<1>5. RegistryOwned'
  BY <1>1 DEF NativeInv, TypeOK, RegistryOwned, Owns, roomVars, SetByClose, SetFails, Goto,
     Handling
<1>6. OneOpenSocket'
  BY DEF NativeInv, OneOpenSocket, roomVars, SetByClose, SetFails
<1>7. OneHandler'
  BY <1>1 DEF NativeInv, TypeOK, OneHandler, Closing, roomVars, SetByClose, SetFails, Goto
<1>8. CloseIsRouted'
  BY <1>1 DEF NativeInv, TypeOK, CloseIsRouted, roomVars, SetByClose, SetFails, Goto,
     Handling
<1> QED
  BY <1>3, <1>4, <1>5, <1>6, <1>7, <1>8 DEF NativeInv

-----------------------------------------------------------------------------
(* The theorems *)

Good == NativeInv /\ CloseIsRouted /\ QueueGood

LEMMA NativeStep == Good /\ [Next]_vars => Good'
<1> SUFFICES ASSUME Good, [Next]_vars PROVE Good'
  OBVIOUS
<1> USE DEF Good
<1>1. ASSUME NEW c \in Connections,
             \/ ConnectFails(c) \/ Register(c) \/ AlreadyConnected(c) \/ PageOpens(c)
             \/ Breaks(c) \/ Leave(c) \/ Lookup(c) \/ Unbind(c)
             \/ RoomAccepts(c) \/ RoomCuts(c) \/ RoomForgets(c)
      PROVE  NativeInv' /\ CloseIsRouted'
  BY <1>1, ConnectFailsKeeps, RegisterKeeps, AlreadyConnectedKeeps, PageOpensKeeps, BreaksKeeps,
     LeaveKeeps, LookupKeeps, UnbindKeeps, RoomAcceptsKeeps, RoomCutsKeeps, RoomForgetsKeeps
<1>2. ASSUME UNCHANGED queueVars PROVE QueueGood'
  BY <1>2 DEF QueueGood, ConfirmedSurvives, FinalIsLast, queueVars
<1>3. ASSUME NEW c \in Connections,
             \/ ConnectFails(c) \/ Register(c) \/ AlreadyConnected(c) \/ PageOpens(c)
             \/ Breaks(c) \/ Leave(c) \/ Lookup(c) \/ Unbind(c)
             \/ RoomAccepts(c) \/ RoomCuts(c) \/ RoomForgets(c)
      PROVE  UNCHANGED queueVars
  BY <1>3 DEF ConnectFails, Register, AlreadyConnected, PageOpens, Breaks, Leave, Lookup,
     Unbind, RoomAccepts, RoomCuts, RoomForgets
<1>4. ASSUME NEW c \in Connections, NEW s \in Sessions, NEW byShell \in BOOLEAN,
             Start(c, s, byShell)
      PROVE  Good'
  BY <1>4, <1>2, StartKeeps DEF Start
<1>5. ASSUME NEW s \in Sessions, NEW u \in Uploads, Bind(s, u) PROVE Good'
  BY <1>5, <1>2, BindKeeps DEF Bind
<1>6. ASSUME NEW s \in Sessions, NEW reason \in Reasons, MacEnds(s, reason) PROVE Good'
  BY <1>6, <1>2, MacEndsKeeps DEF MacEnds
<1>7. ASSUME NEW c \in Connections, SetByClose(c) \/ SetFails(c) PROVE Good'
  BY <1>7, SetKeeps
<1>8. CASE Orchestrate
  BY <1>8, OrchestrateKeeps
<1>9. CASE Restart
  BY <1>9, RestartKeeps
<1>10. CASE UNCHANGED vars
  BY <1>2, <1>10 DEF vars, queueVars, roomVars, shellVars, NativeInv, TypeOK, QueueTypeOK,
     RoomTypeOK, RegistryOwned, Owns, OneOpenSocket, OneHandler, Closing, CloseIsRouted
<1> QED
  BY <1>1, <1>2, <1>3, <1>4, <1>5, <1>6, <1>7, <1>8, <1>9, <1>10 DEF Next, ConnectionStep,
     Handle, SocketEnds

\* The inductive invariant of the shell: typing; each entry of the registry belongs to one
\* connection that is going to remove it; a room has one open socket of the phone; and the
\* close frame of a session is handled once (mobile_signaling.rs, runtime.rs, index.ts).
THEOREM NativeInvariant == Spec => []NativeInv
<1>1. Init => Good
  BY InitNative DEF Good
<1> QED
  BY <1>1, NativeStep, PTL DEF Spec, Good

\* A handler of a close frame acts on the upload that its session is still bound to, although
\* the lock is released between its steps (consume_close_json in transfer_control.rs).
THEOREM ClosesAreRouted == Spec => []CloseIsRouted
<1>1. Init => Good
  BY InitNative DEF Good
<1> QED
  BY <1>1, NativeStep, PTL DEF Spec, Good

\* Whatever writes fail and whenever the app or the phone stops, each upload has the status
\* and the progress of its last change that was reported as done, in every document that a
\* power loss can leave, unless a later change of it put its own entry there without being
\* reported as done (mutate and persist_snapshot in upload_queue.rs).
THEOREM ConfirmedChangesSurvive == Spec => []ConfirmedSurvives
<1>1. Init => Good
  BY InitNative DEF Good
<1> QED
  BY <1>1, NativeStep, PTL DEF Spec, Good, QueueGood

-----------------------------------------------------------------------------
(* The shell's tasks and connections come to an end *)

\* How the confirmed queue goes on: a legal change of one upload, or not at all.
LEMMA ToldGoesOn ==
  ASSUME Good, [Next]_vars
  PROVE  \/ told' = told
         \/ \E u \in Uploads : \E e \in Changes(u) : told' = [told EXCEPT ![u] = e]
<1>1. ASSUME NEW c \in Connections, SetByClose(c)
      PROVE  \E u \in Uploads : \E e \in Changes(u) : told' = [told EXCEPT ![u] = e]
  <2> DEFINE e == WithStatus(held[c], StatusFor(pc[c]))
  <2>1. held[c] \in Uploads
    BY <1>1 DEF Good, NativeInv, TypeOK, CloseIsRouted, SetByClose, SetsStatus, Handling
  <2>2. e \in Changes(held[c]) /\ told' = [told EXCEPT ![held[c]] = e]
    BY <1>1, <2>1 DEF Good, NativeInv, TypeOK, QueueTypeOK, SetByClose, Persisted, MaySet,
       Allowed, Changes, WithStatus, Entries
  <2> QED
    BY <2>1, <2>2
<1>2. CASE Orchestrate
  BY <1>2 DEF Orchestrate, Mutate, Persisted, NotPersisted
<1>3. CASE Restart \/ UNCHANGED vars
  BY <1>3 DEF Restart, Open, vars, queueVars
<1>4. ASSUME NEW c \in Connections, ConnectionStep(c), ~SetByClose(c) PROVE told' = told
  BY <1>4 DEF ConnectionStep, ConnectFails, Register, AlreadyConnected, PageOpens, SocketEnds,
     Breaks, Handle, Lookup, SetFails, NotPersisted, Unbind, Leave, queueVars
<1>5. ASSUME NEW c \in Connections, Breaks(c) \/ RoomAccepts(c) \/ RoomCuts(c) \/ RoomForgets(c)
      PROVE  told' = told
  BY <1>5 DEF Breaks, RoomAccepts, RoomCuts, RoomForgets, queueVars
<1>6. ASSUME NEW c \in Connections, NEW s \in Sessions, NEW byShell \in BOOLEAN,
             Start(c, s, byShell)
      PROVE  told' = told
  BY <1>6 DEF Start, queueVars
<1>7. ASSUME NEW s \in Sessions, NEW u \in Uploads, Bind(s, u) PROVE told' = told
  BY <1>7 DEF Bind, queueVars
<1>8. ASSUME NEW s \in Sessions, NEW reason \in Reasons, MacEnds(s, reason) PROVE told' = told
  BY <1>8 DEF MacEnds, queueVars
<1> QED
  BY <1>1, <1>2, <1>3, <1>4, <1>5, <1>6, <1>7, <1>8 DEF Next

\* A final status that was reported as done stays, in the queue, in the document and in
\* what a power loss leaves of it (allows_transition_to and persist_snapshot in
\* upload_queue.rs).
THEOREM FinalStatusStays == Spec => FinalStays
<1>1. Good /\ Good' /\ [Next]_vars =>
        \A u \in Uploads : told[u].status \in Final =>
          told'[u] = told[u] /\ \A d \in left' \union {queue', disk'} : d[u] = told[u]
  <2> SUFFICES ASSUME Good, Good', [Next]_vars, NEW u \in Uploads, told[u].status \in Final
               PROVE  told'[u] = told[u]
                      /\ \A d \in left' \union {queue', disk'} : d[u] = told[u]
    OBVIOUS
  <2>1. \A e \in Changes(u) : e = told[u]
    BY FinalIsShown, FinalChanges DEF Good, NativeInv, TypeOK, QueueTypeOK
  <2>2. told'[u] = told[u]
    BY <2>1, ToldGoesOn DEF Good, NativeInv, TypeOK, QueueTypeOK
  <2>3. unsure'[u] \subseteq {told[u]}
    BY <2>2 DEF Good, QueueGood, FinalIsLast
  <2>4. \A d \in left' \union {queue', disk'} : d[u] = told[u]
    BY <2>2, <2>3 DEF Good, QueueGood, ConfirmedSurvives
  <2> QED
    BY <2>2, <2>4
<1>2. Init => Good
  BY InitNative DEF Good
<1> QED
  BY <1>1, <1>2, NativeStep, PTL DEF Spec, FinalStays

\* What a step does to a connection that is under way.
Onward(c) ==
  /\ pc'[c] # pc[c] => StepsFrom(pc'[c]) < StepsFrom(pc[c])
  /\ session'[c] = session[c]
  /\ Owns(c) /\ ~Owns(c)' => session[c] \notin senders'

\* The step of one connection leaves the others where they are.
LEMMA OnwardSteps ==
  ASSUME NativeInv, NEW d \in Connections, ConnectionStep(d) \/ Breaks(d),
         NEW c \in Connections, pc[c] # "idle"
  PROVE  Onward(c)
<1>1. session' = session
  BY DEF ConnectionStep, ConnectFails, Register, AlreadyConnected, PageOpens, SocketEnds,
     Breaks, Handle, Lookup, SetByClose, SetFails, Unbind, Leave, roomVars
<1>2. CASE c # d
  <2>1. pc'[c] = pc[c] /\ (c \in native <=> c \in native')
    BY <1>2 DEF NativeInv, TypeOK, ConnectionStep, ConnectFails, Register, AlreadyConnected,
       PageOpens, SocketEnds, Breaks, Handle, Lookup, SetByClose, SetFails, Unbind, Leave, Goto
  <2> QED
    BY <1>1, <2>1 DEF Onward, Owns
<1>3. CASE c = d /\ (SetByClose(d) \/ SetFails(d) \/ Unbind(d))
  BY <1>1, <1>3 DEF NativeInv, TypeOK, SetByClose, SetFails, Unbind, SetsStatus, Goto, Onward,
     StepsFrom, Owns, Handling
<1>4. CASE c = d /\ Lookup(d)
  <2>1. frame[c] \in Handling
    BY <1>4, ReasonsHandled DEF NativeInv, TypeOK, RoomTypeOK, Lookup
  <2>2. pc[c] = "loop" /\ pc'[c] \in {"leaving"} \union Handling /\ native' = native
    BY <1>4, <2>1 DEF NativeInv, TypeOK, Lookup, Goto
  <2> QED
    BY <1>1, <2>2 DEF Onward, StepsFrom, Owns, Handling
<1>5. CASE c = d /\ (ConnectFails(d) \/ Register(d) \/ AlreadyConnected(d) \/ PageOpens(d))
  <2>1. pc[c] = "connecting" /\ pc'[c] \in {"idle", "loop", "leaving"}
    BY <1>5 DEF NativeInv, TypeOK, ConnectFails, Register, AlreadyConnected, PageOpens, Goto
  <2> QED
    BY <1>1, <2>1 DEF Onward, StepsFrom, Owns, Handling
<1>6. CASE c = d /\ Breaks(d)
  BY <1>1, <1>6 DEF NativeInv, TypeOK, Breaks, Goto, Onward, StepsFrom, Owns
<1>7. CASE c = d /\ Leave(d)
  BY <1>1, <1>7 DEF NativeInv, TypeOK, Leave, Goto, Onward, StepsFrom, Owns
<1> QED
  BY <1>2, <1>3, <1>4, <1>5, <1>6, <1>7 DEF ConnectionStep, SocketEnds, Handle

\* A connection only goes on towards its end, in one session, and its entry in the registry
\* goes with it (run_connection in runtime.rs, remove in mobile_signaling.rs): what
\* RegistrySettles needs besides a fair scheduler.
THEOREM ConnectionsEnd == Spec => ConnectionsRunDown
<1>1. NativeInv /\ [Next]_vars => \A c \in Connections : pc[c] # "idle" => Onward(c)
  <2> SUFFICES ASSUME NativeInv, [Next]_vars, NEW c \in Connections, pc[c] # "idle"
               PROVE  Onward(c)
    OBVIOUS
  <2>1. ASSUME NEW d \in Connections, NEW s \in Sessions, NEW byShell \in BOOLEAN,
               Start(d, s, byShell)
        PROVE  Onward(c)
    BY <2>1 DEF NativeInv, TypeOK, RoomTypeOK, Start, Knock, Goto, Onward, Owns
  <2>2. ASSUME UNCHANGED <<pc, native, session>> PROVE Onward(c)
    BY <2>2 DEF Onward, Owns
  <2>3. ASSUME NEW d \in Connections, RoomAccepts(d) \/ RoomCuts(d) \/ RoomForgets(d)
        PROVE  UNCHANGED <<pc, native, session>>
    BY <2>3 DEF RoomAccepts, RoomCuts, RoomForgets, AcceptMobile, RoomCloses, RoomDrops, shellVars
  <2>4. ASSUME NEW s \in Sessions, NEW u \in Uploads, Bind(s, u)
        PROVE  UNCHANGED <<pc, native, session>>
    BY <2>4 DEF Bind, roomVars
  <2>5. ASSUME NEW s \in Sessions, NEW reason \in Reasons, MacEnds(s, reason)
        PROVE  UNCHANGED <<pc, native, session>>
    BY <2>5 DEF MacEnds, MacCloses, shellVars
  <2>6. CASE Orchestrate \/ UNCHANGED vars
    BY <2>2, <2>6 DEF Orchestrate, vars, roomVars, shellVars
  <2>7. CASE Restart
    <3>1. pc'[c] = "idle" /\ session'[c] = session[c] /\ senders' = {}
      BY <2>7 DEF Restart, roomVars
    <3>2. StepsFrom("idle") < StepsFrom(pc[c])
      BY DEF NativeInv, TypeOK, StepsFrom, Handling
    <3> QED
      BY <3>1, <3>2 DEF Onward
  <2> QED
    BY <2>1, <2>2, <2>3, <2>4, <2>5, <2>6, <2>7, OnwardSteps DEF Next
<1> QED
  BY <1>1, NativeInvariant, PTL DEF Spec, ConnectionsRunDown, Onward

=============================================================================
