----------------------- MODULE TransferSessionsProofs -----------------------
(***************************************************************************)
(* Proofs about the transfer sessions: SessionsInv is inductive, for any   *)
(* sets of uploads, sessions and calls.  One lemma per action, one step    *)
(* per conjunct of the invariant.  Then come OldRouteClosed, with the      *)
(* history variable of the instances, the refinement of SessionSlot, and   *)
(* the end of the calls.                                                   *)
(***************************************************************************)
EXTENDS MCTransferSessions, TLAPS

\* At the start nothing is open and no call is in progress.
LEMMA InitSessions == Init => SessionsInv
BY DistinctNone DEF Init, SessionsInv, TypeOK, CallsOK, OneLiveSession, LiveHasRoute,
     RoutesOwned, Idle, SocketStates, Connecting

\* A new call has no session yet.
LEMMA RequestKeeps ==
  ASSUME SessionsInv, NEW c \in Calls, NEW u \in Uploads, Request(c, u)
  PROVE  SessionsInv'
<1>1. TypeOK'
  BY DEF SessionsInv, TypeOK, Idle, service, Request
<1>2. CallsOK'
  BY DEF SessionsInv, CallsOK, Idle, service, Request
<1>3. OneLiveSession'
  BY DEF SessionsInv, OneLiveSession, service, Request
<1>4. LiveHasRoute'
  BY DEF SessionsInv, CallsOK, LiveHasRoute, Connecting, service, Request
<1>5. RoutesOwned'
  BY DEF SessionsInv, CallsOK, RoutesOwned, Connecting, service, Request
<1> QED
  BY <1>1, <1>2, <1>3, <1>4, <1>5 DEF SessionsInv

\* A call that ends before it has a session leaves the registers alone.
LEMMA IceFailsKeeps ==
  ASSUME SessionsInv, NEW c \in Calls, IceFails(c)
  PROVE  SessionsInv'
<1>1. TypeOK'
  BY DEF SessionsInv, TypeOK, Idle, service, IceFails
<1>2. CallsOK'
  BY DEF SessionsInv, CallsOK, Idle, service, IceFails
<1>3. OneLiveSession'
  BY DEF SessionsInv, OneLiveSession, service, IceFails
<1>4. LiveHasRoute'
  BY DEF SessionsInv, CallsOK, LiveHasRoute, Connecting, Idle, service, IceFails
<1>5. RoutesOwned'
  BY DEF SessionsInv, CallsOK, RoutesOwned, Connecting, Idle, service, IceFails
<1> QED
  BY <1>1, <1>2, <1>3, <1>4, <1>5 DEF SessionsInv

\* A refused call still closes the sessions that have expired.
LEMMA RefuseSessionKeeps ==
  ASSUME SessionsInv, NEW c \in Calls, RefuseSession(c)
  PROVE  SessionsInv'
<1>1. TypeOK'
  BY DEF SessionsInv, TypeOK, Idle, RefuseSession
<1>2. CallsOK'
  BY DEF SessionsInv, CallsOK, Idle, RefuseSession
<1>3. OneLiveSession'
  BY DEF SessionsInv, OneLiveSession, RefuseSession
<1>4. LiveHasRoute'
  BY DEF SessionsInv, CallsOK, LiveHasRoute, Connecting, Idle, RefuseSession
<1>5. RoutesOwned'
  BY DEF SessionsInv, CallsOK, RoutesOwned, Connecting, Idle, RefuseSession
<1> QED
  BY <1>1, <1>2, <1>3, <1>4, <1>5 DEF SessionsInv

\* The heart of the proof: closing the previous session of the upload touches neither the
\* session that another call is connecting nor the new one.
LEMMA StartSessionKeeps ==
  ASSUME SessionsInv, NEW c \in Calls, NEW s \in Sessions, StartSession(c, s)
  PROVE  SessionsInv'
<1>1. TypeOK'
  BY DistinctNone DEF SessionsInv, TypeOK, CallsOK, StartSession
<1>2. CallsOK'
  BY DistinctNone DEF SessionsInv, TypeOK, CallsOK, Unused, Idle, StartSession,
      RouteClosed, CloseSent
<1>3. OneLiveSession'
  BY DEF SessionsInv, TypeOK, OneLiveSession, StartSession
<1>4. LiveHasRoute'
  BY DEF SessionsInv, TypeOK, LiveHasRoute, Connecting, Unused, StartSession,
      RouteClosed, CloseSent
<1>5. RoutesOwned'
  BY DistinctNone DEF SessionsInv, TypeOK, CallsOK, RoutesOwned, StartSession
<1> QED
  BY <1>1, <1>2, <1>3, <1>4, <1>5 DEF SessionsInv

\* The socket that opens belongs to the call that waits for it.
LEMMA SocketOpensKeeps ==
  ASSUME SessionsInv, NEW c \in Calls, SocketOpens(c)
  PROVE  SessionsInv'
<1>1. TypeOK'
  BY DEF SessionsInv, TypeOK, CallsOK, SocketStates, SocketOpens
<1>2. CallsOK'
  BY DistinctNone DEF SessionsInv, TypeOK, CallsOK, SocketOpens
<1>3. OneLiveSession'
  BY DEF SessionsInv, OneLiveSession, SocketOpens
<1>4. LiveHasRoute'
  BY DEF SessionsInv, LiveHasRoute, Connecting, SocketOpens
<1>5. RoutesOwned'
  BY DEF SessionsInv, RoutesOwned, Connecting, SocketOpens
<1> QED
  BY <1>1, <1>2, <1>3, <1>4, <1>5 DEF SessionsInv

\* A socket that fails before it opens was not among the connections.
LEMMA ConnectFailsKeeps ==
  ASSUME SessionsInv, NEW c \in Calls, ConnectFails(c)
  PROVE  SessionsInv'
<1>1. TypeOK'
  BY DEF SessionsInv, TypeOK, CallsOK, SocketStates, ConnectFails
<1>2. CallsOK'
  BY DistinctNone DEF SessionsInv, TypeOK, CallsOK, ConnectFails
<1>3. OneLiveSession'
  BY DEF SessionsInv, OneLiveSession, ConnectFails
<1>4. LiveHasRoute'
  BY DEF SessionsInv, LiveHasRoute, Connecting, ConnectFails
<1>5. RoutesOwned'
  BY DEF SessionsInv, RoutesOwned, Connecting, ConnectFails
<1> QED
  BY <1>1, <1>2, <1>3, <1>4, <1>5 DEF SessionsInv

\* What is stored is an open socket, because no event comes between opening and storing.
LEMMA RegisterKeeps ==
  ASSUME SessionsInv, NEW c \in Calls, Register(c)
  PROVE  SessionsInv'
<1>1. TypeOK'
  BY DEF SessionsInv, TypeOK, CallsOK, Idle, Register
<1>2. CallsOK'
  BY DistinctNone DEF SessionsInv, TypeOK, CallsOK, Idle, Register
<1>3. OneLiveSession'
  BY DEF SessionsInv, OneLiveSession, Register
<1>4. LiveHasRoute'
  BY DEF SessionsInv, CallsOK, LiveHasRoute, Connecting, Register
<1>5. RoutesOwned'
  BY DEF SessionsInv, CallsOK, RoutesOwned, Connecting, Register
<1> QED
  BY <1>1, <1>2, <1>3, <1>4, <1>5 DEF SessionsInv

\* The failed call takes its peer and its entry with it.
LEMMA AbortCallKeeps ==
  ASSUME SessionsInv, NEW c \in Calls, AbortCall(c)
  PROVE  SessionsInv'
<1>1. TypeOK'
  BY DEF SessionsInv, TypeOK, Idle, AbortCall, Abort, Forgotten
<1>2. CallsOK'
  BY DEF SessionsInv, CallsOK, Idle, AbortCall, Abort
<1>3. OneLiveSession'
  BY DEF SessionsInv, OneLiveSession, AbortCall, Abort, Forgotten
<1>4. LiveHasRoute'
  BY DEF SessionsInv, LiveHasRoute, Connecting, AbortCall, Abort
<1>5. RoutesOwned'
  BY DEF SessionsInv, CallsOK, RoutesOwned, Connecting, AbortCall, Abort
<1> QED
  BY <1>1, <1>2, <1>3, <1>4, <1>5 DEF SessionsInv

\* A rejected or closing message ends the session and its route together.
LEMMA InboundClosesKeeps ==
  ASSUME SessionsInv, NEW s \in Sessions, InboundCloses(s)
  PROVE  SessionsInv'
<1>1. TypeOK'
  BY DEF SessionsInv, TypeOK, SocketStates, InboundCloses, RouteClosed
<1>2. CallsOK'
  BY DEF SessionsInv, CallsOK, InboundCloses, RouteClosed
<1>3. OneLiveSession'
  BY DEF SessionsInv, OneLiveSession, InboundCloses
<1>4. LiveHasRoute'
  BY DEF SessionsInv, TypeOK, LiveHasRoute, Connecting, InboundCloses, RouteClosed
<1>5. RoutesOwned'
  BY DEF SessionsInv, TypeOK, RoutesOwned, Connecting, InboundCloses, RouteClosed
<1> QED
  BY <1>1, <1>2, <1>3, <1>4, <1>5 DEF SessionsInv

\* Only a lost socket leaves the connections without being closed.
LEMMA LocalSignalFailsKeeps ==
  ASSUME SessionsInv, NEW s \in Sessions, LocalSignalFails(s)
  PROVE  SessionsInv'
<1>1. TypeOK'
  BY DEF SessionsInv, TypeOK, LocalSignalFails
<1>2. CallsOK'
  BY DEF SessionsInv, CallsOK, LocalSignalFails
<1>3. OneLiveSession'
  BY DEF SessionsInv, OneLiveSession, LocalSignalFails
<1>4. LiveHasRoute'
  BY DEF SessionsInv, LiveHasRoute, Connecting, LocalSignalFails
<1>5. RoutesOwned'
  BY DEF SessionsInv, RoutesOwned, Connecting, LocalSignalFails
<1> QED
  BY <1>1, <1>2, <1>3, <1>4, <1>5 DEF SessionsInv

\* A failed peer closes its route, or leaves a lost socket that will report itself.
LEMMA PeerFailsKeeps ==
  ASSUME SessionsInv, NEW s \in Sessions, PeerFails(s)
  PROVE  SessionsInv'
<1>1. TypeOK'
  BY DEF SessionsInv, TypeOK, SocketStates, PeerFails, CloseSent, RouteClosed
<1>2. CallsOK'
  BY DEF SessionsInv, CallsOK, PeerFails, CloseSent, RouteClosed
<1>3. OneLiveSession'
  BY DEF SessionsInv, OneLiveSession, PeerFails
<1>4. LiveHasRoute'
  BY DEF SessionsInv, TypeOK, LiveHasRoute, Connecting, PeerFails, CloseSent,
      RouteClosed
<1>5. RoutesOwned'
  BY DEF SessionsInv, TypeOK, RoutesOwned, Connecting, PeerFails, CloseSent, RouteClosed
<1> QED
  BY <1>1, <1>2, <1>3, <1>4, <1>5 DEF SessionsInv

\* A socket that is lost was open, so nothing is left without its route unnoticed.
LEMMA SocketLostKeeps ==
  ASSUME SessionsInv, NEW s \in Sessions, SocketLost(s)
  PROVE  SessionsInv'
<1>1. TypeOK'
  BY DEF SessionsInv, TypeOK, SocketStates, SocketLost
<1>2. CallsOK'
  BY DEF SessionsInv, CallsOK, Quiet, SocketLost
<1>3. OneLiveSession'
  BY DEF SessionsInv, OneLiveSession, SocketLost
<1>4. LiveHasRoute'
  BY DEF SessionsInv, LiveHasRoute, Connecting, SocketLost
<1>5. RoutesOwned'
  BY DEF SessionsInv, RoutesOwned, Connecting, SocketLost
<1> QED
  BY <1>1, <1>2, <1>3, <1>4, <1>5 DEF SessionsInv

\* The end of a route ends the session that used it.
LEMMA RouteFailsKeeps ==
  ASSUME SessionsInv, NEW s \in Sessions, RouteFails(s)
  PROVE  SessionsInv'
<1>1. TypeOK'
  BY DEF SessionsInv, TypeOK, SocketStates, RouteFails, Abort, Forgotten
<1>2. CallsOK'
  BY DEF SessionsInv, CallsOK, Quiet, RouteFails, Abort
<1>3. OneLiveSession'
  BY DEF SessionsInv, OneLiveSession, RouteFails, Abort, Forgotten
<1>4. LiveHasRoute'
  BY DEF SessionsInv, LiveHasRoute, Connecting, RouteFails, Abort
<1>5. RoutesOwned'
  BY DEF SessionsInv, TypeOK, RoutesOwned, Connecting, RouteFails, Abort
<1> QED
  BY <1>1, <1>2, <1>3, <1>4, <1>5 DEF SessionsInv

\* The passing of time changes no register.
LEMMA ExpireKeeps ==
  ASSUME SessionsInv, NEW s \in Sessions, Expire(s)
  PROVE  SessionsInv'
<1>1. TypeOK'
  BY DEF SessionsInv, TypeOK, service, Expire
<1>2. CallsOK'
  BY DEF SessionsInv, CallsOK, service, Expire
<1>3. OneLiveSession'
  BY DEF SessionsInv, OneLiveSession, service, Expire
<1>4. LiveHasRoute'
  BY DEF SessionsInv, LiveHasRoute, Connecting, service, Expire
<1>5. RoutesOwned'
  BY DEF SessionsInv, RoutesOwned, Connecting, service, Expire
<1> QED
  BY <1>1, <1>2, <1>3, <1>4, <1>5 DEF SessionsInv

\* The end of an upload changes no register.
LEMMA EndUploadKeeps ==
  ASSUME SessionsInv, NEW u \in Uploads, EndUpload(u)
  PROVE  SessionsInv'
<1>1. TypeOK'
  BY DEF SessionsInv, TypeOK, service, EndUpload
<1>2. CallsOK'
  BY DEF SessionsInv, CallsOK, service, EndUpload
<1>3. OneLiveSession'
  BY DEF SessionsInv, OneLiveSession, service, EndUpload
<1>4. LiveHasRoute'
  BY DEF SessionsInv, LiveHasRoute, Connecting, service, EndUpload
<1>5. RoutesOwned'
  BY DEF SessionsInv, RoutesOwned, Connecting, service, EndUpload
<1> QED
  BY <1>1, <1>2, <1>3, <1>4, <1>5 DEF SessionsInv

-----------------------------------------------------------------------------
\* Every step keeps the invariant.
LEMMA SessionsStep == SessionsInv /\ [Next]_vars => SessionsInv'
<1> SUFFICES ASSUME SessionsInv, [Next]_vars
             PROVE  SessionsInv'
  OBVIOUS
<1>1. ASSUME NEW c \in Calls, CallStep(c)
      PROVE  SessionsInv'
  <2>1. CASE \E s \in Sessions : StartSession(c, s)
    BY <2>1, StartSessionKeeps
  <2> QED
    BY <1>1, <2>1, IceFailsKeeps, RefuseSessionKeeps, SocketOpensKeeps, ConnectFailsKeeps,
       RegisterKeeps, AbortCallKeeps DEF CallStep
<1>2. ASSUME NEW c \in Calls, NEW u \in Uploads, Request(c, u)
      PROVE  SessionsInv'
  BY <1>2, RequestKeeps
<1>3. ASSUME NEW s \in Sessions, SessionEvent(s)
      PROVE  SessionsInv'
  BY <1>3, InboundClosesKeeps, LocalSignalFailsKeeps, PeerFailsKeeps, SocketLostKeeps,
     RouteFailsKeeps, ExpireKeeps DEF SessionEvent
<1>4. ASSUME NEW u \in Uploads, EndUpload(u)
      PROVE  SessionsInv'
  BY <1>4, EndUploadKeeps
<1>5. CASE UNCHANGED vars
  BY <1>5 DEF vars, service, SessionsInv, TypeOK, CallsOK, OneLiveSession, LiveHasRoute,
     RoutesOwned, Connecting
<1> QED
  BY <1>1, <1>2, <1>3, <1>4, <1>5 DEF Next

\* The inductive invariant: the registers agree, and each call stands where its program
\* counter says, whatever happens between the awaits of create.
THEOREM SessionsInvariant == Spec => []SessionsInv
BY InitSessions, SessionsStep, PTL DEF Spec

\* An upload never has two open peers, and the service remembers the one it has.
THEOREM AtMostOneLiveSession == Spec => []OneLiveSession
<1>1. SessionsInv => OneLiveSession
  BY DEF SessionsInv
<1> QED
  BY <1>1, SessionsInvariant, PTL

\* No half-open peer remains: every open peer is connecting, has its signaling connection,
\* or has a lost socket whose close is still to be reported.
THEOREM LiveSessionsHaveRoutes == Spec => []LiveHasRoute
<1>1. SessionsInv => LiveHasRoute
  BY DEF SessionsInv
<1> QED
  BY <1>1, SessionsInvariant, PTL

\* Every open signaling socket is among the connections or about to be, and no closed one is
\* listed: nothing stays open that close cannot reach.
THEOREM OpenRoutesAreOwned == Spec => []RoutesOwned
<1>1. SessionsInv => RoutesOwned
  BY DEF SessionsInv
<1> QED
  BY <1>1, SessionsInvariant, PTL

-----------------------------------------------------------------------------
(* The older sessions of an upload, over the instance's history *)

\* A connecting socket has a call that waits for it; and a session that its upload has
\* left behind has an open socket only if it was overtaken while its call connected it.
RoutesFollow ==
  /\ \A s \in Sessions : socket[s] = "connecting" =>
       \E c \in Calls : call[c].pc = "connect" /\ call[c].session = s
  /\ \A s \in Sessions : socket[s] \in {"connecting", "open"} =>
       sessionByUpload[uploadOf[s]] = s \/ s \in overtaken

\* Nobody is left behind, and no socket opens or closes unless it closes for good.
LEMMA RoutesStay ==
  ASSUME SessionsInv, RoutesFollow, overtaken \subseteq overtaken',
         uploadOf' = uploadOf,
         \A s \in Sessions : socket'[s] = socket[s] \/ socket'[s] \notin {"connecting", "open"},
         \A u \in Uploads : \/ sessionByUpload'[u] = sessionByUpload[u]
                            \/ /\ sessionByUpload[u] \in Sessions
                               /\ socket'[sessionByUpload[u]] \notin {"connecting", "open"},
         \A c \in Calls : call[c].pc = "connect" => call'[c] = call[c]
  PROVE  RoutesFollow'
<1>1. ASSUME NEW s \in Sessions, socket'[s] = "connecting"
      PROVE  \E c \in Calls : call'[c].pc = "connect" /\ call'[c].session = s
  BY <1>1 DEF RoutesFollow
<1>2. ASSUME NEW s \in Sessions, socket'[s] \in {"connecting", "open"}
      PROVE  sessionByUpload'[uploadOf'[s]] = s \/ s \in overtaken'
  <2>1. socket[s] \in {"connecting", "open"} /\ uploadOf[s] \in Uploads
    BY <1>2 DEF SessionsInv, CallsOK, TypeOK
  <2>2. CASE sessionByUpload[uploadOf[s]] = s
    BY <1>2, <2>1, <2>2
  <2>3. CASE s \in overtaken
    BY <2>3
  <2> QED BY <2>1, <2>2, <2>3 DEF RoutesFollow
<1> QED BY <1>1, <1>2 DEF RoutesFollow

\* The session that a new one supersedes: its connection is closed, or lost, or its call
\* has yet to store it.
LEMMA SupersededRoute ==
  ASSUME SessionsInv, RoutesFollow, NEW c \in Calls, NEW n \in Sessions, StartSession(c, n),
         overtaken' = overtaken \union Overtaken
  PROVE  RoutesFollow'
<1>1. PICK u \in Uploads : u = call[c].upload
  BY DEF StartSession, SessionsInv, CallsOK
<1>2. /\ uploadOf' = [uploadOf EXCEPT ![n] = u]
      /\ sessionByUpload' = [sessionByUpload EXCEPT ![u] = n]
      /\ uploadOf[n] = None /\ socket[n] = "none"
      /\ \A s \in Sessions \ {n} : uploadOf'[s] = uploadOf[s]
      /\ uploadOf'[n] = u /\ sessionByUpload'[u] = n
      /\ \A v \in Uploads \ {u} : sessionByUpload'[v] = sessionByUpload[v]
  BY <1>1 DEF StartSession, SessionsInv, TypeOK, CallsOK, Unused
<1>3. /\ socket'[n] = "connecting"
      /\ \A s \in Sessions \ {n} :
           socket'[s] = socket[s] \/ (s \in connections /\ socket'[s] = "closed")
      /\ \A s \in Sessions \ {n} :
           s = sessionByUpload[u] /\ s \in connections => socket'[s] \notin {"connecting", "open"}
  <2>1. PICK p : p = sessionByUpload[u]
    OBVIOUS
  <2>2. \/ socket' = [socket EXCEPT ![n] = "connecting"] /\ p \in Sessions /\ socket[p] = "lost"
        \/ socket' = [RouteClosed(p) EXCEPT ![n] = "connecting"]
    BY <1>1, <2>1 DEF StartSession, CloseSent
  <2>3. CASE socket' = [socket EXCEPT ![n] = "connecting"] /\ p \in Sessions /\ socket[p] = "lost"
    <3>1. socket'[n] = "connecting" /\ \A s \in Sessions \ {n} : socket'[s] = socket[s]
      BY <2>3 DEF SessionsInv, TypeOK
    <3> QED BY <2>1, <2>3, <3>1
  <2>4. CASE socket' = [RouteClosed(p) EXCEPT ![n] = "connecting"]
    <3>1. /\ socket'[n] = "connecting"
          /\ \A s \in Sessions \ {n} :
               socket'[s] = IF s = p /\ p \in connections THEN "closed" ELSE socket[s]
      BY <2>4 DEF RouteClosed
    <3>2. ASSUME NEW s \in Sessions \ {n}
          PROVE  /\ socket'[s] = socket[s] \/ (s \in connections /\ socket'[s] = "closed")
                 /\ s = p /\ s \in connections => socket'[s] \notin {"connecting", "open"}
      BY <3>1
    <3> QED BY <2>1, <3>1, <3>2
  <2> QED BY <2>2, <2>3, <2>4
<1>4. /\ call'[c].pc = "connect" /\ call'[c].session = n
      /\ call[c].pc = "ice" /\ \A d \in Calls \ {c} : call'[d] = call[d]
  BY DEF StartSession, SessionsInv, TypeOK
<1>5. ASSUME NEW s \in Sessions, socket'[s] = "connecting"
      PROVE  \E d \in Calls : call'[d].pc = "connect" /\ call'[d].session = s
  <2>1. CASE s = n
    BY <1>4, <2>1
  <2>2. CASE s # n
    <3>1. PICK d \in Calls : call[d].pc = "connect" /\ call[d].session = s
      BY <1>3, <1>5, <2>2 DEF RoutesFollow
    <3> QED BY <1>4, <3>1
  <2> QED BY <2>1, <2>2
<1>6. ASSUME NEW s \in Sessions, socket'[s] \in {"connecting", "open"}
      PROVE  sessionByUpload'[uploadOf'[s]] = s \/ s \in overtaken'
  <2>1. CASE s = n
    BY <1>2, <2>1
  <2>2. CASE s # n
    <3>1. /\ socket[s] \in {"connecting", "open"}
          /\ uploadOf[s] \in Uploads /\ uploadOf'[s] = uploadOf[s]
      BY <1>2, <1>3, <1>6, <2>2 DEF SessionsInv, CallsOK, TypeOK
    <3>2. CASE s \in overtaken
      BY <3>2
    <3>3. CASE sessionByUpload[uploadOf[s]] = s /\ uploadOf[s] # u
      BY <1>2, <3>1, <3>3
    <3>4. CASE sessionByUpload[uploadOf[s]] = s /\ uploadOf[s] = u
      <4>1. s \notin connections
        BY <1>3, <1>6, <2>2, <3>4
      <4>2. PICK d \in Calls : call[d].session = s /\ call[d].pc \in {"connect", "register"}
        <5>1. CASE socket[s] = "connecting"
          BY <5>1 DEF RoutesFollow
        <5>2. CASE socket[s] = "open"
          <6>1. PICK d \in Calls : call[d].session = s
            BY <4>1, <5>2 DEF SessionsInv, RoutesOwned, Connecting
          <6>2. call[d].pc \notin {"idle", "ice", "connect", "abort"}
            BY <5>2, <6>1, DistinctNone DEF SessionsInv, CallsOK, Idle
          <6> QED BY <6>1, <6>2 DEF SessionsInv, TypeOK
        <5> QED BY <3>1, <5>1, <5>2
      <4>3. call'[d] = call[d]
        BY <1>4, <4>2
      <4>4. sessionByUpload[u] = s /\ sessionByUpload'[u] # s
        BY <1>2, <2>2, <3>4
      <4>5. s \in Overtaken
        BY <4>2, <4>3, <4>4 DEF Overtaken
      <4> QED BY <4>5
    <3> QED BY <3>1, <3>2, <3>3, <3>4 DEF RoutesFollow
  <2> QED BY <2>1, <2>2
<1> QED BY <1>5, <1>6 DEF RoutesFollow

LEMMA RoutesFollowStep ==
  ASSUME SessionsInv, RoutesFollow, [MCNext]_mcvars
  PROVE  RoutesFollow'
<1>0. overtaken \subseteq overtaken'
  BY DEF MCNext, mcvars
<1>1. ASSUME NEW c \in Calls, NEW u \in Uploads, Request(c, u) PROVE RoutesFollow'
  BY <1>0, <1>1, RoutesStay DEF Request, service, SessionsInv, TypeOK
<1>2. ASSUME NEW c \in Calls, IceFails(c) \/ RefuseSession(c) \/ Register(c) PROVE RoutesFollow'
  BY <1>0, <1>2, RoutesStay DEF IceFails, RefuseSession, Register, service, SessionsInv, TypeOK
<1>3. ASSUME NEW c \in Calls, AbortCall(c) PROVE RoutesFollow'
  <2>1. PICK s \in Sessions : s = call[c].session /\ socket[s] = "closed"
    BY <1>3 DEF AbortCall, SessionsInv, CallsOK
  <2>2. UNCHANGED <<uploadOf, socket>>
    BY <1>3 DEF AbortCall
  <2>3. \A u \in Uploads : \/ sessionByUpload'[u] = sessionByUpload[u]
                           \/ /\ sessionByUpload[u] \in Sessions
                              /\ socket'[sessionByUpload[u]] \notin {"connecting", "open"}
    BY <1>3, <2>1 DEF AbortCall, Abort, Forgotten
  <2>4. \A d \in Calls : call[d].pc = "connect" => call'[d] = call[d]
    BY <1>3 DEF AbortCall, SessionsInv, TypeOK
  <2> QED BY <1>0, <2>2, <2>3, <2>4, RoutesStay
<1>4. ASSUME NEW c \in Calls, SocketOpens(c) \/ ConnectFails(c) PROVE RoutesFollow'
  <2>1. PICK s \in Sessions : s = call[c].session /\ socket[s] = "connecting"
    BY <1>4 DEF SocketOpens, ConnectFails, SessionsInv, CallsOK
  <2>2. /\ UNCHANGED <<uploadOf, sessionByUpload>>
        /\ socket'[s] # "connecting" /\ \A r \in Sessions \ {s} : socket'[r] = socket[r]
        /\ \A d \in Calls \ {c} : call'[d] = call[d]
    BY <1>4, <2>1 DEF SocketOpens, ConnectFails, SessionsInv, TypeOK
  <2>3. ASSUME NEW r \in Sessions, socket'[r] = "connecting"
        PROVE  \E d \in Calls : call'[d].pc = "connect" /\ call'[d].session = r
    <3>1. r # s /\ socket[r] = "connecting"
      BY <2>2, <2>3
    <3>2. PICK d \in Calls : call[d].pc = "connect" /\ call[d].session = r
      BY <3>1 DEF RoutesFollow
    <3> QED BY <2>1, <2>2, <3>1, <3>2
  <2>4. ASSUME NEW r \in Sessions, socket'[r] \in {"connecting", "open"}
        PROVE  sessionByUpload'[uploadOf'[r]] = r \/ r \in overtaken'
    BY <1>0, <2>1, <2>2, <2>4 DEF RoutesFollow
  <2> QED BY <2>3, <2>4 DEF RoutesFollow
<1>5. ASSUME NEW s \in Sessions, InboundCloses(s) \/ PeerFails(s) \/ SocketLost(s)
      PROVE  RoutesFollow'
  BY <1>0, <1>5, RoutesStay DEF InboundCloses, PeerFails, SocketLost, CloseSent, RouteClosed,
     SessionsInv, TypeOK
<1>6. ASSUME NEW s \in Sessions, LocalSignalFails(s) \/ Expire(s) PROVE RoutesFollow'
  BY <1>0, <1>6, RoutesStay DEF LocalSignalFails, Expire, service
<1>7. ASSUME NEW s \in Sessions, RouteFails(s) PROVE RoutesFollow'
  <2>1. /\ UNCHANGED <<uploadOf, call>> /\ socket'[s] = "closed"
        /\ \A r \in Sessions \ {s} : socket'[r] = socket[r]
    BY <1>7 DEF RouteFails, SessionsInv, TypeOK
  <2>2. \A u \in Uploads : \/ sessionByUpload'[u] = sessionByUpload[u]
                           \/ /\ sessionByUpload[u] \in Sessions
                              /\ socket'[sessionByUpload[u]] \notin {"connecting", "open"}
    BY <1>7, <2>1 DEF RouteFails, Abort, Forgotten
  <2> QED BY <1>0, <2>1, <2>2, RoutesStay
<1>8. ASSUME NEW u \in Uploads, EndUpload(u) PROVE RoutesFollow'
  BY <1>0, <1>8, RoutesStay DEF EndUpload, service
<1>9. ASSUME NEW c \in Calls, NEW s \in Sessions, MCNext, StartSession(c, s) PROVE RoutesFollow'
  BY <1>9, SupersededRoute DEF MCNext
<1>10. CASE UNCHANGED mcvars
  BY <1>0, <1>10, RoutesStay DEF mcvars, vars, service
<1> QED BY <1>1, <1>2, <1>3, <1>4, <1>5, <1>6, <1>7, <1>8, <1>9, <1>10
        DEF MCNext, Next, CallStep, SessionEvent

\* Once the grant of an upload's session is out, its older sessions have neither a peer nor
\* a socket, but for those that were overtaken while their socket was connecting.
THEOREM OldRoutesAreClosed == MCSpec => []OldRouteClosed
<1>1. MCInit => SessionsInv /\ RoutesFollow
  <2>1. MCInit => SessionsInv
    BY InitSessions DEF MCInit
  <2>2. MCInit => RoutesFollow
    BY DEF MCInit, Init, RoutesFollow
  <2> QED BY <2>1, <2>2
<1>2. SessionsInv /\ [MCNext]_mcvars => SessionsInv'
  BY SessionsStep DEF MCNext, mcvars
<1>3. SessionsInv /\ RoutesFollow /\ [MCNext]_mcvars => RoutesFollow'
  BY RoutesFollowStep
<1>4. SessionsInv /\ RoutesFollow => OldRouteClosed
  BY DEF SessionsInv, OneLiveSession, RoutesFollow, OldRouteClosed
<1> QED BY <1>1, <1>2, <1>3, <1>4, PTL DEF MCSpec

-----------------------------------------------------------------------------
(* What no step of the sessions takes back *)

\* What one session can become of in a step.
OneWay(s) ==
  /\ uploadOf'[s] = uploadOf[s]
  /\ s \notin sessions => s \notin sessions'
  /\ socket[s] = "closed" => socket'[s] = "closed"
  /\ socket[s] = "lost" => socket'[s] = "lost" \/ (socket'[s] = "closed" /\ s \notin sessions')

\* A new session closes the previous one, for good if its socket was lost.
LEMMA StartSessionOneWay ==
  ASSUME SessionsInv, NEW c \in Calls, NEW n \in Sessions, StartSession(c, n),
         NEW s \in Sessions \ Unused
  PROVE  OneWay(s)
<1>1. s # n /\ uploadOf'[s] = uploadOf[s]
  BY DEF SessionsInv, TypeOK, StartSession, Unused
<1>2. s \notin sessions => s \notin sessions'
  BY <1>1 DEF StartSession
<1> DEFINE u == call[c].upload
           previous == sessionByUpload[u]
           live == sessions \ expired
<1>3. socket'[s] = IF previous \in live THEN CloseSent(previous)[s] ELSE RouteClosed(previous)[s]
  BY <1>1 DEF StartSession, CloseSent, RouteClosed, SessionsInv, TypeOK
<1>4. socket'[s] # socket[s] => s = previous /\ socket'[s] = "closed"
  BY <1>3 DEF CloseSent, RouteClosed, SessionsInv, TypeOK
<1>5. s = previous => s \notin sessions'
  BY <1>1 DEF StartSession
<1> QED
  BY <1>1, <1>2, <1>4, <1>5 DEF OneWay

LEMMA CallOneWay ==
  ASSUME SessionsInv, NEW c \in Calls, CallStep(c), NEW s \in Sessions \ Unused
  PROVE  OneWay(s)
<1> USE DEF SessionsInv, TypeOK, CallsOK, OneWay
<1>1. CASE IceFails(c) \/ RefuseSession(c)
  BY <1>1 DEF IceFails, RefuseSession, service
<1>2. CASE \E n \in Sessions : StartSession(c, n)
  BY <1>2, StartSessionOneWay
<1>3. CASE SocketOpens(c)
  BY <1>3 DEF SocketOpens
<1>4. CASE ConnectFails(c)
  BY <1>4 DEF ConnectFails
<1>5. CASE Register(c) \/ AbortCall(c)
  BY <1>5 DEF Register, AbortCall, Abort
<1> QED
  BY <1>1, <1>2, <1>3, <1>4, <1>5 DEF CallStep

LEMMA EventOneWay ==
  ASSUME SessionsInv, NEW r \in Sessions, SessionEvent(r), NEW s \in Sessions \ Unused
  PROVE  OneWay(s)
<1> USE DEF SessionsInv, TypeOK, OneWay
<1>1. CASE InboundCloses(r)
  BY <1>1 DEF InboundCloses, RouteClosed
<1>2. CASE LocalSignalFails(r) \/ Expire(r)
  BY <1>2 DEF LocalSignalFails, Expire, service
<1>3. CASE PeerFails(r)
  BY <1>3 DEF PeerFails, CloseSent, RouteClosed
<1>4. CASE SocketLost(r)
  BY <1>4 DEF SocketLost
<1>5. CASE RouteFails(r)
  BY <1>5 DEF RouteFails, Abort
<1> QED
  BY <1>1, <1>2, <1>3, <1>4, <1>5 DEF SessionEvent

LEMMA StepOneWay ==
  ASSUME SessionsInv, [Next]_vars
  PROVE  \A s \in Sessions \ Unused : OneWay(s)
<1> SUFFICES ASSUME NEW s \in Sessions \ Unused PROVE OneWay(s)
  OBVIOUS
<1>1. ASSUME NEW c \in Calls, NEW u \in Uploads, Request(c, u) PROVE OneWay(s)
  BY <1>1 DEF Request, OneWay, service
<1>2. ASSUME NEW u \in Uploads, EndUpload(u) PROVE OneWay(s)
  BY <1>2 DEF EndUpload, OneWay, service
<1>3. CASE UNCHANGED vars
  BY <1>3 DEF vars, OneWay, service
<1> QED
  BY <1>1, <1>2, <1>3, CallOneWay, EventOneWay DEF Next

\* No session is opened a second time, and no late event of an old one reopens anything.
THEOREM WhatIsOverStaysOver == Spec => NothingReopens
<1>1. SessionsInv /\ [Next]_vars => \A s \in Sessions \ Unused : OneWay(s)
  BY StepOneWay
<1> QED
  BY <1>1, SessionsInvariant, PTL DEF Spec, NothingReopens, OneWay

\* Which session can be opened in a step, and which upload it is for.
LEMMA StepOpens ==
  ASSUME SessionsInv, [Next]_vars
  PROVE  \/ sessions' \subseteq sessions /\ uploadOf' = uploadOf
         \/ \E c \in Calls, n \in Sessions : StartSession(c, n)
<1> DEFINE Goal == \/ sessions' \subseteq sessions /\ uploadOf' = uploadOf
                   \/ \E c \in Calls, n \in Sessions : StartSession(c, n)
<1>1. ASSUME NEW c \in Calls, CallStep(c) PROVE Goal
  BY <1>1 DEF CallStep, IceFails, RefuseSession, SocketOpens, ConnectFails, Register, AbortCall,
     Abort, service
<1>2. ASSUME NEW s \in Sessions, SessionEvent(s) PROVE Goal
  BY <1>2 DEF SessionEvent, InboundCloses, LocalSignalFails, PeerFails, SocketLost, RouteFails,
     Expire, Abort, service
<1>3. ASSUME NEW c \in Calls, NEW u \in Uploads, Request(c, u) PROVE Goal
  BY <1>3 DEF Request, service
<1>4. ASSUME NEW u \in Uploads, EndUpload(u) PROVE Goal
  BY <1>4 DEF EndUpload, service
<1>5. CASE UNCHANGED vars
  BY <1>5 DEF vars, service
<1> QED
  BY <1>1, <1>2, <1>3, <1>4, <1>5 DEF Next

LEMMA InitSlot ==
  ASSUME Init, NEW u \in Uploads
  PROVE  Slot(u)!Init
BY DistinctNone DEF Init, Slot!Init

LEMMA StepSlot ==
  ASSUME SessionsInv, [Next]_vars, NEW u \in Uploads
  PROVE  [Slot(u)!Next]_(Slot(u)!vars)
<1> DEFINE live == {s \in sessions : uploadOf[s] = u}
           live2 == {s \in sessions' : uploadOf'[s] = u}
           used == {s \in Sessions : uploadOf[s] # None}
           used2 == {s \in Sessions : uploadOf'[s] # None}
<1>1. used \subseteq used2
  BY StepOneWay DEF OneWay, Unused
\* One session is live at most: it stays, or it goes.
<1>2. CASE sessions' \subseteq sessions /\ uploadOf' = uploadOf
  <2>1. live2 \subseteq live
    BY <1>2
  <2>2. \A s, r \in live : s = r
    BY DEF SessionsInv, OneLiveSession
  <2>3. live2 = {} \/ live2 = live
    BY <2>1, <2>2
  <2> QED
    BY <1>1, <2>3 DEF Slot!Next, Slot!Close
<1>3. ASSUME NEW c \in Calls, NEW n \in Sessions, StartSession(c, n)
      PROVE  Slot(u)!Next
  <2> DEFINE v == call[c].upload
  <2>1. /\ n \notin used /\ n \in sessions' /\ uploadOf'[n] = v /\ v \in Uploads
        /\ sessions' \subseteq sessions \union {n}
        /\ \A s \in Sessions \ {n} : uploadOf'[s] = uploadOf[s]
        /\ sessionByUpload[v] \notin sessions'
    BY <1>3, DistinctNone DEF StartSession, Unused, SessionsInv, TypeOK, CallsOK, OneLiveSession
  <2>2. SessionsInv' /\ sessions \subseteq Sessions
    BY <1>3, StartSessionKeeps DEF SessionsInv, TypeOK
  <2>3. CASE u = v
    <3>1. live2 = {n}
      BY <2>1, <2>2, <2>3 DEF SessionsInv, OneLiveSession
    <3>2. n \in used2
      BY <2>1, DistinctNone
    <3> QED
      BY <1>1, <2>1, <3>1, <3>2 DEF Slot!Next, Slot!Open
  <2>4. CASE u # v
    <3>1. live2 \subseteq live
      BY <2>1, <2>2, <2>4
    <3>2. \A s, r \in live : s = r
      BY DEF SessionsInv, OneLiveSession
    <3>3. live2 = {} \/ live2 = live
      BY <3>1, <3>2
    <3> QED
      BY <1>1, <3>3 DEF Slot!Next, Slot!Close
  <2> QED
    BY <2>3, <2>4
<1> QED
  BY <1>2, <1>3, StepOpens

\* The sessions of each upload implement SessionSlot, which the transfer protocol relies on.
THEOREM SessionsKeepSlots == Spec => KeepsSlots
<1>1. ASSUME NEW u \in Uploads PROVE Spec => Slot(u)!Spec
  <2>1. Init => Slot(u)!Init
    BY InitSlot
  <2>2. SessionsInv /\ [Next]_vars => [Slot(u)!Next]_(Slot(u)!vars)
    BY StepSlot
  <2> QED
    BY <2>1, <2>2, SessionsInvariant, PTL DEF Spec, Slot!Spec
<1> QED
  BY <1>1 DEF KeepsSlots

-----------------------------------------------------------------------------
(* The calls come to an end *)

Nearer(c) == call[c].pc # "idle" /\ call'[c] # call[c] => StepsLeft(c)' < StepsLeft(c)

LEMMA StepNearer ==
  ASSUME SessionsInv, [Next]_vars
  PROVE  \A c \in Calls : Nearer(c)
<1> SUFFICES ASSUME NEW c \in Calls PROVE Nearer(c)
  OBVIOUS
<1> USE DEF SessionsInv, TypeOK, Nearer, StepsLeft, Idle
<1>1. ASSUME NEW d \in Calls, CallStep(d) PROVE Nearer(c)
  <2>1. CASE IceFails(d) \/ RefuseSession(d)
    BY <2>1 DEF IceFails, RefuseSession
  <2>2. ASSUME NEW s \in Sessions, StartSession(d, s) PROVE Nearer(c)
    BY <2>2 DEF StartSession
  <2>3. CASE SocketOpens(d) \/ ConnectFails(d)
    BY <2>3 DEF SocketOpens, ConnectFails
  <2>4. CASE Register(d) \/ AbortCall(d)
    BY <2>4 DEF Register, AbortCall
  <2> QED
    BY <1>1, <2>1, <2>2, <2>3, <2>4 DEF CallStep
<1>2. ASSUME NEW d \in Calls, NEW u \in Uploads, Request(d, u) PROVE Nearer(c)
  BY <1>2 DEF Request
<1>3. ASSUME NEW s \in Sessions, SessionEvent(s) PROVE Nearer(c)
  BY <1>3 DEF SessionEvent, InboundCloses, LocalSignalFails, PeerFails, SocketLost, RouteFails,
     Expire
<1>4. ASSUME NEW u \in Uploads, EndUpload(u) PROVE Nearer(c)
  BY <1>4 DEF EndUpload
<1>5. CASE UNCHANGED vars
  BY <1>5 DEF vars
<1> QED
  BY <1>1, <1>2, <1>3, <1>4, <1>5 DEF Next

\* A call to create has three steps at most, and no other event of the sessions stops it
\* (CallsAnswered needs the fairness of its awaits on top).
THEOREM CallsEnd == Spec => CallsRunDown
<1> DEFINE Ends == \A c \in Calls :
      /\ call[c].pc # "idle" /\ call'[c] # call[c] => StepsLeft(c)' < StepsLeft(c)
      /\ call'[c].pc = "connect" => socket'[call'[c].session] = "connecting"
<1>1. SessionsInv /\ [Next]_vars => Ends
  BY StepNearer, SessionsStep DEF Nearer, SessionsInv, CallsOK
<1> QED
  BY <1>1, SessionsInvariant, PTL DEF Spec, CallsRunDown

=============================================================================
