-------------------------- MODULE TransferSessions --------------------------
(***************************************************************************)
(* The WebRTC sessions of the Mac server: upload-session-coordinator.ts,   *)
(* upload-transfer-service.ts, session-signaling-gateway.ts and the        *)
(* connection of cloudflare-signaling-client.ts, in apps/server/src.       *)
(*                                                                         *)
(* Three registers must agree: the sessions of the coordinator (each with  *)
(* an open peer), the signaling connections of the gateway, and the        *)
(* session of each upload that the service remembers.  create changes them *)
(* around two awaits; signals, failing peers and sockets, and expiry change *)
(* them at any time in between.                                            *)
(*                                                                         *)
(* A call that is woken by a socket goes on before the next event: its     *)
(* continuation is a microtask.  Calls to create wake in any order.        *)
(***************************************************************************)
EXTENDS Integers, FiniteSets

CONSTANTS
  Uploads,    \* uploads of the material library
  Sessions,   \* the identifiers randomUUID can yield
  Calls,      \* calls to create that can be in progress at the same time
  None        \* no upload, no session

ASSUME DistinctNone == None \notin Uploads \union Sessions

VARIABLES
  transferring,     \* uploads whose state is "transferring"
  call,             \* program counter and local variables of each call to create
  sessions,         \* InMemoryUploadSessionCoordinator.sessions
  uploadOf,         \* the upload each session was created for
  expired,          \* sessions whose expiresAtEpochMs has passed
  sessionByUpload,  \* DefaultUploadTransferService.sessionByUpload
  connections,      \* DefaultSessionSignalingGateway.connections
  socket,           \* the Mac's signaling socket of each session
  granted           \* sessions whose grant a call to create has returned

service == <<sessions, uploadOf, sessionByUpload, connections, socket>>
vars    == <<transferring, call, service, expired, granted>>

\* "lost": the socket is no longer open, and its close event is still to come.
SocketStates == {"none", "connecting", "open", "lost", "closed"}
Idle == [pc |-> "idle", upload |-> None, session |-> None]

Init ==
  /\ transferring = Uploads
  /\ call = [c \in Calls |-> Idle]
  /\ sessions = {} /\ expired = {} /\ connections = {} /\ granted = {}
  /\ uploadOf = [s \in Sessions |-> None]
  /\ sessionByUpload = [u \in Uploads |-> None]
  /\ socket = [s \in Sessions |-> "none"]

-----------------------------------------------------------------------------
(* What the registers become *)

\* Microtasks run before the next event.
Quiet == \A c \in Calls : call[c].pc \notin {"register", "abort"}

Unused == {s \in Sessions : uploadOf[s] = None}

\* Mutant: the connection is forgotten and its socket stays.
RouteClosed_MapOnly(s) == socket

\* DefaultSessionSignalingGateway.close: the sockets afterwards
RouteClosed(s) ==
  [r \in Sessions |-> IF r = s /\ s \in connections THEN "closed" ELSE socket[r]]

\* forwardOutbound of a close message: a lost socket throws, and only the map changes.
CloseSent(s) == IF s \in Sessions /\ socket[s] = "lost" THEN socket ELSE RouteClosed(s)

\* forgetSession
Forgotten(s) ==
  [u \in Uploads |-> IF sessionByUpload[u] = s THEN None ELSE sessionByUpload[u]]

\* Mutant: the peer stays when its signaling route fails.
Abort_KeepPeer(s) ==
  /\ connections' = connections \ {s}
  /\ sessionByUpload' = Forgotten(s)
  /\ UNCHANGED sessions

\* abortOnSignalingFailure, but for the socket
Abort(s) ==
  /\ sessions' = sessions \ {s}
  /\ connections' = connections \ {s}
  /\ sessionByUpload' = Forgotten(s)

-----------------------------------------------------------------------------
(* DefaultUploadTransferService.create *)

\* Bounded by the identifiers left.
Request(c, u) ==
  /\ call[c].pc = "idle"
  /\ Cardinality({d \in Calls : call[d].pc = "ice"}) < Cardinality(Unused)
  /\ call' = [call EXCEPT ![c] = [Idle EXCEPT !.pc = "ice", !.upload = u]]
  /\ UNCHANGED <<transferring, service, expired, granted>>

\* resolveIceServers rejects
IceFails(c) ==
  /\ call[c].pc = "ice"
  /\ call' = [call EXCEPT ![c] = Idle]
  /\ UNCHANGED <<transferring, service, expired, granted>>

\* The upload is not transferring, or no peer can be made; closeExpired was first.
RefuseSession(c) ==
  /\ call[c].pc = "ice"
  /\ sessions' = sessions \ expired
  /\ call' = [call EXCEPT ![c] = Idle]
  /\ UNCHANGED <<transferring, expired, uploadOf, sessionByUpload, connections,
                 socket, granted>>

\* Mutant: the previous session of the upload is not closed.
StartSession_KeepPrevious(c, s) ==
  LET u == call[c].upload IN
  /\ call[c].pc = "ice" /\ s \in Unused /\ u \in transferring
  /\ sessions' = (sessions \ expired) \union {s}
  /\ uploadOf' = [uploadOf EXCEPT ![s] = u]
  /\ sessionByUpload' = [sessionByUpload EXCEPT ![u] = s]
  /\ socket' = [socket EXCEPT ![s] = "connecting"]
  /\ call' = [call EXCEPT ![c].pc = "connect", ![c].session = s]
  /\ UNCHANGED <<transferring, expired, connections, granted>>

\* Mutant: a previous session that the coordinator has expired is left alone.
StartSession_LiveOnly(c, s) ==
  LET u == call[c].upload
      live == sessions \ expired
      previous == IF sessionByUpload[u] \in live THEN sessionByUpload[u] ELSE None IN
  /\ call[c].pc = "ice" /\ s \in Unused /\ u \in transferring
  /\ sessions' = (live \ {previous}) \union {s}
  /\ uploadOf' = [uploadOf EXCEPT ![s] = u]
  /\ sessionByUpload' = [sessionByUpload EXCEPT ![u] = s]
  /\ connections' = connections \ {previous}
  /\ socket' = [CloseSent(previous) EXCEPT ![s] = "connecting"]
  /\ call' = [call EXCEPT ![c].pc = "connect", ![c].session = s]
  /\ UNCHANGED <<transferring, expired, granted>>

\* closeExpired, the new session, close of the previous one, and the call to connect:
\* one stretch without an await.  The coordinator sends a close only for a previous
\* session it still knows; the gateway then closes what is left.
StartSession(c, s) ==
  LET u == call[c].upload
      live == sessions \ expired
      previous == sessionByUpload[u] IN
  /\ call[c].pc = "ice" /\ s \in Unused /\ u \in transferring
  /\ sessions' = (live \ {previous}) \union {s}
  /\ uploadOf' = [uploadOf EXCEPT ![s] = u]
  /\ sessionByUpload' = [sessionByUpload EXCEPT ![u] = s]
  /\ connections' = connections \ {previous}
  /\ socket' = [IF previous \in live THEN CloseSent(previous) ELSE RouteClosed(previous)
                  EXCEPT ![s] = "connecting"]
  /\ call' = [call EXCEPT ![c].pc = "connect", ![c].session = s]
  /\ UNCHANGED <<transferring, expired, granted>>

SocketOpens(c) ==
  /\ Quiet /\ call[c].pc = "connect" /\ socket[call[c].session] = "connecting"
  /\ socket' = [socket EXCEPT ![call[c].session] = "open"]
  /\ call' = [call EXCEPT ![c].pc = "register"]
  /\ UNCHANGED <<transferring, sessions, uploadOf, expired, sessionByUpload,
                 connections, granted>>

\* Mutant: the timeout closes the socket and rejects nothing.
ConnectFails_Silent(c) ==
  /\ Quiet /\ call[c].pc = "connect" /\ socket[call[c].session] = "connecting"
  /\ socket' = [socket EXCEPT ![call[c].session] = "closed"]
  /\ UNCHANGED <<call, transferring, sessions, uploadOf, expired, sessionByUpload,
                 connections, granted>>

\* The socket fails or closes before it opens, or the timeout passes.
ConnectFails(c) ==
  /\ Quiet /\ call[c].pc = "connect" /\ socket[call[c].session] = "connecting"
  /\ socket' = [socket EXCEPT ![call[c].session] = "closed"]
  /\ call' = [call EXCEPT ![c].pc = "abort"]
  /\ UNCHANGED <<transferring, sessions, uploadOf, expired, sessionByUpload,
                 connections, granted>>

\* The connection is stored, whatever became of its session, and the grant returned.
Register(c) ==
  /\ call[c].pc = "register"
  /\ connections' = connections \union {call[c].session}
  /\ granted' = granted \union {call[c].session}
  /\ call' = [call EXCEPT ![c] = Idle]
  /\ UNCHANGED <<transferring, sessions, uploadOf, expired, sessionByUpload, socket>>

AbortCall(c) ==
  /\ call[c].pc = "abort"
  /\ Abort(call[c].session)
  /\ call' = [call EXCEPT ![c] = Idle]
  /\ UNCHANGED <<transferring, uploadOf, expired, socket, granted>>

-----------------------------------------------------------------------------
(* Signals, failures and time *)

\* acceptInbound: the session is unknown or has expired, or the phone closes it.
InboundCloses(s) ==
  /\ Quiet /\ socket[s] = "open"
  /\ sessions' = sessions \ {s}
  /\ connections' = connections \ {s}
  /\ socket' = RouteClosed(s)
  /\ UNCHANGED <<transferring, call, uploadOf, expired, sessionByUpload, granted>>

\* forwardLocalSignal of a description or candidate on a lost socket throws.
LocalSignalFails(s) ==
  /\ Quiet /\ s \in sessions /\ socket[s] = "lost"
  /\ connections' = connections \ {s}
  /\ UNCHANGED <<transferring, call, sessions, uploadOf, expired, sessionByUpload,
                 socket, granted>>

\* closeFailedDirectSession
PeerFails(s) ==
  /\ Quiet /\ s \in sessions
  /\ sessions' = sessions \ {s}
  /\ connections' = connections \ {s}
  /\ socket' = CloseSent(s)
  /\ UNCHANGED <<transferring, call, uploadOf, expired, sessionByUpload, granted>>

SocketLost(s) ==
  /\ Quiet /\ socket[s] = "open"
  /\ socket' = [socket EXCEPT ![s] = "lost"]
  /\ UNCHANGED <<transferring, call, sessions, uploadOf, expired, sessionByUpload,
                 connections, granted>>

\* Mutant: only a connection that is still in the map aborts its session.
RouteFails_Registered(s) ==
  /\ Quiet /\ socket[s] \in {"open", "lost"}
  /\ IF s \in connections THEN Abort(s)
     ELSE UNCHANGED <<sessions, connections, sessionByUpload>>
  /\ socket' = [socket EXCEPT ![s] = "closed"]
  /\ UNCHANGED <<transferring, call, uploadOf, expired, granted>>

\* Mutant: the socket keeps a state of its own.
RouteFails_Error(s) ==
  /\ Quiet /\ socket[s] \in {"open", "lost"}
  /\ Abort(s)
  /\ socket' = [socket EXCEPT ![s] = "error"]
  /\ UNCHANGED <<transferring, call, uploadOf, expired, granted>>

\* The event of a closed or failed socket, or an invalid message on an open one:
\* handleConnectionError, then abortOnSignalingFailure.
RouteFails(s) ==
  /\ Quiet /\ socket[s] \in {"open", "lost"}
  /\ Abort(s)
  /\ socket' = [socket EXCEPT ![s] = "closed"]
  /\ UNCHANGED <<transferring, call, uploadOf, expired, granted>>

Expire(s) ==
  /\ s \notin Unused /\ s \notin expired
  /\ expired' = expired \union {s}
  /\ UNCHANGED <<transferring, call, service, granted>>

\* The upload is completed or cancelled.
EndUpload(u) ==
  /\ u \in transferring
  /\ transferring' = transferring \ {u}
  /\ UNCHANGED <<call, service, expired, granted>>

-----------------------------------------------------------------------------
CallStep(c) ==
  \/ IceFails(c) \/ RefuseSession(c) \/ \E s \in Sessions : StartSession(c, s)
  \/ SocketOpens(c) \/ ConnectFails(c) \/ Register(c) \/ AbortCall(c)

SessionEvent(s) ==
  \/ InboundCloses(s) \/ LocalSignalFails(s) \/ PeerFails(s) \/ SocketLost(s)
  \/ RouteFails(s) \/ Expire(s)

Next ==
  \/ \E c \in Calls : CallStep(c) \/ \E u \in Uploads : Request(c, u)
  \/ \E s \in Sessions : SessionEvent(s)
  \/ \E u \in Uploads : EndUpload(u)

Spec == Init /\ [][Next]_vars

\* Awaits end (connect has a timeout), and a lost socket reports its close.
FairSpec ==
  /\ Spec
  /\ \A c \in Calls : WF_vars(CallStep(c))
  /\ \A s \in Sessions : WF_vars(socket[s] = "lost" /\ RouteFails(s))

-----------------------------------------------------------------------------
(* Properties *)

TypeOK ==
  /\ transferring \subseteq Uploads
  /\ call \in [Calls -> [pc : {"idle", "ice", "connect", "register", "abort"},
                         upload : Uploads \union {None},
                         session : Sessions \union {None}]]
  /\ sessions \subseteq Sessions /\ expired \subseteq Sessions
  /\ connections \subseteq Sessions /\ granted \subseteq Sessions
  /\ uploadOf \in [Sessions -> Uploads \union {None}]
  /\ sessionByUpload \in [Uploads -> Sessions \union {None}]
  /\ socket \in [Sessions -> SocketStates]

Connecting(s) == \E c \in Calls : call[c].session = s

\* An upload has at most one open peer, and the service knows which: overlapping
\* creations, late failures of older sessions and expiry never leave two sessions
\* that can feed chunks to the same upload.
OneLiveSession ==
  \A s \in sessions : uploadOf[s] \in Uploads /\ sessionByUpload[uploadOf[s]] = s

\* "No half-open peer remains": an open peer that no call is still connecting has
\* its signaling connection, or the loss of that connection is still to be reported.
LiveHasRoute ==
  \A s \in sessions : \/ Connecting(s)
                      \/ socket[s] = "open" /\ s \in connections
                      \/ socket[s] = "lost"

\* Every open signaling socket can be found and closed: the gateway lists it, or
\* the call that opened it is about to store it; it lists no socket it has closed.
RoutesOwned ==
  /\ \A s \in connections : socket[s] \in {"open", "lost"}
  /\ \A s \in Sessions : socket[s] = "open" => s \in connections \/ Connecting(s)

\* "The prior local peer and Mac signaling socket are both closed before the new
\* grant is used": once the grant of an upload's session is out, no older session
\* of that upload has a peer or a socket.
PriorRouteClosed ==
  \A u \in Uploads : sessionByUpload[u] \in granted =>
    \A s \in Sessions \ {sessionByUpload[u]} : uploadOf[s] = u =>
      s \notin sessions /\ socket[s] \notin {"connecting", "open"}

\* Where each call stands, the strengthening that makes the three invariants inductive.
CallsOK ==
  /\ \A c \in Calls :
       LET s == call[c].session IN
       /\ call[c].pc = "idle" => call[c] = Idle
       /\ call[c].pc = "ice" => s = None /\ call[c].upload \in Uploads
       /\ call[c].pc \in {"connect", "register", "abort"} =>
            s \in Sessions /\ uploadOf[s] \in Uploads /\ s \notin connections
       /\ call[c].pc = "connect" => socket[s] = "connecting"
       /\ call[c].pc = "register" => socket[s] = "open"
       /\ call[c].pc = "abort" => socket[s] = "closed"
  /\ \A c, d \in Calls : call[c].session = call[d].session /\ c # d
                           => call[c].session = None
  /\ \A s \in Sessions : uploadOf[s] = None => socket[s] = "none" /\ s \notin sessions

SessionsInv == TypeOK /\ CallsOK /\ OneLiveSession /\ LiveHasRoute /\ RoutesOwned

\* For each upload the sessions keep what the phones rely on (SessionSlot): one is live at
\* most, and one that was closed, superseded or has failed is never live again.
Slot(u) == INSTANCE SessionSlot WITH
  live <- {s \in sessions : uploadOf[s] = u},
  used <- {s \in Sessions : uploadOf[s] # None}

KeepsSlots == \A u \in Uploads : Slot(u)!Spec

\* What is over stays over: a session keeps its upload, its peer is not opened a second
\* time, and its socket neither; and a lost socket is written off only when its peer is
\* gone, also if the connection has left the map before.
NothingReopens ==
  [][\A s \in Sessions \ Unused :
       /\ uploadOf'[s] = uploadOf[s]
       /\ s \notin sessions => s \notin sessions'
       /\ socket[s] = "closed" => socket'[s] = "closed"
       /\ socket[s] = "lost" => socket'[s] = "lost" \/ (socket'[s] = "closed" /\ s \notin sessions')
    ]_vars

\* The steps of a call, at most.
StepsLeft(c) ==
  CASE call[c].pc = "idle" -> 0
    [] call[c].pc \in {"register", "abort"} -> 1
    [] call[c].pc = "connect" -> 2
    [] call[c].pc = "ice" -> 3

\* Each step of a call to create brings it nearer to its answer, and no step of another
\* call, of a signal or of a failing socket takes it back or blocks it: the socket it
\* waits for is still connecting.
CallsRunDown ==
  [][\A c \in Calls :
       /\ call[c].pc # "idle" /\ call'[c] # call[c] => StepsLeft(c)' < StepsLeft(c)
       /\ call'[c].pc = "connect" => socket'[call'[c].session] = "connecting"]_vars

\* A call to create always returns or throws.
CallsAnswered == \A c \in Calls : call[c].pc # "idle" ~> call[c].pc = "idle"

\* A peer whose signaling socket is lost is closed, also when a failing send has
\* taken the connection out of the map before its close event arrives.
LossNoticed == \A s \in Sessions : socket[s] = "lost" ~> s \notin sessions

=============================================================================
