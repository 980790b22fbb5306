--------------------------- MODULE SignalingRoom ---------------------------
(***************************************************************************)
(* The Durable Objects SignalingRoom (workers/signaling/src/index.ts), one *)
(* for each transfer session: the sockets of the mobile role, and how a    *)
(* message from the Mac reaches them.  The other direction has no state.   *)
(***************************************************************************)
CONSTANTS
  Sessions,
  Connections,  \* sockets of the mobile role that can exist at the same time
  Reasons,      \* SignalingCloseReason
  NoFrame       \* no close frame on its way

ASSUME NoFrameIsNone == NoFrame \notin Reasons

VARIABLES
  session,  \* the session in whose room a connection is, by its token
  roomEnd,  \* the room's end: "closing" sockets are superseded and still listed
  frame,    \* the close frame on its way to a connection
  closed    \* the sessions that the Mac has closed

roomVars == <<session, roomEnd, frame, closed>>

RoomInit ==
  /\ session \in [Connections -> Sessions]
  /\ roomEnd = [c \in Connections |-> "gone"]
  /\ frame = [c \in Connections |-> NoFrame]
  /\ closed = {}

InRoom(s, end) == {c \in Connections : session[c] = s /\ roomEnd[c] = end}

\* A socket on the phone starts its handshake, with a token for the session.
Knock(c, s) ==
  /\ roomEnd[c] = "gone" /\ frame[c] = NoFrame
  /\ session' = [session EXCEPT ![c] = s]
  /\ roomEnd' = [roomEnd EXCEPT ![c] = "knocking"]
  /\ UNCHANGED <<frame, closed>>

\* Mutant: the sockets that are there stay.
AcceptMobile_KeepOthers(c) ==
  /\ roomEnd[c] = "knocking"
  /\ roomEnd' = [roomEnd EXCEPT ![c] = "open"]
  /\ UNCHANGED <<session, frame, closed>>

\* fetch, once verifySignalingToken has accepted the token: the newest socket of the role
\* supersedes the others.
AcceptMobile(c) ==
  /\ roomEnd[c] = "knocking"
  /\ roomEnd' = [d \in Connections |-> IF d = c THEN "open"
                                       ELSE IF d \in InRoom(session[c], "open") THEN "closing"
                                       ELSE roomEnd[d]]
  /\ UNCHANGED <<session, frame, closed>>

\* The room closes a socket: its token has expired, its message is invalid, or it has an
\* error.
RoomCloses(c) ==
  /\ roomEnd[c] = "open"
  /\ roomEnd' = [roomEnd EXCEPT ![c] = "closing"]
  /\ UNCHANGED <<session, frame, closed>>

\* A handshake that is refused or lost, or the end of a socket as the room learns it:
\* what it still carried is lost with it.
RoomDrops(c) ==
  /\ roomEnd[c] # "gone"
  /\ roomEnd' = [roomEnd EXCEPT ![c] = "gone"]
  /\ frame' = [frame EXCEPT ![c] = NoFrame]
  /\ UNCHANGED <<session, closed>>

\* webSocketMessage with the one close frame of a session (UploadSessionCoordinator.close
\* forgets the session as it sends it).  Sockets are served in no particular order, and
\* send throws on one that is closing: the ones behind it get nothing.
MacCloses(s, reason) ==
  /\ s \notin closed
  /\ closed' = closed \union {s}
  /\ \E served \in SUBSET InRoom(s, "open") :
       /\ InRoom(s, "closing") = {} => served = InRoom(s, "open")
       /\ frame' = [c \in Connections |-> IF c \in served THEN reason ELSE frame[c]]
  /\ UNCHANGED <<session, roomEnd>>

RoomTypeOK ==
  /\ session \in [Connections -> Sessions]
  /\ roomEnd \in [Connections -> {"gone", "knocking", "open", "closing"}]
  /\ frame \in [Connections -> Reasons \union {NoFrame}]
  /\ closed \subseteq Sessions
=============================================================================
