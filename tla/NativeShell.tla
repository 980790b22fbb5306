---------------------------- MODULE NativeShell ----------------------------
(***************************************************************************)
(* The native shell of the mobile app (mobile-shell/src-tauri/src): the    *)
(* signaling connections and their registry (mobile_signaling), the        *)
(* bindings of sessions to uploads and the close frames that change the    *)
(* queue through them (transfer_control), with the rooms of the Worker.    *)
(*                                                                         *)
(* A connection is a task of the native runtime, or a socket that the page *)
(* in the WebView opened itself and whose close frame it hands over        *)
(* (consume_signaling_close).  Each step between two locks is an action.   *)
(***************************************************************************)
EXTENDS NativeQueue, SignalingRoom

CONSTANT None   \* a session that is not bound

ASSUME NoneIsNoUpload == None \notin Uploads

\* Inside consume_close_json, for each reason of a close frame.
Handling == {"CONNECTION_FAILED", "TRANSFER_CANCELLED", "TRANSFER_FINISHED"}

ASSUME ReasonsHandled == Reasons \subseteq Handling

VARIABLES
  pc,        \* where each connection is
  native,    \* the tasks of run_connection that exist
  bindings,  \* TransferControl.bindings
  senders,   \* the sessions with an entry in MobileSignaling.senders
  held       \* the upload that a handler of a close frame has looked up

shellVars == <<pc, native, bindings, senders, held>>
vars == <<queueVars, roomVars, shellVars>>

ShellInit ==
  /\ pc = [c \in Connections |-> "idle"]
  /\ native = {}
  /\ bindings = [s \in Sessions |-> None]
  /\ senders = {}
  /\ held = [c \in Connections |-> None]

Init == QueueInit /\ RoomInit /\ ShellInit

Goto(c, label) == pc' = [pc EXCEPT ![c] = label]

-----------------------------------------------------------------------------
(* Connections: start_mobile_signaling and run_connection *)

\* start_mobile_signaling spawns run_connection; or the page opens a socket.
Start(c, s, byShell) ==
  /\ pc[c] = "idle" /\ Knock(c, s)
  /\ Goto(c, "connecting")
  /\ native' = IF byShell THEN native \union {c} ELSE native
  /\ UNCHANGED <<bindings, senders, held, queueVars>>

\* connect_async fails.
ConnectFails(c) ==
  /\ pc[c] = "connecting" /\ roomEnd[c] \in {"closing", "gone"}
  /\ Goto(c, "idle") /\ native' = native \ {c}
  /\ UNCHANGED <<bindings, senders, held, roomVars, queueVars>>

\* Mutant: the registry takes the newest connection of a session.
Register_Replace(c) ==
  /\ pc[c] = "connecting" /\ roomEnd[c] \in {"open", "closing"} /\ c \in native
  /\ senders' = senders \union {session[c]}
  /\ pc' \in {[pc EXCEPT ![c] = "loop"], [pc EXCEPT ![c] = "leaving"]}
  /\ UNCHANGED <<native, bindings, held, roomVars, queueVars>>

\* register, after the handshake, and the answer to the command, which may be gone.
Register(c) ==
  /\ pc[c] = "connecting" /\ roomEnd[c] \in {"open", "closing"} /\ c \in native
  /\ session[c] \notin senders
  /\ senders' = senders \union {session[c]}
  /\ pc' \in {[pc EXCEPT ![c] = "loop"], [pc EXCEPT ![c] = "leaving"]}
  /\ UNCHANGED <<native, bindings, held, roomVars, queueVars>>

\* SESSION_ALREADY_CONNECTED: the new socket is dropped, and the room has closed the old one.
AlreadyConnected(c) ==
  /\ pc[c] = "connecting" /\ roomEnd[c] \in {"open", "closing"} /\ c \in native
  /\ session[c] \in senders
  /\ Goto(c, "idle") /\ native' = native \ {c}
  /\ UNCHANGED <<bindings, senders, held, roomVars, queueVars>>

\* The page's own socket opens.
PageOpens(c) ==
  /\ pc[c] = "connecting" /\ roomEnd[c] \in {"open", "closing"} /\ c \notin native
  /\ Goto(c, "loop")
  /\ UNCHANGED <<native, bindings, senders, held, roomVars, queueVars>>

\* The loop breaks: the socket is closed or lost, a frame is not acceptable, or a message
\* cannot be written.
Breaks(c) ==
  /\ pc[c] = "loop"
  /\ Goto(c, "leaving")
  /\ UNCHANGED <<native, bindings, senders, held, roomVars, queueVars>>

SocketEnds(c) == roomEnd[c] \in {"closing", "gone"} /\ frame[c] = NoFrame /\ Breaks(c)

\* Mutant: the registry keeps the sender of a connection that ended.
Leave_Registered(c) ==
  /\ pc[c] = "leaving"
  /\ Goto(c, "idle") /\ native' = native \ {c}
  /\ UNCHANGED <<senders, bindings, held, roomVars, queueVars>>

\* remove, and the end of the task, which drops its socket
Leave(c) ==
  /\ pc[c] = "leaving"
  /\ Goto(c, "idle") /\ native' = native \ {c}
  /\ senders' = IF c \in native THEN senders \ {session[c]} ELSE senders
  /\ UNCHANGED <<bindings, held, roomVars, queueVars>>

-----------------------------------------------------------------------------
(* Close frames: handle_inbound and consume_close_json *)

\* bind; a session that is bound keeps its upload, and a second call returns Ok for the
\* same one and SESSION_ALREADY_BOUND for another.
Bind(s, u) ==
  /\ bindings[s] = None
  /\ bindings' = [bindings EXCEPT ![s] = u]
  /\ UNCHANGED <<pc, native, senders, held, roomVars, queueVars>>

\* bound_upload
Lookup(c) ==
  /\ pc[c] = "loop" /\ frame[c] # NoFrame
  /\ IF bindings[session[c]] = None
       THEN Goto(c, "leaving") /\ UNCHANGED held
       ELSE Goto(c, frame[c]) /\ held' = [held EXCEPT ![c] = bindings[session[c]]]
  /\ frame' = [frame EXCEPT ![c] = NoFrame]
  /\ UNCHANGED <<native, bindings, senders, session, roomEnd, closed, queueVars>>

\* The status that a reason asks for.
StatusFor(reason) == IF reason = "CONNECTION_FAILED" THEN "paused" ELSE "cancelled"

SetsStatus(c) == pc[c] \in {"CONNECTION_FAILED", "TRANSFER_CANCELLED"}

SetByClose(c) ==
  LET status == StatusFor(pc[c]) IN
  /\ SetsStatus(c) /\ MaySet(held[c], status)
  /\ Persisted(held[c], WithStatus(held[c], status))
  /\ Goto(c, "TRANSFER_FINISHED")
  /\ UNCHANGED <<native, bindings, senders, held, roomVars>>

\* An error of set_status ends the connection before the session is unbound.
SetFails(c) ==
  LET status == StatusFor(pc[c]) IN
  /\ SetsStatus(c)
  /\ IF MaySet(held[c], status) THEN NotPersisted(held[c], WithStatus(held[c], status))
                                ELSE UNCHANGED queueVars
  /\ Goto(c, "leaving")
  /\ held' = [held EXCEPT ![c] = None]
  /\ UNCHANGED <<native, bindings, senders, roomVars>>

\* unbind
Unbind(c) ==
  /\ pc[c] = "TRANSFER_FINISHED"
  /\ bindings' = [bindings EXCEPT ![session[c]] = None]
  /\ Goto(c, "leaving")
  /\ held' = [held EXCEPT ![c] = None]
  /\ UNCHANGED <<native, senders, roomVars, queueVars>>

-----------------------------------------------------------------------------
(* The app and the rooms *)

\* The app or the phone stops, and run opens the queue again: bindings and senders are new.
Restart ==
  /\ Open
  /\ pc' = [c \in Connections |-> "idle"] /\ native' = {}
  /\ bindings' = [s \in Sessions |-> None]
  /\ senders' = {}
  /\ held' = [c \in Connections |-> None]
  /\ UNCHANGED roomVars

Orchestrate == Mutate /\ UNCHANGED <<roomVars, shellVars>>

RoomAccepts(c) == AcceptMobile(c) /\ UNCHANGED <<queueVars, shellVars>>
RoomCuts(c)    == RoomCloses(c) /\ UNCHANGED <<queueVars, shellVars>>

\* The handshake of a connection may be refused or lost; the end of a socket is noticed
\* when the phone's end is gone; or the socket is lost on the way.
RoomForgets(c) == RoomDrops(c) /\ UNCHANGED <<queueVars, shellVars>>

MacEnds(s, reason) == MacCloses(s, reason) /\ UNCHANGED <<queueVars, shellVars>>

Handle(c) == Lookup(c) \/ SetByClose(c) \/ SetFails(c) \/ Unbind(c)

ConnectionStep(c) ==
  ConnectFails(c) \/ Register(c) \/ AlreadyConnected(c) \/ PageOpens(c) \/ SocketEnds(c)
    \/ Handle(c) \/ Leave(c)

Next ==
  \/ \E c \in Connections :
       \/ ConnectionStep(c) \/ Breaks(c)
       \/ RoomAccepts(c) \/ RoomCuts(c) \/ RoomForgets(c)
       \/ \E s \in Sessions, byShell \in BOOLEAN : Start(c, s, byShell)
  \/ \E s \in Sessions, u \in Uploads : Bind(s, u)
  \/ \E s \in Sessions, reason \in Reasons : MacEnds(s, reason)
  \/ Orchestrate \/ Restart

Spec == Init /\ [][Next]_vars

\* The runtime polls its tasks, and the rooms answer handshakes and notice closed sockets.
Fairness ==
  \A c \in Connections :
    WF_vars(ConnectionStep(c)) /\ WF_vars(RoomAccepts(c) \/ (pc[c] = "idle" /\ RoomForgets(c)))

FairSpec == Spec /\ Fairness

-----------------------------------------------------------------------------
(* Properties *)

TypeOK ==
  /\ QueueTypeOK /\ RoomTypeOK
  /\ pc \in [Connections -> {"idle", "connecting", "loop", "leaving"} \union Handling]
  /\ native \subseteq Connections
  /\ bindings \in [Sessions -> Uploads \union {None}]
  /\ senders \subseteq Sessions
  /\ held \in [Connections -> Uploads \union {None}]

\* Between register and remove.
Owns(c) == c \in native /\ pc[c] \in {"loop", "leaving"} \union Handling

RegistryOwned ==
  /\ \A c \in Connections : Owns(c) => session[c] \in senders
  /\ \A s \in senders : \E c \in Connections : Owns(c) /\ session[c] = s
  /\ \A c, d \in Connections : Owns(c) /\ Owns(d) /\ session[c] = session[d] => c = d

OneOpenSocket ==
  \A c, d \in Connections :
    roomEnd[c] = "open" /\ roomEnd[d] = "open" /\ session[c] = session[d] => c = d

\* A connection that has a close frame, on its way or in its handler.
Closing(c) == frame[c] # NoFrame \/ pc[c] \in Handling

OneHandler ==
  /\ \A c \in Connections : Closing(c) => session[c] \in closed
  /\ \A c, d \in Connections : Closing(c) /\ Closing(d) /\ session[c] = session[d] => c = d
  /\ \A c \in Connections : pc[c] \in Handling => frame[c] = NoFrame

\* Types; each entry of the registry belongs to one connection that is going to remove it;
\* a room has one open socket of the phone; and the close frame of a session is handled
\* once.  It is inductive.
NativeInv == TypeOK /\ RegistryOwned /\ OneOpenSocket /\ OneHandler

\* A handler that looked up the upload of its session, and released the lock, acts for a
\* session that is still bound to that upload: it never changes the upload of a later
\* binding, and never removes one.
CloseIsRouted ==
  \A c \in Connections :
    pc[c] \in Handling => held[c] # None /\ bindings[session[c]] = held[c]

\* A change to a final status that was reported as done is final: no call, no close frame,
\* no failing write, no restart and no power loss brings a cancelled or completed upload
\* back, in the queue, in the document, or in what is left of it.
Final == {"cancelled", "completed"}
FinalStays ==
  [][\A u \in Uploads : told[u].status \in Final =>
       told'[u] = told[u]
       /\ \A d \in left' \union {queue', disk'} : d[u] = told[u]]_vars

\* The steps a connection has still to take until it is gone.
StepsFrom(label) ==
  CASE label = "idle" -> 0
    [] label = "leaving" -> 1
    [] label = "TRANSFER_FINISHED" -> 2
    [] label \in {"CONNECTION_FAILED", "TRANSFER_CANCELLED"} -> 3
    [] label = "loop" -> 4
    [] label = "connecting" -> 5

\* A connection only goes on towards its end, in its one session, whatever the page, the
\* room or another connection does, and when it is gone no entry of its session is left:
\* nothing is sent to a connection that has ended.
ConnectionsRunDown ==
  [][\A c \in Connections : pc[c] # "idle" =>
       /\ pc'[c] # pc[c] => StepsFrom(pc'[c]) < StepsFrom(pc[c])
       /\ session'[c] = session[c]
       /\ Owns(c) /\ ~Owns(c)' => session[c] \notin senders']_vars

\* Once the socket of a connection has ended, its session can be connected again: the
\* registry does not keep the name.
RegistrySettles ==
  \A c \in Connections :
    (Owns(c) /\ roomEnd[c] \in {"closing", "gone"}) ~> session[c] \notin senders
=============================================================================
