---------------------------- MODULE ControlRoom ----------------------------
(***************************************************************************)
(* How a control request travels from a phone to the Mac and back: the     *)
(* Durable Object ControlRoom (workers/signaling/src/control-room.ts), the *)
(* reconnecting socket of the Mac (mac-control-route.ts in apps/server) and *)
(* the one-request socket of the phone (control-room-client.ts).           *)
(*                                                                         *)
(* A WebSocket has two ends that learn of its loss separately, so a socket *)
(* of the Mac can be dead on one side and listed on the other.  The room   *)
(* may be evicted between two events (hibernation): its sockets stay, and  *)
(* its map of pending requests is gone.                                    *)
(*                                                                         *)
(* A phone sends one request per socket, so the limit of eight pending     *)
(* requests and the refusal of a repeated requestId never come to bear.    *)
(***************************************************************************)
EXTENDS ControlRequests, Integers

CONSTANTS
  MacSockets,  \* sockets of the Mac that can exist at the same time
  NoSocket,    \* undefined
  MaxFaults    \* bound on ends of the process and on sockets lost without reason

ASSUME NoSocketIsNone == NoSocket \notin MacSockets
ASSUME FaultBound == MaxFaults \in Nat

VARIABLES
  up,        \* the Mac's process runs, and its control route is started
  timer,     \* the route's reconnectTimer is armed
  current,   \* the route's socket
  macEnd,    \* the Mac's end of each of its sockets
  roomEnd,   \* the room's end; "closing" sockets were superseded and are still listed
  toMac,     \* requests on their way to the Mac, with the socket that carries them
  toRoom,    \* answers on their way to the room, with their socket
  pending,   \* pendingRequestSockets of the room, from request to its phone's socket
  phone,     \* where each request stands at its phone
  phoneEnd,  \* the room's end of the phone's socket
  asked,     \* requests on their way to the room
  toPhone,   \* answers on their way to the phones
  faults

macVars   == <<up, timer, current, macEnd, toMac, toRoom>>
phoneVars == <<phone, phoneEnd, asked, toPhone>>
routeVars == <<macVars, phoneVars, roomEnd, pending, faults>>

RouteInit ==
  /\ up = TRUE /\ timer = TRUE /\ current = NoSocket
  /\ macEnd = [s \in MacSockets |-> "closed"]
  /\ roomEnd = [s \in MacSockets |-> "gone"]
  /\ toMac = {} /\ toRoom = {} /\ pending = {} /\ asked = {} /\ toPhone = {}
  /\ phone = [r \in Requests |-> "idle"]
  /\ phoneEnd = [r \in Requests |-> "gone"]
  /\ faults = 0

Fault == faults < MaxFaults /\ faults' = faults + 1

-----------------------------------------------------------------------------
(* The Mac: DefaultMacControlRoute *)

Free(s) ==
  /\ macEnd[s] = "closed" /\ roomEnd[s] = "gone"
  /\ \A m \in toMac \union toRoom : m.socket # s

\* connect: the start of the route, which is a timer of no delay, or the timer's end
Connect(s) ==
  /\ up /\ timer /\ Free(s)
  /\ timer' = FALSE
  /\ current' = s
  /\ macEnd' = [macEnd EXCEPT ![s] = "connecting"]
  /\ roomEnd' = [roomEnd EXCEPT ![s] = "none"]
  /\ UNCHANGED <<up, toMac, toRoom, pending, phoneVars, faults>>

MacOpens(s) ==
  /\ macEnd[s] = "connecting" /\ roomEnd[s] \in {"open", "closing"}
  /\ macEnd' = [macEnd EXCEPT ![s] = "open"]
  /\ UNCHANGED <<up, timer, current, toMac, toRoom, roomEnd, pending, phoneVars, faults>>

\* Mutant: a socket that closes before it opened arms no timer.
MacCloses_OpenOnly(s) ==
  /\ macEnd[s] \in {"connecting", "open"}
  /\ macEnd' = [macEnd EXCEPT ![s] = "closed"]
  /\ current' = IF current = s THEN NoSocket ELSE current
  /\ timer' = (timer \/ macEnd[s] = "open")
  /\ toMac' = {m \in toMac : m.socket # s}
  /\ UNCHANGED <<up, toRoom, roomEnd, pending, phoneVars>>

\* onclose, with or without an error before: the socket could not connect, was closed
\* by the room, or is lost.  What it still carried is lost with it.
MacCloses(s) ==
  /\ macEnd[s] \in {"connecting", "open"}
  /\ macEnd' = [macEnd EXCEPT ![s] = "closed"]
  /\ current' = IF current = s THEN NoSocket ELSE current
  /\ timer' = TRUE
  /\ toMac' = {m \in toMac : m.socket # s}
  /\ UNCHANGED <<up, toRoom, roomEnd, pending, phoneVars>>

\* The close is a consequence of what the room did, or the loss of the socket is noticed.
MacNotices(s) == roomEnd[s] \in {"closing", "gone"} /\ MacCloses(s) /\ UNCHANGED faults
MacLoses(s)   == MacCloses(s) /\ Fault

\* stop, or the end of the process: the room finds out later.
ProcessEnds ==
  /\ up /\ Fault
  /\ up' = FALSE /\ timer' = FALSE /\ current' = NoSocket
  /\ macEnd' = [s \in MacSockets |-> "closed"]
  /\ toMac' = {}
  /\ UNCHANGED <<toRoom, roomEnd, pending, phoneVars>>

\* start of a new process
ProcessStarts ==
  /\ ~up
  /\ up' = TRUE /\ timer' = TRUE
  /\ UNCHANGED <<current, macEnd, toMac, toRoom, roomEnd, pending, phoneVars, faults>>

\* The room's sockets that may take an answer or a request.
Listed == {s \in MacSockets : roomEnd[s] \in {"open", "closing"}}

\* send: on the current socket, whichever one brought the request, or not at all.
Sent(answer) ==
  IF current # NoSocket /\ macEnd[current] = "open"
    THEN toRoom \union {[socket |-> current, answer |-> answer]} ELSE toRoom

-----------------------------------------------------------------------------
(* The room *)

\* forwardControlConnection and fetch: a handshake may arrive long after its Mac is gone.
AcceptMac(s) ==
  /\ roomEnd[s] = "none"
  /\ roomEnd' = [t \in MacSockets |-> IF t = s THEN "open"
                                      ELSE IF roomEnd[t] = "open" THEN "closing"
                                      ELSE roomEnd[t]]
  /\ UNCHANGED <<macVars, pending, phoneVars, faults>>

\* The handshake never arrives, or the room learns that a socket is closed or lost.
RoomDrops(s) ==
  /\ roomEnd[s] # "gone"
  /\ roomEnd' = [roomEnd EXCEPT ![s] = "gone"]
  /\ toRoom' = {m \in toRoom : m.socket # s}
  /\ UNCHANGED <<up, timer, current, macEnd, toMac, pending, phoneVars>>

RoomNotices(s) == macEnd[s] = "closed" /\ RoomDrops(s) /\ UNCHANGED faults
RoomLoses(s)   == roomEnd[s] \in {"open", "closing"} /\ RoomDrops(s) /\ Fault

\* forwardMobileRequest without a Mac
RefuseRequest(m) ==
  /\ Listed = {}
  /\ asked' = asked \ {m}
  /\ toPhone' = toPhone \union {Rejected(m)}
  /\ UNCHANGED <<macVars, roomEnd, pending, phone, phoneEnd, faults>>

\* The Mac's socket is the first one listed: send throws on one that is closing, after
\* the request was entered in the map.
ForwardRequest(m, s) ==
  /\ s \in Listed
  /\ asked' = asked \ {m}
  /\ pending' = pending \union {m.id}
  /\ toMac' = IF roomEnd[s] = "open" /\ macEnd[s] # "closed"
                THEN toMac \union {[socket |-> s, request |-> m]} ELSE toMac
  /\ UNCHANGED <<up, timer, current, macEnd, toRoom, roomEnd, phone, phoneEnd, toPhone, faults>>

\* forwardMacResponse, from whichever socket of the Mac
ForwardAnswer(m) ==
  /\ m \in toRoom /\ m.socket \in Listed
  /\ toRoom' = toRoom \ {m}
  /\ pending' = pending \ {m.answer.id}
  /\ toPhone' = IF m.answer.id \in pending THEN toPhone \union {m.answer} ELSE toPhone
  /\ UNCHANGED <<up, timer, current, macEnd, toMac, roomEnd, phone, phoneEnd, asked, faults>>

\* Mutant: an error of a phone's socket leaves its requests in the map.
RoomLosesPhone_Entry(r) ==
  /\ phoneEnd[r] = "open"
  /\ IF phone[r] = "idle" THEN UNCHANGED faults ELSE Fault
  /\ phoneEnd' = [phoneEnd EXCEPT ![r] = "gone"]
  /\ asked' = {m \in asked : m.id # r}
  /\ toPhone' = {a \in toPhone : a.id # r}
  /\ UNCHANGED <<macVars, roomEnd, pending, phone>>

\* webSocketClose and webSocketError of a phone's socket
RoomLosesPhone(r) ==
  /\ phoneEnd[r] = "open"
  /\ IF phone[r] = "idle" THEN UNCHANGED faults ELSE Fault
  /\ phoneEnd' = [phoneEnd EXCEPT ![r] = "gone"]
  /\ asked' = {m \in asked : m.id # r}
  /\ pending' = pending \ {r}
  /\ toPhone' = {a \in toPhone : a.id # r}
  /\ UNCHANGED <<macVars, roomEnd, phone>>

Hibernate ==
  /\ pending # {} /\ pending' = {}
  /\ UNCHANGED <<macVars, roomEnd, phoneVars, faults>>

-----------------------------------------------------------------------------
(* The phone: requestMacControl *)

\* The room accepts the socket, and onopen sends the request.
Ask(m) ==
  LET r == m.id IN
  /\ phone[r] = "idle" /\ phoneEnd[r] = "gone"
  /\ phone' = [phone EXCEPT ![r] = "waiting"]
  /\ phoneEnd' = [phoneEnd EXCEPT ![r] = "open"]
  /\ asked' = asked \union {m}
  /\ UNCHANGED <<macVars, roomEnd, pending, toPhone, faults>>

\* The answer settles the request, which closes the socket.
ReceiveAnswer(a) ==
  /\ a \in toPhone /\ phone[a.id] = "waiting"
  /\ phone' = [phone EXCEPT ![a.id] = "idle"]
  /\ toPhone' = toPhone \ {a}
  /\ UNCHANGED <<macVars, roomEnd, pending, phoneEnd, asked, faults>>

\* The timer of 30 s, an error or a close settles it.
RequestFails(r) ==
  /\ phone[r] = "waiting"
  /\ phone' = [phone EXCEPT ![r] = "idle"]
  /\ UNCHANGED <<macVars, roomEnd, pending, phoneEnd, asked, toPhone, faults>>
=============================================================================
