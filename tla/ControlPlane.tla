---------------------------- MODULE ControlPlane ----------------------------
(***************************************************************************)
(* The control plane as a whole: the requests of ControlRoom are decided   *)
(* by UploadKeys, in the same process that holds the Mac's socket          *)
(* (runtime-project-upload-control.ts in apps/server).  An answer leaves   *)
(* on the socket that is current when it is ready.                         *)
(***************************************************************************)
EXTENDS ControlRoom, UploadKeys, FiniteSets

vars == <<routeVars, keyVars>>

Init == RouteInit /\ KeyInit

-----------------------------------------------------------------------------
(* The composition *)

Answer(a) == toRoom' = Sent(a)

\* onRequest: the handling begins, and may end at once.
Receive(m) ==
  LET ask == m.request.ask IN
  /\ macEnd[m.socket] = "open"
  /\ toMac' = toMac \ {m}
  /\ \/ AcceptRedeem(ask) /\ Answer(Accepted(m.request, None))
     \/ RejectRedeem(ask) /\ Answer(Rejected(m.request))
     \/ RejectTransfer(ask) /\ Answer(Rejected(m.request))
     \/ /\ \/ QueueCreation(m.request.id, ask)
           \/ \E u \in Uploads : BeginResume(m.request.id, ask, u)
        /\ UNCHANGED toRoom
  /\ UNCHANGED <<up, timer, current, macEnd, roomEnd, pending, phoneVars, faults>>

\* The process ends in the middle of a redemption.
ReceiveThrows(m) ==
  macEnd[m.socket] = "open" /\ RedeemThrows(m.request.ask) /\ Forget /\ ProcessEnds

Request(r) == [id |-> r, ask |-> work[r].ask]

\* The handling of a creation or resumption goes on.
Handle(r) ==
  /\ \/ (RefuseCreation(r) \/ CancelUpload(r) \/ ResumeFails(r)) /\ Answer(Rejected(Request(r)))
     \/ SessionOpens(r) /\ Answer(Accepted(Request(r), work[r].upload))
     \/ (BindUpload(r) \/ SessionFails(r) \/ \E u \in Uploads : CreateRow(r, u))
        /\ UNCHANGED toRoom
  /\ UNCHANGED <<up, timer, current, macEnd, toMac, roomEnd, pending, phoneVars, faults>>

HandleFails(r) ==
  /\ BindThrows(r) /\ Answer(Rejected(Request(r))) /\ Fault
  /\ UNCHANGED <<up, timer, current, macEnd, toMac, roomEnd, pending, phoneVars>>

Crash == ProcessEnds /\ Forget /\ UNCHANGED tables

\* A request is new: nothing is left of the one that had its identifier before.
Begin(m) ==
  /\ work[m.id] = Away
  /\ \A n \in toMac : n.request.id # m.id
  /\ \A n \in toRoom : n.answer.id # m.id
  /\ Ask(m)

Desktop ==
  /\ up
  /\ \/ \E k \in Keys : CreateKey(k) \/ RevokeKey(k)
     \/ \E u \in Uploads : UploadEnds(u)

MacRoute ==
  \/ ProcessStarts
  \/ \E s \in MacSockets : Connect(s) \/ MacOpens(s) \/ MacNotices(s) \/ MacLoses(s)

Room ==
  \/ \E s \in MacSockets : AcceptMac(s) \/ RoomNotices(s) \/ RoomLoses(s)
  \/ \E m \in asked : RefuseRequest(m) \/ \E s \in MacSockets : ForwardRequest(m, s)
  \/ \E m \in toRoom : ForwardAnswer(m)
  \/ \E r \in Requests : RoomLosesPhone(r)
  \/ Hibernate

Phone ==
  \/ \E m \in Messages : Begin(m)
  \/ \E a \in toPhone : ReceiveAnswer(a)
  \/ \E r \in Requests : RequestFails(r)

Next ==
  \/ \E m \in toMac : Receive(m) \/ ReceiveThrows(m)
  \/ \E r \in Requests : Handle(r) \/ HandleFails(r)
  \/ Crash
  \/ Desktop /\ UNCHANGED routeVars
  \/ (MacRoute \/ Room \/ Phone) /\ UNCHANGED keyVars

Spec == Init /\ [][Next]_vars

\* The timer of the Mac fires, a handshake ends, and each end of a socket that is closed
\* at the other learns of it.
FairSpec ==
  /\ Spec
  /\ WF_vars((\E s \in MacSockets : Connect(s)) /\ UNCHANGED keyVars)
  /\ \A s \in MacSockets :
       /\ WF_vars((AcceptMac(s) \/ MacOpens(s)) /\ UNCHANGED keyVars)
       /\ WF_vars(MacNotices(s) /\ UNCHANGED keyVars)
       /\ WF_vars(RoomNotices(s) /\ UNCHANGED keyVars)

-----------------------------------------------------------------------------
(* Properties *)

RouteTypeOK ==
  /\ up \in BOOLEAN /\ timer \in BOOLEAN /\ faults \in 0..MaxFaults
  /\ current \in MacSockets \union {NoSocket}
  /\ macEnd \in [MacSockets -> {"closed", "connecting", "open"}]
  /\ roomEnd \in [MacSockets -> {"none", "open", "closing", "gone"}]
  /\ toMac \subseteq [socket : MacSockets, request : Messages]
  /\ toRoom \subseteq [socket : MacSockets, answer : Answers]
  /\ toPhone \subseteq Answers /\ asked \subseteq Messages /\ pending \subseteq Requests
  /\ phone \in [Requests -> {"idle", "waiting"}]
  /\ phoneEnd \in [Requests -> {"open", "gone"}]

KeyTypeOK ==
  /\ keyState \in [Keys -> {"none", "active", "revoked"}]
  /\ paired \in [Devices -> PublicKeys \union {None}]
  /\ bindings \subseteq Grants
  /\ uploadRow \in [Uploads -> {"none", "transferring", "ended"}]
  /\ transferOf \in [Uploads -> Grants \union {None}]
  /\ creations \in Seq(Requests)
  /\ work \in [Requests -> [pc : {"none", "queued", "bind", "session", "cancel"},
                            ask : Contents \union {None}, upload : Uploads \union {None}]]

\* The route of a running Mac has exactly one way forward: its timer, or one socket that
\* is not closed; an ended process has none.
OneWayForward ==
  /\ \A s \in MacSockets : macEnd[s] # "closed" => current = s
  /\ current # NoSocket => macEnd[current] # "closed"
  /\ timer <=> up /\ current = NoSocket
  /\ ~up => current = NoSocket

\* The room serves one socket of the Mac at a time, and expects answers only for phones
\* that it can still send them to.
RoomInOrder ==
  /\ \A s, t \in MacSockets : roomEnd[s] = "open" /\ roomEnd[t] = "open" => s = t
  /\ \A r \in pending \union {m.id : m \in asked \union toPhone} : phoneEnd[r] = "open"

\* The creation queue holds each waiting creation once, and its head alone is at work.
QueueInOrder ==
  /\ \A i, j \in DOMAIN creations : creations[i] = creations[j] => i = j
  /\ \A i \in DOMAIN creations : AtWork(creations[i], "queued") \/ AtWork(creations[i], "bind")
  /\ \A r \in Requests :
       /\ AtWork(r, "none") => work[r] = Away
       /\ AtWork(r, "queued") => \E i \in DOMAIN creations : creations[i] = r
       /\ AtWork(r, "bind") => Running(r)

\* What is being handled was let in by a binding, and an upload is bound at most once.
WorkIsGranted ==
  /\ \A r \in Requests : ~AtWork(r, "none") =>
       /\ work[r].ask \in Contents /\ GrantOf(work[r].ask) \in bindings
       /\ work[r].ask.kind \in {"create", "resume"}
       /\ ~AtWork(r, "queued") => work[r].upload \in Uploads
       /\ AtWork(r, "bind") => uploadRow[work[r].upload] # "none" /\ transferOf[work[r].upload] = None
       /\ AtWork(r, "session") \/ AtWork(r, "cancel") =>
            transferOf[work[r].upload] = GrantOf(work[r].ask)
  /\ \A u \in Uploads : transferOf[u] # None => uploadRow[u] # "none"

\* A request is in one place at a time, on its way to the Mac or handled there, so the Mac
\* never handles it twice.
HandledOnce ==
  /\ \A m, n \in asked : m.id = n.id => m = n
  /\ \A m, n \in toMac : m.request.id = n.request.id => m = n
  /\ \A m \in asked, n \in toMac : m.id # n.request.id
  /\ \A m \in asked : work[m.id] = Away
  /\ \A n \in toMac : work[n.request.id] = Away

RouteInv   == RouteTypeOK /\ OneWayForward /\ RoomInOrder
KeyInv     == KeyTypeOK /\ QueueInOrder /\ WorkIsGranted
ControlInv == RouteInv /\ KeyInv /\ HandledOnce

\* An accepted answer agrees with the tables.
InTables(a) ==
  /\ GrantOf(a.ask) \in bindings
  /\ IF a.ask.kind = "redeem"
       THEN paired[a.ask.device] = a.ask.public
       ELSE a.upload \in Uploads /\ transferOf[a.upload] = GrantOf(a.ask)

\* What a phone is told is in the tables, whatever was lost or ended since: a redeemed
\* key is bound to the phone under the public key it showed, and a granted upload belongs
\* to the key and the phone that asked for it, who had redeemed that key.
AcceptedIsDurable ==
  /\ \A m \in toRoom : m.answer.ok => InTables(m.answer)
  /\ \A a \in toPhone : a.ok => InTables(a)

\* Uploads without a transfer binding that no handling is about to bind.
Unbound ==
  {u \in Uploads : /\ uploadRow[u] # "none" /\ transferOf[u] = None
                   /\ \A r \in Requests : AtWork(r, "bind") => work[r].upload # u}

\* An upload that no phone can ever resume, because its transfer binding is missing, was
\* left by the end of a process or a failing insertion between the two, one for each.
UnboundOnlyByFault == IsFiniteSet(Unbound) /\ Cardinality(Unbound) <= faults

\* What the Mac has written down it does not take back or change: a registered phone keeps
\* its public key, so that no other phone can take its name (registerOrVerify); a redeemed
\* key stays bound; an upload stays with the key and the phone that created it.
NothingRewritten ==
  [][/\ bindings \subseteq bindings'
     /\ \A d \in Devices : paired[d] # None => paired'[d] = paired[d]
     /\ \A u \in Uploads : transferOf[u] # None => transferOf'[u] = transferOf[u]
     /\ \A k \in Keys : keyState[k] = "revoked" => keyState'[k] = "revoked"]_vars

\* The creations for a key that have been let in and have no binding yet.
Creating(k) == {r \in Requests : work[r].pc \in {"queued", "bind"} /\ work[r].ask.key = k}

\* A revoked key lets nothing in: no phone redeems it, no creation is queued and no upload
\* resumed for it.  What it does not stop are the creations that waited in the
\* queue when it was revoked: only they can still bind an upload to it.
RevokedOnlyDrains ==
  [][\A k \in Keys : keyState[k] = "revoked" =>
       /\ \A g \in bindings' \ bindings : g.key # k
       /\ \A r \in Requests : work[r] = Away /\ work'[r] # Away => work'[r].ask.key # k
       /\ Creating(k)' \subseteq Creating(k)
       /\ \A u \in Uploads : transferOf'[u] # transferOf[u] /\ transferOf'[u].key = k =>
            \E r \in Creating(k) : work[r].upload = u]_vars

\* A phone hears one answer to a request at most: it is on its way to the Mac, being
\* handled or answered, in one place, also when answers come back on another socket
\* than the requests went out on, and when an identifier is used again.
AnsweredOnce ==
  /\ \A m, n \in toRoom : m.answer.id = n.answer.id => m = n
  /\ \A a, b \in toPhone : a.id = b.id => a = b
  /\ \A m \in toRoom : /\ work[m.answer.id] = Away
                       /\ \A a \in asked \union toPhone : a.id # m.answer.id
                       /\ \A n \in toMac : n.request.id # m.answer.id
  /\ \A a \in toPhone : /\ work[a.id] = Away
                        /\ \A m \in asked : m.id # a.id
                        /\ \A n \in toMac : n.request.id # a.id

Connected ==
  current # NoSocket /\ macEnd[current] = "open" /\ roomEnd[current] = "open"

\* A Mac that runs is reachable again, after whatever was lost, superseded by a late
\* handshake of its former process, or restarted.
MacComesBack == up ~> Connected \/ ~up
=============================================================================
