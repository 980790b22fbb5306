------------------------- MODULE ControlPlaneProofs -------------------------
(***************************************************************************)
(* Proofs about the control plane: ControlInv, AcceptedIsDurable and       *)
(* UnboundOnlyByFault, for any sets of requests, keys, phones and uploads, *)
(* any number of sockets of the Mac and any bound on faults.               *)
(*                                                                         *)
(* Each invariant is kept by each action in a lemma of its own; the route  *)
(* and the keys are proved apart, for they share no variable.  The last    *)
(* two parts are about what no step takes back or lets in, and about the   *)
(* one answer to each request.                                             *)
(***************************************************************************)
EXTENDS ControlPlane, FiniteSetTheorems, TLAPS

-----------------------------------------------------------------------------
(* The route *)

LEMMA InitRoute == Init => RouteInv
BY FaultBound DEF Init, RouteInit, RouteInv, RouteTypeOK, OneWayForward, RoomInOrder

\* An answer is of the type that the sockets carry.
LEMMA AnswersTyped ==
  ASSUME NEW m \in [id : Requests, ask : Contents], NEW u \in Uploads \union {None}
  PROVE  Accepted(m, u) \in Answers /\ Rejected(m) \in Answers
BY DEF Accepted, Rejected, Answers

LEMMA ProcessStartsKeepsRoute ==
  ASSUME RouteInv, ProcessStarts
  PROVE  RouteInv'
<1>1. RouteTypeOK'
  BY DEF RouteInv, ProcessStarts, RouteTypeOK, phoneVars
<1>2. OneWayForward'
  BY DEF RouteInv, ProcessStarts, OneWayForward
<1>3. RoomInOrder'
  BY DEF RouteInv, ProcessStarts, RoomInOrder, phoneVars
<1> QED
  BY <1>1, <1>2, <1>3 DEF RouteInv

LEMMA ConnectKeepsRoute ==
  ASSUME RouteInv, NEW s \in MacSockets, Connect(s)
  PROVE  RouteInv'
<1>1. RouteTypeOK'
  BY DEF RouteInv, Connect, RouteTypeOK, phoneVars
<1>2. OneWayForward'
  BY NoSocketIsNone DEF RouteInv, Connect, RouteTypeOK, OneWayForward
<1>3. RoomInOrder'
  BY DEF RouteInv, Connect, RoomInOrder, phoneVars
<1> QED
  BY <1>1, <1>2, <1>3 DEF RouteInv

LEMMA MacOpensKeepsRoute ==
  ASSUME RouteInv, NEW s \in MacSockets, MacOpens(s)
  PROVE  RouteInv'
<1>1. RouteTypeOK'
  BY DEF RouteInv, MacOpens, RouteTypeOK, phoneVars
<1>2. OneWayForward'
  BY DEF RouteInv, MacOpens, OneWayForward
<1>3. RoomInOrder'
  BY DEF RouteInv, MacOpens, RoomInOrder, phoneVars
<1> QED
  BY <1>1, <1>2, <1>3 DEF RouteInv

LEMMA MacNoticesKeepsRoute ==
  ASSUME RouteInv, NEW s \in MacSockets, MacNotices(s)
  PROVE  RouteInv'
<1>1. RouteTypeOK'
  BY DEF RouteInv, MacNotices, MacCloses, RouteTypeOK, phoneVars
<1>2. OneWayForward'
  BY NoSocketIsNone DEF RouteInv, MacNotices, MacCloses, RouteTypeOK, OneWayForward
<1>3. RoomInOrder'
  BY DEF RouteInv, MacNotices, MacCloses, RoomInOrder, phoneVars
<1> QED
  BY <1>1, <1>2, <1>3 DEF RouteInv

LEMMA MacLosesKeepsRoute ==
  ASSUME RouteInv, NEW s \in MacSockets, MacLoses(s)
  PROVE  RouteInv'
<1>1. RouteTypeOK'
  BY FaultBound DEF RouteInv, MacLoses, MacCloses, Fault, RouteTypeOK, phoneVars
<1>2. OneWayForward'
  BY NoSocketIsNone DEF RouteInv, MacLoses, MacCloses, RouteTypeOK, OneWayForward
<1>3. RoomInOrder'
  BY DEF RouteInv, MacLoses, MacCloses, RoomInOrder, phoneVars
<1> QED
  BY <1>1, <1>2, <1>3 DEF RouteInv

LEMMA AcceptMacKeepsRoute ==
  ASSUME RouteInv, NEW s \in MacSockets, AcceptMac(s)
  PROVE  RouteInv'
<1>1. RouteTypeOK'
  BY DEF RouteInv, AcceptMac, RouteTypeOK, macVars, phoneVars
<1>2. OneWayForward'
  BY DEF RouteInv, AcceptMac, OneWayForward, macVars
<1>3. RoomInOrder'
  BY DEF RouteInv, AcceptMac, RoomInOrder, phoneVars
<1> QED
  BY <1>1, <1>2, <1>3 DEF RouteInv

LEMMA RoomNoticesKeepsRoute ==
  ASSUME RouteInv, NEW s \in MacSockets, RoomNotices(s)
  PROVE  RouteInv'
<1>1. RouteTypeOK'
  BY DEF RouteInv, RoomNotices, RoomDrops, RouteTypeOK, phoneVars
<1>2. OneWayForward'
  BY DEF RouteInv, RoomNotices, RoomDrops, OneWayForward
<1>3. RoomInOrder'
  BY DEF RouteInv, RoomNotices, RoomDrops, RoomInOrder, phoneVars
<1> QED
  BY <1>1, <1>2, <1>3 DEF RouteInv

LEMMA RoomLosesKeepsRoute ==
  ASSUME RouteInv, NEW s \in MacSockets, RoomLoses(s)
  PROVE  RouteInv'
<1>1. RouteTypeOK'
  BY FaultBound DEF RouteInv, RoomLoses, RoomDrops, Fault, RouteTypeOK, phoneVars
<1>2. OneWayForward'
  BY DEF RouteInv, RoomLoses, RoomDrops, OneWayForward
<1>3. RoomInOrder'
  BY DEF RouteInv, RoomLoses, RoomDrops, RoomInOrder, phoneVars
<1> QED
  BY <1>1, <1>2, <1>3 DEF RouteInv

LEMMA RefuseRequestKeepsRoute ==
  ASSUME RouteInv, NEW m \in asked, RefuseRequest(m)
  PROVE  RouteInv'
<1>0.  Rejected(m) \in Answers /\ m \in Messages
  BY AnswersTyped, MessagesType DEF RouteInv, RouteTypeOK
<1>1. RouteTypeOK'
  BY <1>0 DEF RouteInv, RefuseRequest, RouteTypeOK, macVars
<1>2. OneWayForward'
  BY DEF RouteInv, RefuseRequest, OneWayForward, macVars
<1>3. RoomInOrder'
  BY DEF RouteInv, RefuseRequest, Rejected, RoomInOrder
<1> QED
  BY <1>1, <1>2, <1>3 DEF RouteInv

LEMMA ForwardRequestKeepsRoute ==
  ASSUME RouteInv, NEW m \in asked, NEW s \in MacSockets, ForwardRequest(m, s)
  PROVE  RouteInv'
<1>1. RouteTypeOK'
  BY MessagesType DEF RouteInv, ForwardRequest, RouteTypeOK
<1>2. OneWayForward'
  BY DEF RouteInv, ForwardRequest, OneWayForward
<1>3. RoomInOrder'
  BY DEF RouteInv, ForwardRequest, RoomInOrder
<1> QED
  BY <1>1, <1>2, <1>3 DEF RouteInv

LEMMA ForwardAnswerKeepsRoute ==
  ASSUME RouteInv, NEW n \in toRoom, ForwardAnswer(n)
  PROVE  RouteInv'
<1>1. RouteTypeOK'
  BY DEF RouteInv, ForwardAnswer, RouteTypeOK
<1>2. OneWayForward'
  BY DEF RouteInv, ForwardAnswer, OneWayForward
<1>3. RoomInOrder'
  BY DEF RouteInv, ForwardAnswer, RoomInOrder
<1> QED
  BY <1>1, <1>2, <1>3 DEF RouteInv

LEMMA RoomLosesPhoneKeepsRoute ==
  ASSUME RouteInv, NEW r \in Requests, RoomLosesPhone(r)
  PROVE  RouteInv'
<1>1. RouteTypeOK'
  BY FaultBound DEF RouteInv, RoomLosesPhone, Fault, RouteTypeOK, macVars
<1>2. OneWayForward'
  BY DEF RouteInv, RoomLosesPhone, OneWayForward, macVars
<1>3. RoomInOrder'
  BY DEF RouteInv, RoomLosesPhone, RoomInOrder
<1> QED
  BY <1>1, <1>2, <1>3 DEF RouteInv

LEMMA HibernateKeepsRoute ==
  ASSUME RouteInv, Hibernate
  PROVE  RouteInv'
<1>1. RouteTypeOK'
  BY DEF RouteInv, Hibernate, RouteTypeOK, macVars, phoneVars
<1>2. OneWayForward'
  BY DEF RouteInv, Hibernate, OneWayForward, macVars
<1>3. RoomInOrder'
  BY DEF RouteInv, Hibernate, RoomInOrder, phoneVars
<1> QED
  BY <1>1, <1>2, <1>3 DEF RouteInv

LEMMA BeginKeepsRoute ==
  ASSUME RouteInv, NEW m \in Messages, Begin(m)
  PROVE  RouteInv'
<1>1. RouteTypeOK'
  BY DEF RouteInv, Begin, Ask, RouteTypeOK, macVars
<1>2. OneWayForward'
  BY DEF RouteInv, Begin, Ask, OneWayForward, macVars
<1>3. RoomInOrder'
  BY MessagesType DEF RouteInv, Begin, Ask, RouteTypeOK, RoomInOrder
<1> QED
  BY <1>1, <1>2, <1>3 DEF RouteInv

LEMMA ReceiveAnswerKeepsRoute ==
  ASSUME RouteInv, NEW a \in toPhone, ReceiveAnswer(a)
  PROVE  RouteInv'
<1>1. RouteTypeOK'
  BY DEF RouteInv, ReceiveAnswer, RouteTypeOK, macVars
<1>2. OneWayForward'
  BY DEF RouteInv, ReceiveAnswer, OneWayForward, macVars
<1>3. RoomInOrder'
  BY DEF RouteInv, ReceiveAnswer, RoomInOrder
<1> QED
  BY <1>1, <1>2, <1>3 DEF RouteInv

LEMMA RequestFailsKeepsRoute ==
  ASSUME RouteInv, NEW r \in Requests, RequestFails(r)
  PROVE  RouteInv'
<1>1. RouteTypeOK'
  BY DEF RouteInv, RequestFails, RouteTypeOK, macVars
<1>2. OneWayForward'
  BY DEF RouteInv, RequestFails, OneWayForward, macVars
<1>3. RoomInOrder'
  BY DEF RouteInv, RequestFails, RoomInOrder
<1> QED
  BY <1>1, <1>2, <1>3 DEF RouteInv

\* What the Mac does with a request leaves the route alone but for the request, if it is
\* done with it, and for an answer.
LEMMA AnswerKeepsRoute ==
  ASSUME RouteInv, NEW a \in Answers, toMac' \subseteq toMac,
         UNCHANGED toRoom \/ Answer(a),
         UNCHANGED <<up, timer, current, macEnd, roomEnd, pending, phoneVars>>,
         UNCHANGED faults \/ Fault
  PROVE  RouteInv'
<1>1. RouteTypeOK'
  BY FaultBound DEF RouteInv, Answer, Sent, Fault, RouteTypeOK, phoneVars
<1>2. OneWayForward'
  BY DEF RouteInv, OneWayForward
<1>3. RoomInOrder'
  BY DEF RouteInv, RoomInOrder, phoneVars
<1> QED
  BY <1>1, <1>2, <1>3 DEF RouteInv

LEMMA ProcessEndsKeepsRoute == ASSUME RouteInv, ProcessEnds PROVE RouteInv'
<1>1. RouteTypeOK'
  <2>1. up' \in BOOLEAN /\ timer' \in BOOLEAN
    BY DEF ProcessEnds
  <2>2. faults' \in 0..MaxFaults
    BY FaultBound DEF RouteInv, RouteTypeOK, ProcessEnds, Fault
  <2> QED
    BY <2>1, <2>2 DEF RouteInv, RouteTypeOK, ProcessEnds, phoneVars
<1>2. OneWayForward'
  BY DEF ProcessEnds, OneWayForward
<1>3. RoomInOrder'
  BY DEF RouteInv, ProcessEnds, RoomInOrder, phoneVars
<1> QED
  BY <1>1, <1>2, <1>3 DEF RouteInv

-----------------------------------------------------------------------------
(* The keys *)

\* No binding, registered public key or transfer binding is ever changed once it is there.
TablesOnlyGrow ==
  /\ bindings \subseteq bindings'
  /\ \A d \in Devices : paired[d] # None => paired'[d] = paired[d]
  /\ \A u \in Uploads : transferOf[u] # None => transferOf'[u] = transferOf[u]

LEMMA InitKeys == Init => KeyInv /\ Unbound = {}
BY DEF Init, KeyInit, KeyInv, KeyTypeOK, QueueInOrder, WorkIsGranted, AtWork, Away, Unbound

LEMMA KeysUnchanged ==
  ASSUME KeyInv, UNCHANGED keyVars
  PROVE  KeyInv' /\ TablesOnlyGrow /\ Unbound' \subseteq Unbound
BY DEF keyVars, tables, KeyInv, KeyTypeOK, QueueInOrder, WorkIsGranted, AtWork, Running,
   TablesOnlyGrow, Unbound

LEMMA AppendedQueue ==
  ASSUME NEW q \in Seq(Requests), NEW r \in Requests
  PROVE  /\ Append(q, r) \in Seq(Requests) /\ Append(q, r) # <<>>
         /\ DOMAIN Append(q, r) = 1..(Len(q) + 1)
         /\ DOMAIN q = 1..Len(q) /\ Len(q) \in Nat
         /\ \A i \in DOMAIN q : Append(q, r)[i] = q[i]
         /\ Append(q, r)[Len(q) + 1] = r
         /\ Head(Append(q, r)) = Append(q, r)[1]
         /\ q # <<>> => Head(q) = q[1] /\ 1 \in DOMAIN q
OBVIOUS

LEMMA LeftQueue ==
  ASSUME NEW q \in Seq(Requests), q # <<>>
  PROVE  /\ Tail(q) \in Seq(Requests)
         /\ DOMAIN q = 1..Len(q) /\ Len(q) \in Nat /\ 1 \in DOMAIN q /\ Head(q) = q[1]
         /\ DOMAIN Tail(q) = 1..(Len(q) - 1)
         /\ \A i \in DOMAIN Tail(q) : i + 1 \in DOMAIN q /\ Tail(q)[i] = q[i + 1]
         /\ \A i \in DOMAIN q : i = 1 \/ (i - 1 \in DOMAIN Tail(q) /\ Tail(q)[i - 1] = q[i])
OBVIOUS

\* One creation at a time binds its upload.
LEMMA OneBinds ==
  ASSUME KeyInv, NEW q \in Requests, NEW r \in Requests, Running(r), AtWork(q, "bind")
  PROVE  q = r
BY DEF KeyInv, QueueInOrder, Running

\* The queue goes on in order when its first creation leaves it.
LEMMA QueueGoesOn ==
  ASSUME KeyInv, NEW r \in Requests, Running(r), Leave,
         work[r].pc \in {"queued", "bind"},
         work'[r] = Away \/ work'[r].pc = "session",
         \A q \in Requests \ {r} : work'[q] = work[q]
  PROVE  QueueInOrder'
<1>1. creations \in Seq(Requests) /\ creations # <<>> /\ Head(creations) = r
  BY DEF KeyInv, KeyTypeOK, Running
<1>2. \A i \in DOMAIN creations' : i + 1 \in DOMAIN creations /\ creations'[i] = creations[i + 1]
  BY <1>1 DEF Leave
<1>3. \A i \in DOMAIN creations' : creations'[i] \in Requests \ {r}
  BY <1>1, <1>2 DEF KeyInv, QueueInOrder, Leave
<1>4. \A q \in Requests \ {r} : ~AtWork(q, "bind")
  BY OneBinds
<1>5. \A i, j \in DOMAIN creations' : creations'[i] = creations'[j] => i = j
  BY <1>1, <1>2 DEF KeyInv, QueueInOrder, Leave
<1>6. \A i \in DOMAIN creations' : AtWork(creations[i + 1], "queued")
  BY <1>2, <1>3, <1>4 DEF KeyInv, QueueInOrder
<1>7. \A i \in DOMAIN creations' : work'[creations'[i]].pc = "queued"
  BY <1>2, <1>3, <1>6 DEF AtWork
<1>8. ASSUME NEW q \in Requests
      PROVE  /\ AtWork(q, "none")' => work'[q] = Away
             /\ ~AtWork(q, "bind")'
  BY <1>4 DEF KeyInv, QueueInOrder, AtWork, Away
<1>9. ASSUME NEW q \in Requests, AtWork(q, "queued")'
      PROVE  \E i \in DOMAIN creations' : creations'[i] = q
  <2>1. q # r /\ AtWork(q, "queued")
    BY <1>9 DEF AtWork, Away
  <2>2. PICK i \in DOMAIN creations : creations[i] = q
    BY <2>1 DEF KeyInv, QueueInOrder
  <2> QED
    BY <1>1, <2>1, <2>2, LeftQueue DEF Leave
<1> QED
  BY <1>5, <1>7, <1>8, <1>9 DEF QueueInOrder, AtWork

LEMMA CreateKeyKeepsKeys ==
  ASSUME KeyInv, NEW k \in Keys, CreateKey(k)
  PROVE  KeyInv' /\ TablesOnlyGrow /\ Unbound' \subseteq Unbound
<1>1. KeyTypeOK'
  BY DEF CreateKey, KeyInv, KeyTypeOK
<1>2. QueueInOrder'
  BY DEF CreateKey, KeyInv, QueueInOrder, AtWork, Running
<1>3. WorkIsGranted'
  BY DEF CreateKey, KeyInv, WorkIsGranted, AtWork
<1>4. TablesOnlyGrow
  BY DEF CreateKey, TablesOnlyGrow
<1>5. Unbound' \subseteq Unbound
  BY DEF CreateKey, AtWork, Unbound
<1> QED
  BY <1>1, <1>2, <1>3, <1>4, <1>5 DEF KeyInv

LEMMA RevokeKeyKeepsKeys ==
  ASSUME KeyInv, NEW k \in Keys, RevokeKey(k)
  PROVE  KeyInv' /\ TablesOnlyGrow /\ Unbound' \subseteq Unbound
<1>1. KeyTypeOK'
  BY DEF RevokeKey, KeyInv, KeyTypeOK
<1>2. QueueInOrder'
  BY DEF RevokeKey, KeyInv, QueueInOrder, AtWork, Running
<1>3. WorkIsGranted'
  BY DEF RevokeKey, KeyInv, WorkIsGranted, AtWork
<1>4. TablesOnlyGrow
  BY DEF RevokeKey, TablesOnlyGrow
<1>5. Unbound' \subseteq Unbound
  BY DEF RevokeKey, AtWork, Unbound
<1> QED
  BY <1>1, <1>2, <1>3, <1>4, <1>5 DEF KeyInv

LEMMA UploadEndsKeepsKeys ==
  ASSUME KeyInv, NEW u \in Uploads, UploadEnds(u)
  PROVE  KeyInv' /\ TablesOnlyGrow /\ Unbound' \subseteq Unbound
<1>1. KeyTypeOK'
  BY DEF UploadEnds, KeyInv, KeyTypeOK
<1>2. QueueInOrder'
  BY DEF UploadEnds, KeyInv, QueueInOrder, AtWork, Running
<1>3. WorkIsGranted'
  BY DEF UploadEnds, KeyInv, WorkIsGranted, AtWork
<1>4. TablesOnlyGrow
  BY DEF UploadEnds, TablesOnlyGrow
<1>5. Unbound' \subseteq Unbound
  BY DEF UploadEnds, AtWork, Unbound
<1> QED
  BY <1>1, <1>2, <1>3, <1>4, <1>5 DEF KeyInv

LEMMA AcceptRedeemKeepsKeys ==
  ASSUME KeyInv, NEW ask \in Contents, AcceptRedeem(ask)
  PROVE  KeyInv' /\ TablesOnlyGrow /\ Unbound' \subseteq Unbound
<1>1. KeyTypeOK'
  BY DEF AcceptRedeem, Registered, KeyInv, KeyTypeOK, Grants, GrantOf, Contents
<1>2. QueueInOrder'
  BY DEF AcceptRedeem, KeyInv, QueueInOrder, AtWork, Running
<1>3. WorkIsGranted'
  BY DEF AcceptRedeem, KeyInv, WorkIsGranted, AtWork
<1>4. TablesOnlyGrow
  BY DEF AcceptRedeem, Redeemable, Registered, TablesOnlyGrow
<1>5. Unbound' \subseteq Unbound
  BY DEF AcceptRedeem, AtWork, Unbound
<1> QED
  BY <1>1, <1>2, <1>3, <1>4, <1>5 DEF KeyInv

LEMMA QueueCreationKeepsKeys ==
  ASSUME KeyInv, NEW r \in Requests, NEW ask \in Contents, work[r] = Away, QueueCreation(r, ask)
  PROVE  KeyInv' /\ TablesOnlyGrow /\ Unbound' \subseteq Unbound
<1>1. KeyTypeOK'
  BY DEF QueueCreation, KeyInv, KeyTypeOK, tables
<1>2. QueueInOrder'
  <2>1. creations \in Seq(Requests) /\ ~AtWork(r, "queued") /\ ~AtWork(r, "bind")
    BY DEF KeyInv, KeyTypeOK, AtWork, Away
  <2>2. /\ creations' = Append(creations, r) /\ AtWork(r, "queued")' /\ ~AtWork(r, "bind")'
        /\ ~AtWork(r, "none")'
        /\ \A q \in Requests \ {r} : work'[q] = work[q]
    BY DEF QueueCreation, KeyInv, KeyTypeOK, AtWork
  <2>3. \A i \in DOMAIN creations : creations[i] \in Requests \ {r}
    BY <2>1 DEF KeyInv, QueueInOrder
  <2>4. \A i, j \in DOMAIN creations' : creations'[i] = creations'[j] => i = j
    BY <2>1, <2>2, <2>3 DEF KeyInv, QueueInOrder
  <2>5. \A i \in DOMAIN creations' : work'[creations'[i]].pc \in {"queued", "bind"}
    BY <2>1, <2>2, <2>3 DEF KeyInv, QueueInOrder, AtWork
  <2>6. ASSUME NEW q \in Requests
        PROVE  /\ AtWork(q, "none")' => work'[q] = Away
               /\ AtWork(q, "bind")' => Running(q)'
    BY <2>1, <2>2 DEF KeyInv, QueueInOrder, AtWork, Running
  <2>7. ASSUME NEW q \in Requests, AtWork(q, "queued")'
        PROVE  \E i \in DOMAIN creations' : creations'[i] = q
    <3>1. CASE q = r
      BY <2>1, <2>2, <3>1, AppendedQueue
    <3>2. CASE q # r
      <4>1. PICK i \in DOMAIN creations : creations[i] = q
        BY <2>2, <2>7, <3>2 DEF KeyInv, QueueInOrder, AtWork
      <4> QED
        BY <2>1, <2>2, <4>1, AppendedQueue
    <3> QED
      BY <3>1, <3>2
  <2> QED
    BY <2>4, <2>5, <2>6, <2>7 DEF QueueInOrder, AtWork
<1>3. WorkIsGranted'
  BY DEF QueueCreation, Resolves, KeyInv, WorkIsGranted, AtWork, tables
<1>4. TablesOnlyGrow
  BY DEF QueueCreation, tables, TablesOnlyGrow
<1>5. Unbound' \subseteq Unbound
  BY DEF QueueCreation, Resolves, AtWork, Away, tables, Unbound
<1> QED
  BY <1>1, <1>2, <1>3, <1>4, <1>5 DEF KeyInv

LEMMA BeginResumeKeepsKeys ==
  ASSUME KeyInv, NEW r \in Requests, NEW ask \in Contents, work[r] = Away, NEW u \in Uploads,
         BeginResume(r, ask, u)
  PROVE  KeyInv' /\ TablesOnlyGrow /\ Unbound' \subseteq Unbound
<1>1. KeyTypeOK'
  BY DEF BeginResume, KeyInv, KeyTypeOK, tables
<1>2. QueueInOrder'
  BY DEF BeginResume, KeyInv, QueueInOrder, AtWork, Running, Away
<1>3. WorkIsGranted'
  BY DEF BeginResume, Resolves, KeyInv, WorkIsGranted, AtWork, tables
<1>4. TablesOnlyGrow
  BY DEF BeginResume, tables, TablesOnlyGrow
<1>5. Unbound' \subseteq Unbound
  BY NoGrantIsNone DEF BeginResume, AtWork, Away, tables, Unbound
<1> QED
  BY <1>1, <1>2, <1>3, <1>4, <1>5 DEF KeyInv

LEMMA CreateRowKeepsKeys ==
  ASSUME KeyInv, NEW r \in Requests, NEW u \in Uploads, CreateRow(r, u)
  PROVE  KeyInv' /\ TablesOnlyGrow /\ Unbound' \subseteq Unbound
<1>1. KeyTypeOK'
  BY DEF CreateRow, Goto, KeyInv, KeyTypeOK
<1>2. QueueInOrder'
  BY DEF CreateRow, Goto, KeyInv, QueueInOrder, AtWork, Running
<1>3. WorkIsGranted'
  BY DEF CreateRow, Goto, KeyInv, KeyTypeOK, WorkIsGranted, AtWork
<1>4. TablesOnlyGrow
  BY DEF CreateRow, TablesOnlyGrow
<1>5. Unbound' \subseteq Unbound
  BY DEF CreateRow, Goto, KeyInv, KeyTypeOK, AtWork, Unbound
<1> QED
  BY <1>1, <1>2, <1>3, <1>4, <1>5 DEF KeyInv

LEMMA RefuseCreationKeepsKeys ==
  ASSUME KeyInv, NEW r \in Requests, RefuseCreation(r)
  PROVE  KeyInv' /\ TablesOnlyGrow /\ Unbound' \subseteq Unbound
<1>1. KeyTypeOK'
  BY DEF RefuseCreation, Finish, Leave, KeyInv, KeyTypeOK, Running, Away, tables
<1>2. QueueInOrder'
  BY QueueGoesOn DEF RefuseCreation, Finish, AtWork, KeyInv, KeyTypeOK
<1>3. WorkIsGranted'
  BY DEF RefuseCreation, Finish, KeyInv, WorkIsGranted, AtWork, Away, tables
<1>4. TablesOnlyGrow
  BY DEF RefuseCreation, tables, TablesOnlyGrow
<1>5. Unbound' \subseteq Unbound
  BY DEF RefuseCreation, KeyInv, QueueInOrder, AtWork, Running, tables, Unbound
<1> QED
  BY <1>1, <1>2, <1>3, <1>4, <1>5 DEF KeyInv

LEMMA BindUploadKeepsKeys ==
  ASSUME KeyInv, NEW r \in Requests, BindUpload(r)
  PROVE  KeyInv' /\ TablesOnlyGrow /\ Unbound' \subseteq Unbound
<1>0. Running(r) /\ \A q \in Requests : AtWork(q, "bind") => q = r
  BY OneBinds DEF BindUpload, KeyInv, QueueInOrder
<1>1. KeyTypeOK'
  BY DEF BindUpload, Goto, Leave, KeyInv, KeyTypeOK, QueueInOrder, WorkIsGranted, AtWork,
     Running
<1>2. QueueInOrder'
  BY <1>0, QueueGoesOn DEF BindUpload, Goto, AtWork, KeyInv, KeyTypeOK
<1>3. WorkIsGranted'
  BY <1>0, NoGrantIsNone DEF BindUpload, Goto, AtWork, KeyInv, KeyTypeOK, WorkIsGranted
<1>4. TablesOnlyGrow
  BY DEF BindUpload, KeyInv, WorkIsGranted, AtWork, TablesOnlyGrow
<1>5. Unbound' \subseteq Unbound
  BY <1>0, NoGrantIsNone DEF BindUpload, AtWork, KeyInv, KeyTypeOK, WorkIsGranted, Unbound
<1> QED
  BY <1>1, <1>2, <1>3, <1>4, <1>5 DEF KeyInv

LEMMA SessionOpensKeepsKeys ==
  ASSUME KeyInv, NEW r \in Requests, SessionOpens(r)
  PROVE  KeyInv' /\ TablesOnlyGrow /\ Unbound' \subseteq Unbound
<1>1. KeyTypeOK'
  BY DEF SessionOpens, Finish, KeyInv, KeyTypeOK, Away, tables
<1>2. QueueInOrder'
  BY DEF SessionOpens, Finish, KeyInv, QueueInOrder, AtWork, Running, Away
<1>3. WorkIsGranted'
  BY DEF SessionOpens, Finish, KeyInv, WorkIsGranted, AtWork, Away, tables
<1>4. TablesOnlyGrow
  BY DEF SessionOpens, tables, TablesOnlyGrow
<1>5. Unbound' \subseteq Unbound
  BY DEF SessionOpens, Finish, AtWork, tables, Unbound
<1> QED
  BY <1>1, <1>2, <1>3, <1>4, <1>5 DEF KeyInv

LEMMA ResumeFailsKeepsKeys ==
  ASSUME KeyInv, NEW r \in Requests, ResumeFails(r)
  PROVE  KeyInv' /\ TablesOnlyGrow /\ Unbound' \subseteq Unbound
<1>1. KeyTypeOK'
  BY DEF ResumeFails, Finish, KeyInv, KeyTypeOK, Away, tables
<1>2. QueueInOrder'
  BY DEF ResumeFails, Finish, KeyInv, QueueInOrder, AtWork, Running, Away
<1>3. WorkIsGranted'
  BY DEF ResumeFails, Finish, KeyInv, WorkIsGranted, AtWork, Away, tables
<1>4. TablesOnlyGrow
  BY DEF ResumeFails, tables, TablesOnlyGrow
<1>5. Unbound' \subseteq Unbound
  BY DEF ResumeFails, Finish, AtWork, tables, Unbound
<1> QED
  BY <1>1, <1>2, <1>3, <1>4, <1>5 DEF KeyInv

LEMMA SessionFailsKeepsKeys ==
  ASSUME KeyInv, NEW r \in Requests, SessionFails(r)
  PROVE  KeyInv' /\ TablesOnlyGrow /\ Unbound' \subseteq Unbound
<1>1. KeyTypeOK'
  BY DEF SessionFails, Goto, KeyInv, KeyTypeOK, tables
<1>2. QueueInOrder'
  BY DEF SessionFails, Goto, KeyInv, QueueInOrder, AtWork, Running
<1>3. WorkIsGranted'
  BY DEF SessionFails, Goto, KeyInv, WorkIsGranted, AtWork, tables
<1>4. TablesOnlyGrow
  BY DEF SessionFails, tables, TablesOnlyGrow
<1>5. Unbound' \subseteq Unbound
  BY NoneIsNothing, NoGrantIsNone DEF SessionFails, Goto, AtWork, tables, Unbound
<1> QED
  BY <1>1, <1>2, <1>3, <1>4, <1>5 DEF KeyInv

LEMMA CancelUploadKeepsKeys ==
  ASSUME KeyInv, NEW r \in Requests, CancelUpload(r)
  PROVE  KeyInv' /\ TablesOnlyGrow /\ Unbound' \subseteq Unbound
<1>1. KeyTypeOK'
  BY DEF CancelUpload, Finish, KeyInv, KeyTypeOK, Away
<1>2. QueueInOrder'
  BY DEF CancelUpload, Finish, KeyInv, QueueInOrder, AtWork, Running, Away
<1>3. WorkIsGranted'
  BY DEF CancelUpload, Finish, KeyInv, KeyTypeOK, WorkIsGranted, AtWork, Away
<1>4. TablesOnlyGrow
  BY DEF CancelUpload, TablesOnlyGrow
<1>5. Unbound' \subseteq Unbound
  <2>1. work[r].upload \in Uploads /\ transferOf[work[r].upload] # None
    BY NoneIsNothing, NoGrantIsNone DEF CancelUpload, KeyInv, KeyTypeOK, WorkIsGranted,
       AtWork
  <2>2. \A q \in Requests : AtWork(q, "bind") => AtWork(q, "bind")' /\ work'[q] = work[q]
    BY DEF CancelUpload, Finish, AtWork
  <2>3. \A u \in Uploads : u # work[r].upload => uploadRow'[u] = uploadRow[u]
    BY DEF CancelUpload, KeyInv, KeyTypeOK
  <2>4. UNCHANGED transferOf
    BY DEF CancelUpload
  <2> QED
    BY <2>1, <2>2, <2>3, <2>4 DEF Unbound
<1> QED
  BY <1>1, <1>2, <1>3, <1>4, <1>5 DEF KeyInv

\* The failing insertion leaves at most its own upload without a binding.
LEMMA BindThrowsKeepsKeys ==
  ASSUME KeyInv, NEW r \in Requests, BindThrows(r)
  PROVE  KeyInv' /\ TablesOnlyGrow /\ Unbound' \subseteq Unbound \union {work[r].upload}
<1>0. Running(r) /\ \A q \in Requests : AtWork(q, "bind") => q = r
  BY OneBinds DEF BindThrows, KeyInv, QueueInOrder
<1>1. KeyTypeOK'
  BY <1>0 DEF BindThrows, Finish, Leave, Away, Running, tables, KeyInv, KeyTypeOK
<1>2. QueueInOrder'
  BY <1>0, QueueGoesOn DEF BindThrows, Finish, AtWork, KeyInv, KeyTypeOK
<1>3. WorkIsGranted'
  BY DEF BindThrows, Finish, Away, AtWork, tables, KeyInv, WorkIsGranted
<1>4. TablesOnlyGrow
  BY DEF BindThrows, tables, TablesOnlyGrow
<1>5. Unbound' \subseteq Unbound \union {work[r].upload}
  BY <1>0 DEF BindThrows, tables, Unbound
<1> QED
  BY <1>1, <1>2, <1>3, <1>4, <1>5 DEF KeyInv

\* The end of the process leaves at most the upload that the head of the queue binds.
LEMMA ForgetKeepsKeys ==
  ASSUME KeyInv, Forget, UNCHANGED <<keyState, bindings, uploadRow, transferOf>>,
         paired' \in [Devices -> PublicKeys \union {None}],
         \A d \in Devices : paired[d] # None => paired'[d] = paired[d]
  PROVE  KeyInv' /\ TablesOnlyGrow
         /\ Unbound' \subseteq Unbound \union {work[Head(creations)].upload}
<1>1. KeyTypeOK'
  BY DEF Forget, Away, KeyInv, KeyTypeOK
<1>2. \A r \in Requests : work'[r] = Away /\ AtWork(r, "none")'
  BY DEF Forget, AtWork, Away
<1>3. QueueInOrder'
  BY <1>2 DEF Forget, QueueInOrder, AtWork
<1>4. WorkIsGranted'
  BY <1>2 DEF KeyInv, WorkIsGranted
<1>5. TablesOnlyGrow
  BY DEF TablesOnlyGrow
<1>6. Unbound' \subseteq Unbound \union {work[Head(creations)].upload}
  <2>1. \A q \in Requests : AtWork(q, "bind") => q = Head(creations)
    BY DEF KeyInv, QueueInOrder, Running
  <2> QED
    BY <2>1 DEF Unbound
<1> QED
  BY <1>1, <1>3, <1>4, <1>5, <1>6 DEF KeyInv

-----------------------------------------------------------------------------
(* Answers and tables *)

\* What an answer promised stays in the tables.
LEMMA InTablesStays ==
  ASSUME NEW a \in Answers, InTables(a), TablesOnlyGrow
  PROVE  InTables(a)'
BY NoneIsNothing, NoGrantIsNone DEF Answers, Contents, GrantOf, Grants, InTables,
   TablesOnlyGrow

LEMMA DurableStays ==
  ASSUME RouteInv, AcceptedIsDurable, TablesOnlyGrow,
         \A m \in toRoom' : m \in toRoom \/ (m.answer.ok => InTables(m.answer)'),
         \A b \in toPhone' : b \in toPhone \/ ~b.ok \/ \E f \in toRoom : f.answer = b
  PROVE  AcceptedIsDurable'
<1>1. \A m \in toRoom : m.answer \in Answers
  BY DEF RouteInv, RouteTypeOK
<1>2. \A a \in toPhone : a \in Answers
  BY DEF RouteInv, RouteTypeOK
<1>3. ASSUME NEW m \in toRoom, m.answer.ok PROVE InTables(m.answer)'
  BY <1>1, <1>3, InTablesStays DEF AcceptedIsDurable
<1>4. ASSUME NEW a \in toPhone, a.ok PROVE InTables(a)'
  BY <1>2, <1>4, InTablesStays DEF AcceptedIsDurable
<1> QED
  BY <1>3, <1>4 DEF AcceptedIsDurable

-----------------------------------------------------------------------------
(* Counting the unbound uploads *)

LEMMA BoundStays ==
  ASSUME UnboundOnlyByFault, RouteInv, RouteInv', Unbound' \subseteq Unbound, faults <= faults'
  PROVE  UnboundOnlyByFault'
<1>1. IsFiniteSet(Unbound') /\ Cardinality(Unbound') <= Cardinality(Unbound)
  BY FS_Subset DEF UnboundOnlyByFault
<1>2. Cardinality(Unbound) \in Nat /\ Cardinality(Unbound') \in Nat
  BY <1>1, FS_CardinalityType DEF UnboundOnlyByFault
<1> QED
  BY <1>1, <1>2 DEF UnboundOnlyByFault, RouteInv, RouteTypeOK

LEMMA BoundGrows ==
  ASSUME UnboundOnlyByFault, RouteInv, NEW x, Unbound' \subseteq Unbound \union {x}, Fault
  PROVE  UnboundOnlyByFault'
<1> DEFINE More == Unbound \union {x}
<1>1. IsFiniteSet(More) /\ Cardinality(Unbound) \in Nat
      /\ Cardinality(More) \in {Cardinality(Unbound), Cardinality(Unbound) + 1}
  BY FS_AddElement, FS_CardinalityType DEF UnboundOnlyByFault
<1>2. IsFiniteSet(Unbound') /\ Cardinality(Unbound') <= Cardinality(More)
  BY <1>1, FS_Subset
<1>3. Cardinality(Unbound') \in Nat
  BY <1>2, FS_CardinalityType
<1> QED
  BY <1>1, <1>2, <1>3 DEF UnboundOnlyByFault, RouteInv, RouteTypeOK, Fault

-----------------------------------------------------------------------------
(* Steps of the route alone *)

\* What such a step keeps; the answers on their way are old ones, or rejections.
RouteKeeps ==
  /\ RouteInv' /\ HandledOnce' /\ faults <= faults'
  /\ toRoom' \subseteq toRoom
  /\ \A b \in toPhone' : b \in toPhone \/ ~b.ok \/ \E f \in toRoom : f.answer = b

LEMMA MacRouteKeeps ==
  ASSUME ControlInv, MacRoute, UNCHANGED keyVars
  PROVE  RouteKeeps
<1> USE DEF ControlInv
<1>1. ASSUME ProcessStarts PROVE RouteKeeps
  <2>1. RouteInv'
    BY <1>1, ProcessStartsKeepsRoute
  <2>2. HandledOnce'
    BY <1>1 DEF ProcessStarts, HandledOnce, phoneVars, keyVars
  <2>3. faults <= faults'
    BY <1>1 DEF ProcessStarts, RouteInv, RouteTypeOK
  <2>4. /\ toRoom' \subseteq toRoom
        /\ \A b \in toPhone' : b \in toPhone \/ ~b.ok \/ \E f \in toRoom : f.answer = b
    BY <1>1 DEF ProcessStarts, phoneVars
  <2> QED
    BY <2>1, <2>2, <2>3, <2>4 DEF RouteKeeps
<1>2. ASSUME NEW s \in MacSockets, Connect(s) PROVE RouteKeeps
  <2>1. RouteInv'
    BY <1>2, ConnectKeepsRoute
  <2>2. HandledOnce'
    BY <1>2 DEF Connect, HandledOnce, phoneVars, keyVars
  <2>3. faults <= faults'
    BY <1>2 DEF Connect, RouteInv, RouteTypeOK
  <2>4. /\ toRoom' \subseteq toRoom
        /\ \A b \in toPhone' : b \in toPhone \/ ~b.ok \/ \E f \in toRoom : f.answer = b
    BY <1>2 DEF Connect, phoneVars
  <2> QED
    BY <2>1, <2>2, <2>3, <2>4 DEF RouteKeeps
<1>3. ASSUME NEW s \in MacSockets, MacOpens(s) PROVE RouteKeeps
  <2>1. RouteInv'
    BY <1>3, MacOpensKeepsRoute
  <2>2. HandledOnce'
    BY <1>3 DEF MacOpens, HandledOnce, phoneVars, keyVars
  <2>3. faults <= faults'
    BY <1>3 DEF MacOpens, RouteInv, RouteTypeOK
  <2>4. /\ toRoom' \subseteq toRoom
        /\ \A b \in toPhone' : b \in toPhone \/ ~b.ok \/ \E f \in toRoom : f.answer = b
    BY <1>3 DEF MacOpens, phoneVars
  <2> QED
    BY <2>1, <2>2, <2>3, <2>4 DEF RouteKeeps
<1>4. ASSUME NEW s \in MacSockets, MacNotices(s) PROVE RouteKeeps
  <2>1. RouteInv'
    BY <1>4, MacNoticesKeepsRoute
  <2>2. HandledOnce'
    BY <1>4 DEF MacNotices, MacCloses, HandledOnce, phoneVars, keyVars
  <2>3. faults <= faults'
    BY <1>4 DEF MacNotices, RouteInv, RouteTypeOK
  <2>4. /\ toRoom' \subseteq toRoom
        /\ \A b \in toPhone' : b \in toPhone \/ ~b.ok \/ \E f \in toRoom : f.answer = b
    BY <1>4 DEF MacNotices, MacCloses, phoneVars
  <2> QED
    BY <2>1, <2>2, <2>3, <2>4 DEF RouteKeeps
<1>5. ASSUME NEW s \in MacSockets, MacLoses(s) PROVE RouteKeeps
  <2>1. RouteInv'
    BY <1>5, MacLosesKeepsRoute
  <2>2. HandledOnce'
    BY <1>5 DEF MacLoses, MacCloses, HandledOnce, phoneVars, keyVars
  <2>3. faults <= faults'
    BY <1>5 DEF MacLoses, Fault, RouteInv, RouteTypeOK
  <2>4. /\ toRoom' \subseteq toRoom
        /\ \A b \in toPhone' : b \in toPhone \/ ~b.ok \/ \E f \in toRoom : f.answer = b
    BY <1>5 DEF MacLoses, MacCloses, phoneVars
  <2> QED
    BY <2>1, <2>2, <2>3, <2>4 DEF RouteKeeps
<1> QED
  BY <1>1, <1>2, <1>3, <1>4, <1>5 DEF MacRoute

LEMMA RoomKeeps ==
  ASSUME ControlInv, Room, UNCHANGED keyVars
  PROVE  RouteKeeps
<1> USE DEF ControlInv
<1>1. ASSUME NEW s \in MacSockets, AcceptMac(s) PROVE RouteKeeps
  <2>1. RouteInv'
    BY <1>1, AcceptMacKeepsRoute
  <2>2. HandledOnce'
    BY <1>1 DEF AcceptMac, HandledOnce, macVars, phoneVars, keyVars
  <2>3. faults <= faults'
    BY <1>1 DEF AcceptMac, RouteInv, RouteTypeOK
  <2>4. /\ toRoom' \subseteq toRoom
        /\ \A b \in toPhone' : b \in toPhone \/ ~b.ok \/ \E f \in toRoom : f.answer = b
    BY <1>1 DEF AcceptMac, macVars, phoneVars
  <2> QED
    BY <2>1, <2>2, <2>3, <2>4 DEF RouteKeeps
<1>2. ASSUME NEW s \in MacSockets, RoomNotices(s) PROVE RouteKeeps
  <2>1. RouteInv'
    BY <1>2, RoomNoticesKeepsRoute
  <2>2. HandledOnce'
    BY <1>2 DEF RoomNotices, RoomDrops, HandledOnce, phoneVars, keyVars
  <2>3. faults <= faults'
    BY <1>2 DEF RoomNotices, RouteInv, RouteTypeOK
  <2>4. /\ toRoom' \subseteq toRoom
        /\ \A b \in toPhone' : b \in toPhone \/ ~b.ok \/ \E f \in toRoom : f.answer = b
    BY <1>2 DEF RoomNotices, RoomDrops, phoneVars
  <2> QED
    BY <2>1, <2>2, <2>3, <2>4 DEF RouteKeeps
<1>3. ASSUME NEW s \in MacSockets, RoomLoses(s) PROVE RouteKeeps
  <2>1. RouteInv'
    BY <1>3, RoomLosesKeepsRoute
  <2>2. HandledOnce'
    BY <1>3 DEF RoomLoses, RoomDrops, HandledOnce, phoneVars, keyVars
  <2>3. faults <= faults'
    BY <1>3 DEF RoomLoses, Fault, RouteInv, RouteTypeOK
  <2>4. /\ toRoom' \subseteq toRoom
        /\ \A b \in toPhone' : b \in toPhone \/ ~b.ok \/ \E f \in toRoom : f.answer = b
    BY <1>3 DEF RoomLoses, RoomDrops, phoneVars
  <2> QED
    BY <2>1, <2>2, <2>3, <2>4 DEF RouteKeeps
<1>4. ASSUME NEW m \in asked, RefuseRequest(m) PROVE RouteKeeps
  <2>1. RouteInv'
    BY <1>4, RefuseRequestKeepsRoute
  <2>2. HandledOnce'
    BY <1>4 DEF RefuseRequest, HandledOnce, macVars, keyVars
  <2>3. faults <= faults'
    BY <1>4 DEF RefuseRequest, RouteInv, RouteTypeOK
  <2>4. /\ toRoom' \subseteq toRoom
        /\ \A b \in toPhone' : b \in toPhone \/ ~b.ok \/ \E f \in toRoom : f.answer = b
    BY <1>4 DEF RefuseRequest, Rejected, macVars
  <2> QED
    BY <2>1, <2>2, <2>3, <2>4 DEF RouteKeeps
<1>5. ASSUME NEW m \in asked, NEW s \in MacSockets, ForwardRequest(m, s) PROVE RouteKeeps
  <2>1. RouteInv'
    BY <1>5, ForwardRequestKeepsRoute
  <2>2. HandledOnce'
    BY <1>5 DEF ForwardRequest, HandledOnce, keyVars
  <2>3. faults <= faults'
    BY <1>5 DEF ForwardRequest, RouteInv, RouteTypeOK
  <2>4. /\ toRoom' \subseteq toRoom
        /\ \A b \in toPhone' : b \in toPhone \/ ~b.ok \/ \E f \in toRoom : f.answer = b
    BY <1>5 DEF ForwardRequest
  <2> QED
    BY <2>1, <2>2, <2>3, <2>4 DEF RouteKeeps
<1>6. ASSUME NEW m \in toRoom, ForwardAnswer(m) PROVE RouteKeeps
  <2>1. RouteInv'
    BY <1>6, ForwardAnswerKeepsRoute
  <2>2. HandledOnce'
    BY <1>6 DEF ForwardAnswer, HandledOnce, keyVars
  <2>3. faults <= faults'
    BY <1>6 DEF ForwardAnswer, RouteInv, RouteTypeOK
  <2>4. /\ toRoom' \subseteq toRoom
        /\ \A b \in toPhone' : b \in toPhone \/ ~b.ok \/ \E f \in toRoom : f.answer = b
    BY <1>6 DEF ForwardAnswer
  <2> QED
    BY <2>1, <2>2, <2>3, <2>4 DEF RouteKeeps
<1>7. ASSUME NEW r \in Requests, RoomLosesPhone(r) PROVE RouteKeeps
  <2>1. RouteInv'
    BY <1>7, RoomLosesPhoneKeepsRoute
  <2>2. HandledOnce'
    BY <1>7 DEF RoomLosesPhone, HandledOnce, macVars, keyVars
  <2>3. faults <= faults'
    BY <1>7 DEF RoomLosesPhone, Fault, RouteInv, RouteTypeOK
  <2>4. /\ toRoom' \subseteq toRoom
        /\ \A b \in toPhone' : b \in toPhone \/ ~b.ok \/ \E f \in toRoom : f.answer = b
    BY <1>7 DEF RoomLosesPhone, macVars
  <2> QED
    BY <2>1, <2>2, <2>3, <2>4 DEF RouteKeeps
<1>8. ASSUME Hibernate PROVE RouteKeeps
  <2>1. RouteInv'
    BY <1>8, HibernateKeepsRoute
  <2>2. HandledOnce'
    BY <1>8 DEF Hibernate, HandledOnce, macVars, phoneVars, keyVars
  <2>3. faults <= faults'
    BY <1>8 DEF Hibernate, RouteInv, RouteTypeOK
  <2>4. /\ toRoom' \subseteq toRoom
        /\ \A b \in toPhone' : b \in toPhone \/ ~b.ok \/ \E f \in toRoom : f.answer = b
    BY <1>8 DEF Hibernate, macVars, phoneVars
  <2> QED
    BY <2>1, <2>2, <2>3, <2>4 DEF RouteKeeps
<1> QED
  BY <1>1, <1>2, <1>3, <1>4, <1>5, <1>6, <1>7, <1>8 DEF Room

LEMMA PhoneKeeps ==
  ASSUME ControlInv, Phone, UNCHANGED keyVars
  PROVE  RouteKeeps
<1> USE DEF ControlInv
<1>1. ASSUME NEW m \in Messages, Begin(m) PROVE RouteKeeps
  <2>1. RouteInv'
    BY <1>1, BeginKeepsRoute
  <2>2. HandledOnce'
    BY <1>1 DEF Begin, Ask, HandledOnce, RouteInv, RoomInOrder, macVars, keyVars
  <2>3. faults <= faults'
    BY <1>1 DEF Begin, Ask, RouteInv, RouteTypeOK
  <2>4. /\ toRoom' \subseteq toRoom
        /\ \A b \in toPhone' : b \in toPhone \/ ~b.ok \/ \E f \in toRoom : f.answer = b
    BY <1>1 DEF Begin, Ask, macVars
  <2> QED
    BY <2>1, <2>2, <2>3, <2>4 DEF RouteKeeps
<1>2. ASSUME NEW a \in toPhone, ReceiveAnswer(a) PROVE RouteKeeps
  <2>1. RouteInv'
    BY <1>2, ReceiveAnswerKeepsRoute
  <2>2. HandledOnce'
    BY <1>2 DEF ReceiveAnswer, HandledOnce, macVars, keyVars
  <2>3. faults <= faults'
    BY <1>2 DEF ReceiveAnswer, RouteInv, RouteTypeOK
  <2>4. /\ toRoom' \subseteq toRoom
        /\ \A b \in toPhone' : b \in toPhone \/ ~b.ok \/ \E f \in toRoom : f.answer = b
    BY <1>2 DEF ReceiveAnswer, macVars
  <2> QED
    BY <2>1, <2>2, <2>3, <2>4 DEF RouteKeeps
<1>3. ASSUME NEW r \in Requests, RequestFails(r) PROVE RouteKeeps
  <2>1. RouteInv'
    BY <1>3, RequestFailsKeepsRoute
  <2>2. HandledOnce'
    BY <1>3 DEF RequestFails, HandledOnce, macVars, keyVars
  <2>3. faults <= faults'
    BY <1>3 DEF RequestFails, RouteInv, RouteTypeOK
  <2>4. /\ toRoom' \subseteq toRoom
        /\ \A b \in toPhone' : b \in toPhone \/ ~b.ok \/ \E f \in toRoom : f.answer = b
    BY <1>3 DEF RequestFails, macVars
  <2> QED
    BY <2>1, <2>2, <2>3, <2>4 DEF RouteKeeps
<1> QED
  BY <1>1, <1>2, <1>3 DEF Phone

-----------------------------------------------------------------------------
(* Steps of the handling *)

\* The message that is taken leaves the other ones alone.
LEMMA TakenOnce ==
  ASSUME RouteInv, HandledOnce, KeyInv, NEW m \in toMac, toMac' = toMac \ {m}, UNCHANGED asked,
         \A r \in Requests \ {m.request.id} : work'[r] = work[r]
  PROVE  HandledOnce'
BY MessagesType DEF HandledOnce, RouteInv, RouteTypeOK

\* Handling that is under way concerns no request that is on its way.
LEMMA WorkOnce ==
  ASSUME RouteInv, HandledOnce, NEW r \in Requests, work[r] # Away, UNCHANGED <<asked, toMac>>,
         \A q \in Requests \ {r} : work'[q] = work[q]
  PROVE  HandledOnce'
BY MessagesType DEF HandledOnce, RouteInv, RouteTypeOK

LEMMA ForgottenOnce ==
  ASSUME RouteInv, HandledOnce, Forget, toMac' \subseteq toMac, UNCHANGED asked
  PROVE  HandledOnce'
BY MessagesType DEF HandledOnce, RouteInv, RouteTypeOK, Forget

ControlPlaneInv == ControlInv /\ AcceptedIsDurable /\ UnboundOnlyByFault

\* A step that answers a, or nothing, and leaves the rest of the route alone.
LEMMA HandlingKeeps ==
  ASSUME ControlPlaneInv, KeyInv', HandledOnce', TablesOnlyGrow, NEW a \in Answers,
         toMac' \subseteq toMac, UNCHANGED toRoom \/ Answer(a), a.ok => InTables(a)',
         UNCHANGED <<up, timer, current, macEnd, roomEnd, pending, phoneVars>>,
         \/ Unbound' \subseteq Unbound /\ UNCHANGED faults
         \/ \E x : Unbound' \subseteq Unbound \union {x} /\ Fault
  PROVE  ControlPlaneInv'
<1> USE DEF ControlPlaneInv, ControlInv
<1>1. RouteInv'
  BY AnswerKeepsRoute
<1>2. AcceptedIsDurable'
  BY DurableStays DEF Answer, Sent, phoneVars
<1>3. UnboundOnlyByFault'
  <2>1. CASE Unbound' \subseteq Unbound /\ UNCHANGED faults
    BY <1>1, <2>1, BoundStays DEF RouteInv, RouteTypeOK
  <2>2. CASE \E x : Unbound' \subseteq Unbound \union {x} /\ Fault
    BY <2>2, BoundGrows
  <2> QED
    BY <2>1, <2>2
<1> QED
  BY <1>1, <1>2, <1>3

LEMMA ReceiveKeeps ==
  ASSUME ControlPlaneInv, NEW m \in toMac, Receive(m)
  PROVE  ControlPlaneInv'
<1> USE DEF ControlPlaneInv, ControlInv
<1> DEFINE ask == m.request.ask
           id == m.request.id
<1>1. /\ m.request \in [id : Requests, ask : Contents] /\ id \in Requests /\ ask \in Contents
      /\ work[id] = Away /\ toMac' = toMac \ {m} /\ UNCHANGED faults
      /\ UNCHANGED <<up, timer, current, macEnd, roomEnd, pending, phoneVars>>
  BY MessagesType DEF Receive, RouteInv, RouteTypeOK, HandledOnce
<1>2. Accepted(m.request, None) \in Answers /\ Rejected(m.request) \in Answers
  BY <1>1, AnswersTyped
<1>3. CASE AcceptRedeem(ask) /\ Answer(Accepted(m.request, None))
  <2>1. KeyInv' /\ TablesOnlyGrow /\ Unbound' \subseteq Unbound
    BY <1>1, <1>3, AcceptRedeemKeepsKeys
  <2>2. HandledOnce'
    BY <1>1, <1>3, TakenOnce DEF AcceptRedeem, phoneVars
  <2>3. InTables(Accepted(m.request, None))'
    BY <1>1, <1>3 DEF AcceptRedeem, Registered, Accepted, InTables, Contents, KeyInv,
       KeyTypeOK
  <2> QED
    BY <1>1, <1>2, <1>3, <2>1, <2>2, <2>3, HandlingKeeps
<1>4. CASE (RejectRedeem(ask) \/ RejectTransfer(ask)) /\ Answer(Rejected(m.request))
  <2>1. UNCHANGED keyVars
    BY <1>4 DEF RejectRedeem, RejectTransfer
  <2>2. KeyInv' /\ TablesOnlyGrow /\ Unbound' \subseteq Unbound
    BY <2>1, KeysUnchanged
  <2>3. HandledOnce'
    BY <1>1, <2>1, TakenOnce DEF keyVars, phoneVars
  <2>4. ~Rejected(m.request).ok
    BY DEF Rejected
  <2> QED
    BY <1>1, <1>2, <1>4, <2>2, <2>3, <2>4, HandlingKeeps
<1>5. CASE QueueCreation(id, ask) /\ UNCHANGED toRoom
  <2>1. KeyInv' /\ TablesOnlyGrow /\ Unbound' \subseteq Unbound
    BY <1>1, <1>5, QueueCreationKeepsKeys
  <2>2. HandledOnce'
    BY <1>1, <1>5, TakenOnce DEF QueueCreation, phoneVars
  <2>3. ~Rejected(m.request).ok
    BY DEF Rejected
  <2> QED
    BY <1>1, <1>2, <1>5, <2>1, <2>2, <2>3, HandlingKeeps
<1>6. CASE (\E u \in Uploads : BeginResume(id, ask, u)) /\ UNCHANGED toRoom
  <2>0. PICK u \in Uploads : BeginResume(id, ask, u)
    BY <1>6
  <2>1. KeyInv' /\ TablesOnlyGrow /\ Unbound' \subseteq Unbound
    BY <1>1, <2>0, BeginResumeKeepsKeys
  <2>2. HandledOnce'
    BY <1>1, <2>0, TakenOnce DEF BeginResume, phoneVars
  <2>3. ~Rejected(m.request).ok
    BY DEF Rejected
  <2> QED
    BY <1>1, <1>2, <1>6, <2>1, <2>2, <2>3, HandlingKeeps
<1> QED
  BY <1>3, <1>4, <1>5, <1>6 DEF Receive

\* A handling that goes on was under way, and what it ends with is granted.
LEMMA HandleKeeps ==
  ASSUME ControlPlaneInv, NEW r \in Requests, Handle(r)
  PROVE  ControlPlaneInv'
<1> USE DEF ControlPlaneInv, ControlInv
<1>1. UNCHANGED <<up, timer, current, macEnd, toMac, roomEnd, pending, phoneVars, faults>>
  BY DEF Handle
<1>2. ASSUME ~AtWork(r, "none")
      PROVE  /\ work[r] # Away
             /\ Request(r) \in [id : Requests, ask : Contents]
             /\ Rejected(Request(r)) \in Answers
             /\ work[r].upload \in Uploads \union {None}
             /\ Accepted(Request(r), work[r].upload) \in Answers
  <2>1. work[r] # Away
    BY <1>2 DEF Away, AtWork
  <2>2. Request(r) \in [id : Requests, ask : Contents] /\ work[r].upload \in Uploads \union {None}
    BY <1>2 DEF Request, KeyInv, KeyTypeOK, WorkIsGranted
  <2> QED
    BY <2>1, <2>2, AnswersTyped
<1>3. ~Rejected(Request(r)).ok
  BY DEF Rejected
<1>4. CASE RefuseCreation(r) /\ Answer(Rejected(Request(r)))
  <2>1. KeyInv' /\ TablesOnlyGrow /\ Unbound' \subseteq Unbound
    BY <1>4, RefuseCreationKeepsKeys
  <2>2. ~AtWork(r, "none")
    BY <1>4 DEF RefuseCreation, AtWork
  <2>3. HandledOnce'
    BY <1>1, <1>2, <1>4, <2>2, WorkOnce DEF RefuseCreation, Finish, phoneVars
  <2> QED
    BY <1>1, <1>2, <1>3, <1>4, <2>1, <2>2, <2>3, HandlingKeeps
<1>5. CASE CancelUpload(r) /\ Answer(Rejected(Request(r)))
  <2>1. KeyInv' /\ TablesOnlyGrow /\ Unbound' \subseteq Unbound
    BY <1>5, CancelUploadKeepsKeys
  <2>2. ~AtWork(r, "none")
    BY <1>5 DEF CancelUpload, AtWork
  <2>3. HandledOnce'
    BY <1>1, <1>2, <1>5, <2>2, WorkOnce DEF CancelUpload, Finish, phoneVars
  <2> QED
    BY <1>1, <1>2, <1>3, <1>5, <2>1, <2>2, <2>3, HandlingKeeps
<1>6. CASE ResumeFails(r) /\ Answer(Rejected(Request(r)))
  <2>1. KeyInv' /\ TablesOnlyGrow /\ Unbound' \subseteq Unbound
    BY <1>6, ResumeFailsKeepsKeys
  <2>2. ~AtWork(r, "none")
    BY <1>6 DEF ResumeFails, AtWork
  <2>3. HandledOnce'
    BY <1>1, <1>2, <1>6, <2>2, WorkOnce DEF ResumeFails, Finish, phoneVars
  <2> QED
    BY <1>1, <1>2, <1>3, <1>6, <2>1, <2>2, <2>3, HandlingKeeps
<1>7. CASE SessionOpens(r) /\ Answer(Accepted(Request(r), work[r].upload))
  <2>1. KeyInv' /\ TablesOnlyGrow /\ Unbound' \subseteq Unbound
    BY <1>7, SessionOpensKeepsKeys
  <2>2. ~AtWork(r, "none")
    BY <1>7 DEF SessionOpens, AtWork
  <2>3. HandledOnce'
    BY <1>1, <1>2, <1>7, <2>2, WorkOnce DEF SessionOpens, Finish, phoneVars
  <2>4. PICK a \in Answers : a = Accepted(Request(r), work[r].upload)
    BY <1>2, <2>2
  <2>5. a.ask = work[r].ask /\ a.upload = work[r].upload
    BY <2>4 DEF Accepted, Request
  <2>6. InTables(a)'
    BY <1>7, <2>2, <2>5 DEF SessionOpens, tables, InTables, AtWork, KeyInv, WorkIsGranted
  <2>7. Answer(a)
    BY <1>7, <2>4
  <2> QED
    BY <1>1, <1>2, <2>1, <2>2, <2>3, <2>6, <2>7, HandlingKeeps
<1>8. CASE BindUpload(r) /\ UNCHANGED toRoom
  <2>1. KeyInv' /\ TablesOnlyGrow /\ Unbound' \subseteq Unbound
    BY <1>8, BindUploadKeepsKeys
  <2>2. ~AtWork(r, "none")
    BY <1>8 DEF BindUpload, AtWork
  <2>3. HandledOnce'
    BY <1>1, <1>2, <1>8, <2>2, WorkOnce DEF BindUpload, Goto, phoneVars
  <2> QED
    BY <1>1, <1>2, <1>3, <1>8, <2>1, <2>2, <2>3, HandlingKeeps
<1>9. CASE SessionFails(r) /\ UNCHANGED toRoom
  <2>1. KeyInv' /\ TablesOnlyGrow /\ Unbound' \subseteq Unbound
    BY <1>9, SessionFailsKeepsKeys
  <2>2. ~AtWork(r, "none")
    BY <1>9 DEF SessionFails, AtWork
  <2>3. HandledOnce'
    BY <1>1, <1>2, <1>9, <2>2, WorkOnce DEF SessionFails, Goto, phoneVars
  <2> QED
    BY <1>1, <1>2, <1>3, <1>9, <2>1, <2>2, <2>3, HandlingKeeps
<1>10. CASE (\E u \in Uploads : CreateRow(r, u)) /\ UNCHANGED toRoom
  <2>0. PICK u \in Uploads : CreateRow(r, u)
    BY <1>10
  <2>1. KeyInv' /\ TablesOnlyGrow /\ Unbound' \subseteq Unbound
    BY <2>0, CreateRowKeepsKeys
  <2>2. ~AtWork(r, "none")
    BY <2>0 DEF CreateRow, AtWork
  <2>3. HandledOnce'
    BY <1>1, <1>2, <2>0, <2>2, WorkOnce DEF CreateRow, Goto, phoneVars
  <2> QED
    BY <1>1, <1>2, <1>3, <1>10, <2>1, <2>2, <2>3, HandlingKeeps
<1> QED
  BY <1>4, <1>5, <1>6, <1>7, <1>8, <1>9, <1>10 DEF Handle

LEMMA HandleFailsKeeps ==
  ASSUME ControlPlaneInv, NEW r \in Requests, HandleFails(r)
  PROVE  ControlPlaneInv'
<1> USE DEF ControlPlaneInv, ControlInv
<1>1. KeyInv' /\ TablesOnlyGrow /\ Unbound' \subseteq Unbound \union {work[r].upload}
  BY BindThrowsKeepsKeys DEF HandleFails
<1>2. work[r] # Away /\ Request(r) \in [id : Requests, ask : Contents]
  BY DEF HandleFails, BindThrows, Request, Away, AtWork, KeyInv, WorkIsGranted
<1>3. HandledOnce'
  BY <1>2, WorkOnce DEF HandleFails, BindThrows, Finish, phoneVars
<1>4. Rejected(Request(r)) \in Answers /\ ~Rejected(Request(r)).ok
  BY <1>2, AnswersTyped DEF Rejected
<1> QED
  BY <1>1, <1>3, <1>4, HandlingKeeps DEF HandleFails

\* The end of the process, in the middle of a redemption or not.
LEMMA EndKeeps ==
  ASSUME ControlPlaneInv, ProcessEnds, Forget,
         \/ UNCHANGED tables
         \/ \E ask \in Contents : RedeemThrows(ask)
  PROVE  ControlPlaneInv'
<1> USE DEF ControlPlaneInv, ControlInv
<1>1. RouteInv'
  BY ProcessEndsKeepsRoute
<1>2. UNCHANGED <<keyState, bindings, uploadRow, transferOf>>
      /\ paired' \in [Devices -> PublicKeys \union {None}]
      /\ \A d \in Devices : paired[d] # None => paired'[d] = paired[d]
  BY DEF tables, RedeemThrows, Redeemable, Registered, Contents, KeyInv, KeyTypeOK
<1>3. /\ KeyInv' /\ TablesOnlyGrow
      /\ Unbound' \subseteq Unbound \union {work[Head(creations)].upload}
  BY <1>2, ForgetKeepsKeys
<1>4. HandledOnce'
  BY ForgottenOnce DEF ProcessEnds, phoneVars
<1>5. AcceptedIsDurable'
  BY <1>3, DurableStays DEF ProcessEnds, phoneVars
<1>6. UnboundOnlyByFault'
  BY <1>3, BoundGrows DEF ProcessEnds
<1> QED
  BY <1>1, <1>3, <1>4, <1>5, <1>6

LEMMA RouteStepKeeps ==
  ASSUME ControlPlaneInv, RouteKeeps, UNCHANGED keyVars
  PROVE  ControlPlaneInv'
<1> USE DEF ControlPlaneInv, ControlInv
<1>1. KeyInv' /\ TablesOnlyGrow /\ Unbound' \subseteq Unbound
  BY KeysUnchanged
<1>2. AcceptedIsDurable'
  BY <1>1, DurableStays DEF RouteKeeps
<1>3. UnboundOnlyByFault'
  BY <1>1, BoundStays DEF RouteKeeps
<1> QED
  BY <1>1, <1>2, <1>3 DEF RouteKeeps

LEMMA DesktopKeeps ==
  ASSUME ControlPlaneInv, Desktop, UNCHANGED routeVars
  PROVE  ControlPlaneInv'
<1> USE DEF ControlPlaneInv, ControlInv
<1>1. KeyInv' /\ TablesOnlyGrow /\ Unbound' \subseteq Unbound /\ UNCHANGED work
  <2>1. ASSUME NEW k \in Keys, CreateKey(k) \/ RevokeKey(k)
        PROVE  KeyInv' /\ TablesOnlyGrow /\ Unbound' \subseteq Unbound /\ UNCHANGED work
    BY <2>1, CreateKeyKeepsKeys, RevokeKeyKeepsKeys DEF CreateKey, RevokeKey
  <2>2. ASSUME NEW u \in Uploads, UploadEnds(u)
        PROVE  KeyInv' /\ TablesOnlyGrow /\ Unbound' \subseteq Unbound /\ UNCHANGED work
    BY <2>2, UploadEndsKeepsKeys DEF UploadEnds
  <2> QED
    BY <2>1, <2>2 DEF Desktop
<1>2. RouteKeeps
  BY <1>1 DEF RouteKeeps, routeVars, macVars, phoneVars, RouteInv, RouteTypeOK,
     OneWayForward, RoomInOrder, HandledOnce
<1>3. AcceptedIsDurable'
  BY <1>1, <1>2, DurableStays DEF RouteKeeps
<1>4. UnboundOnlyByFault'
  BY <1>1, <1>2, BoundStays DEF RouteKeeps
<1> QED
  BY <1>1, <1>2, <1>3, <1>4 DEF RouteKeeps

-----------------------------------------------------------------------------
(* The theorems *)

LEMMA InitInv == Init => ControlPlaneInv
<1> SUFFICES ASSUME Init PROVE ControlPlaneInv
  OBVIOUS
<1>1. ControlInv
  BY InitRoute, InitKeys DEF Init, RouteInit, ControlInv, HandledOnce
<1>2. AcceptedIsDurable
  BY DEF Init, RouteInit, AcceptedIsDurable
<1>3. UnboundOnlyByFault
  BY InitKeys, FS_EmptySet DEF Init, RouteInit, UnboundOnlyByFault
<1> QED
  BY <1>1, <1>2, <1>3 DEF ControlPlaneInv

LEMMA NextInv == ControlPlaneInv /\ [Next]_vars => ControlPlaneInv'
<1> SUFFICES ASSUME ControlPlaneInv, [Next]_vars PROVE ControlPlaneInv'
  OBVIOUS
<1>1. CASE \E m \in toMac : Receive(m)
  BY <1>1, ReceiveKeeps
<1>2. CASE \E m \in toMac : ReceiveThrows(m)
  <2>1. PICK m \in toMac : ReceiveThrows(m)
    BY <1>2
  <2>2. m.request.ask \in Contents
    BY MessagesType DEF ControlPlaneInv, ControlInv, RouteInv, RouteTypeOK
  <2> QED
    BY <2>1, <2>2, EndKeeps DEF ReceiveThrows
<1>3. CASE \E r \in Requests : Handle(r) \/ HandleFails(r)
  BY <1>3, HandleKeeps, HandleFailsKeeps
<1>4. CASE Crash
  BY <1>4, EndKeeps DEF Crash
<1>5. CASE Desktop /\ UNCHANGED routeVars
  BY <1>5, DesktopKeeps
<1>6. CASE (MacRoute \/ Room \/ Phone) /\ UNCHANGED keyVars
  <2>1. ControlInv
    BY DEF ControlPlaneInv
  <2> QED
    BY <1>6, <2>1, MacRouteKeeps, RoomKeeps, PhoneKeeps, RouteStepKeeps
<1>7. CASE UNCHANGED vars
  <2>1. UNCHANGED routeVars /\ UNCHANGED keyVars
    BY <1>7 DEF vars
  <2>2. RouteKeeps
    BY <2>1 DEF RouteKeeps, routeVars, macVars, phoneVars, keyVars, RouteInv, RouteTypeOK,
       OneWayForward, RoomInOrder, HandledOnce, ControlPlaneInv, ControlInv
  <2> QED
    BY <2>1, <2>2, RouteStepKeeps
<1> QED
  BY <1>1, <1>2, <1>3, <1>4, <1>5, <1>6, <1>7 DEF Next

\* The route of the Mac, the room, the creation queue and the tables are in order after
\* every sequence of steps, losses and ends of the process, and a request is handled once.
THEOREM ControlInvariant == Spec => []ControlInv
<1>1. ControlPlaneInv => ControlInv
  BY DEF ControlPlaneInv
<1> QED
  BY <1>1, InitInv, NextInv, PTL DEF Spec

\* What a phone is told is in the tables, and stays there.
THEOREM AcceptedStaysDurable == Spec => []AcceptedIsDurable
<1>1. ControlPlaneInv => AcceptedIsDurable
  BY DEF ControlPlaneInv
<1> QED
  BY <1>1, InitInv, NextInv, PTL DEF Spec

\* Uploads that cannot be resumed are at most as many as there were faults.
THEOREM UnboundCounted == Spec => []UnboundOnlyByFault
<1>1. ControlPlaneInv => UnboundOnlyByFault
  BY DEF ControlPlaneInv
<1> QED
  BY <1>1, InitInv, NextInv, PTL DEF Spec

-----------------------------------------------------------------------------
(* What the steps do with keys, tables and work *)

LEMMA InvStays == Spec => []ControlPlaneInv
BY InitInv, NextInv, PTL DEF Spec

LEMMA KeySteps ==
  ASSUME ControlPlaneInv, [Next]_vars
  PROVE  \/ UNCHANGED keyVars
         \/ Forget /\ (UNCHANGED tables \/ \E ask \in Contents : RedeemThrows(ask))
         \/ \E k \in Keys : CreateKey(k) \/ RevokeKey(k)
         \/ \E u \in Uploads : UploadEnds(u)
         \/ \E ask \in Contents : AcceptRedeem(ask)
         \/ \E r \in Requests, ask \in Contents :
              QueueCreation(r, ask) \/ \E u \in Uploads : BeginResume(r, ask, u)
         \/ \E r \in Requests :
              \/ \E u \in Uploads : CreateRow(r, u)
              \/ RefuseCreation(r) \/ BindUpload(r) \/ BindThrows(r)
              \/ SessionOpens(r) \/ ResumeFails(r) \/ SessionFails(r) \/ CancelUpload(r)
<1> DEFINE Goal ==
         \/ UNCHANGED keyVars
         \/ Forget /\ (UNCHANGED tables \/ \E ask \in Contents : RedeemThrows(ask))
         \/ \E k \in Keys : CreateKey(k) \/ RevokeKey(k)
         \/ \E u \in Uploads : UploadEnds(u)
         \/ \E ask \in Contents : AcceptRedeem(ask)
         \/ \E r \in Requests, ask \in Contents :
              QueueCreation(r, ask) \/ \E u \in Uploads : BeginResume(r, ask, u)
         \/ \E r \in Requests :
              \/ \E u \in Uploads : CreateRow(r, u)
              \/ RefuseCreation(r) \/ BindUpload(r) \/ BindThrows(r)
              \/ SessionOpens(r) \/ ResumeFails(r) \/ SessionFails(r) \/ CancelUpload(r)
<1>1. ASSUME NEW m \in toMac PROVE m.request.id \in Requests /\ m.request.ask \in Contents
  BY MessagesType DEF ControlPlaneInv, ControlInv, RouteInv, RouteTypeOK
<1>2. ASSUME NEW m \in toMac, Receive(m) PROVE Goal
  BY <1>1, <1>2 DEF Receive, RejectRedeem, RejectTransfer
<1>3. ASSUME NEW m \in toMac, ReceiveThrows(m) PROVE Goal
  BY <1>1, <1>3 DEF ReceiveThrows
<1>4. ASSUME NEW r \in Requests, Handle(r) \/ HandleFails(r) PROVE Goal
  BY <1>4 DEF Handle, HandleFails
<1>5. CASE Crash
  BY <1>5 DEF Crash
<1>6. CASE Desktop
  BY <1>6 DEF Desktop
<1>7. CASE UNCHANGED keyVars
  BY <1>7
<1> QED
  BY <1>2, <1>3, <1>4, <1>5, <1>6, <1>7 DEF Next, vars

Rewrites ==
  /\ bindings \subseteq bindings'
  /\ \A d \in Devices : paired[d] # None => paired'[d] = paired[d]
  /\ \A u \in Uploads : transferOf[u] # None => transferOf'[u] = transferOf[u]
  /\ \A k \in Keys : keyState[k] = "revoked" => keyState'[k] = "revoked"

LEMMA StepRewrites ==
  ASSUME ControlPlaneInv, [Next]_vars
  PROVE  Rewrites
<1> USE DEF ControlPlaneInv, ControlInv, KeyInv, KeyTypeOK, Rewrites
<1>1. CASE UNCHANGED keyVars
  BY <1>1 DEF keyVars, tables
<1>2. CASE UNCHANGED tables
  BY <1>2 DEF tables
<1>3. ASSUME NEW ask \in Contents, RedeemThrows(ask) \/ AcceptRedeem(ask) PROVE Rewrites
  BY <1>3 DEF RedeemThrows, AcceptRedeem, Redeemable, Registered, Contents
<1>4. ASSUME NEW k \in Keys, CreateKey(k) \/ RevokeKey(k) PROVE Rewrites
  BY <1>4 DEF CreateKey, RevokeKey
<1>5. ASSUME NEW u \in Uploads, UploadEnds(u) PROVE Rewrites
  BY <1>5 DEF UploadEnds
<1>6. ASSUME NEW r \in Requests, BindUpload(r) PROVE Rewrites
  <2>1. transferOf[work[r].upload] = None
    BY <1>6 DEF BindUpload, WorkIsGranted, AtWork
  <2> QED
    BY <1>6, <2>1 DEF BindUpload
<1>7. ASSUME NEW r \in Requests, (\E u \in Uploads : CreateRow(r, u)) \/ CancelUpload(r)
      PROVE  Rewrites
  BY <1>7 DEF CreateRow, CancelUpload
<1>8. ASSUME NEW r \in Requests, NEW ask \in Contents,
             QueueCreation(r, ask) \/ \E u \in Uploads : BeginResume(r, ask, u)
      PROVE  UNCHANGED tables
  BY <1>8 DEF QueueCreation, BeginResume
<1>9. ASSUME NEW r \in Requests, \/ RefuseCreation(r) \/ BindThrows(r) \/ SessionOpens(r)
                                 \/ ResumeFails(r) \/ SessionFails(r)
      PROVE  UNCHANGED tables
  BY <1>9 DEF RefuseCreation, BindThrows, SessionOpens, ResumeFails, SessionFails
<1> QED
  BY <1>1, <1>2, <1>3, <1>4, <1>5, <1>6, <1>7, <1>8, <1>9, KeySteps

\* No phone takes another one's name, no redeemed key is unbound, and no upload changes
\* hands (registerOrVerify and the insertions of sqlite-material-library.ts).
THEOREM TablesAreKept == Spec => NothingRewritten
<1>1. ControlPlaneInv /\ [Next]_vars => Rewrites
  BY StepRewrites
<1> QED
  BY <1>1, InvStays, PTL DEF Spec, NothingRewritten, Rewrites

\* What a step lets in under the key k.
LetsIn(k) ==
  \/ \E g \in bindings' \ bindings : g.key = k
  \/ \E r \in Requests : work[r] = Away /\ work'[r] # Away /\ work'[r].ask.key = k
  \/ ~(Creating(k)' \subseteq Creating(k))

Drains(k) ==
  \A u \in Uploads : transferOf'[u] # transferOf[u] /\ transferOf'[u].key = k =>
    \E r \in Creating(k) : work[r].upload = u

LEMMA NewWork ==
  ASSUME ControlPlaneInv, NEW k \in Keys, NEW r \in Requests, UNCHANGED bindings,
         \/ work'[r] = Away
         \/ work'[r].ask = work[r].ask /\ (work'[r].pc \in {"queued", "bind"} => work[r].pc = "queued"),
         work[r] # Away, \A q \in Requests \ {r} : work'[q] = work[q]
  PROVE  ~LetsIn(k)
BY DEF LetsIn, Creating, Away

LEMMA RevokedStep ==
  ASSUME ControlPlaneInv, [Next]_vars, NEW k \in Keys, keyState[k] = "revoked"
  PROVE  ~LetsIn(k) /\ Drains(k)
<1> USE DEF ControlPlaneInv, ControlInv, KeyInv, KeyTypeOK
<1>1. CASE UNCHANGED keyVars
  BY <1>1 DEF keyVars, tables, LetsIn, Drains, Creating
<1>2. CASE Forget /\ (UNCHANGED tables \/ \E ask \in Contents : RedeemThrows(ask))
  BY <1>2 DEF Forget, tables, RedeemThrows, LetsIn, Drains, Creating, Away
<1>3. ASSUME NEW j \in Keys, CreateKey(j) \/ RevokeKey(j) PROVE ~LetsIn(k) /\ Drains(k)
  BY <1>3 DEF CreateKey, RevokeKey, LetsIn, Drains, Creating
<1>4. ASSUME NEW u \in Uploads, UploadEnds(u) PROVE ~LetsIn(k) /\ Drains(k)
  BY <1>4 DEF UploadEnds, LetsIn, Drains, Creating
<1>5. ASSUME NEW ask \in Contents, AcceptRedeem(ask) PROVE ~LetsIn(k) /\ Drains(k)
  <2>1. ask.key # k
    BY <1>5 DEF AcceptRedeem, Redeemable
  <2> QED
    BY <1>5, <2>1 DEF AcceptRedeem, GrantOf, LetsIn, Drains, Creating
\* A request is let in only under an active key.
<1>6. ASSUME NEW r \in Requests, NEW ask \in Contents,
             QueueCreation(r, ask) \/ \E u \in Uploads : BeginResume(r, ask, u)
      PROVE  ~LetsIn(k) /\ Drains(k)
  <2>1. ask.key # k /\ UNCHANGED tables
    BY <1>6 DEF QueueCreation, BeginResume, Resolves
  <2>2. work'[r].ask = ask /\ \A q \in Requests \ {r} : work'[q] = work[q]
    BY <1>6 DEF QueueCreation, BeginResume
  <2>3. \A q \in Requests : q # r \/ work'[q].ask.key # k
    BY <2>1, <2>2
  <2>4. Creating(k)' \subseteq Creating(k)
    BY <2>2, <2>3 DEF Creating
  <2> QED
    BY <2>1, <2>2, <2>3, <2>4 DEF tables, LetsIn, Drains
<1>7. ASSUME NEW r \in Requests, BindUpload(r) PROVE ~LetsIn(k) /\ Drains(k)
  <2>1. ~LetsIn(k)
    BY <1>7, NewWork DEF BindUpload, AtWork, Goto, Away
  <2>2. work[r].upload \in Uploads /\ r \in Creating(work[r].ask.key)
    BY <1>7 DEF BindUpload, AtWork, WorkIsGranted, Creating
  <2>3. ASSUME NEW u \in Uploads, transferOf'[u] # transferOf[u], transferOf'[u].key = k
        PROVE  u = work[r].upload /\ work[r].ask.key = k
    BY <1>7, <2>3 DEF BindUpload, GrantOf
  <2> QED
    BY <2>1, <2>2, <2>3 DEF Drains
<1>8. ASSUME NEW r \in Requests,
             \/ \E u \in Uploads : CreateRow(r, u)
             \/ RefuseCreation(r) \/ BindThrows(r) \/ SessionOpens(r) \/ ResumeFails(r)
             \/ SessionFails(r) \/ CancelUpload(r)
      PROVE  ~LetsIn(k) /\ Drains(k)
  <2>1. UNCHANGED <<bindings, transferOf>>
    BY <1>8 DEF CreateRow, RefuseCreation, BindThrows, SessionOpens, ResumeFails, SessionFails,
       CancelUpload, tables
  <2>2. work[r] # Away /\ \A q \in Requests \ {r} : work'[q] = work[q]
    BY <1>8 DEF CreateRow, RefuseCreation, BindThrows, SessionOpens, ResumeFails, SessionFails,
       CancelUpload, AtWork, Goto, Finish, Away
  <2>3. \/ work'[r] = Away
        \/ work'[r].ask = work[r].ask
             /\ (work'[r].pc \in {"queued", "bind"} => work[r].pc = "queued")
    BY <1>8 DEF CreateRow, RefuseCreation, BindThrows, SessionOpens, ResumeFails, SessionFails,
       CancelUpload, AtWork, Goto, Finish
  <2> QED
    BY <2>1, <2>2, <2>3, NewWork DEF Drains
<1> QED
  BY <1>1, <1>2, <1>3, <1>4, <1>5, <1>6, <1>7, <1>8, KeySteps

\* A revocation lets nothing more in; what it leaves is the creations in the queue, whose
\* keys are not looked at again (createUploadExclusive in sqlite-material-library.ts).
THEOREM RevocationDrains == Spec => RevokedOnlyDrains
<1> DEFINE Keeps == \A k \in Keys : keyState[k] = "revoked" =>
       /\ \A g \in bindings' \ bindings : g.key # k
       /\ \A r \in Requests : work[r] = Away /\ work'[r] # Away => work'[r].ask.key # k
       /\ Creating(k)' \subseteq Creating(k)
       /\ \A u \in Uploads : transferOf'[u] # transferOf[u] /\ transferOf'[u].key = k =>
            \E r \in Creating(k) : work[r].upload = u
<1>1. ControlPlaneInv /\ [Next]_vars => Keeps
  BY RevokedStep DEF LetsIn, Drains
<1> QED
  BY <1>1, InvStays, PTL DEF Spec, RevokedOnlyDrains

-----------------------------------------------------------------------------
(* One answer for a request *)

\* A step that only takes messages away, or ends work, leaves one answer.
LEMMA LessAnswers ==
  ASSUME AnsweredOnce, toRoom' \subseteq toRoom, toPhone' \subseteq toPhone,
         asked' \subseteq asked, toMac' \subseteq toMac,
         \A m \in toRoom : work[m.answer.id] = Away => work'[m.answer.id] = Away,
         \A a \in toPhone : work[a.id] = Away => work'[a.id] = Away
  PROVE  AnsweredOnce'
BY DEF AnsweredOnce

LEMMA Ids ==
  ASSUME RouteInv
  PROVE  /\ \A m \in toRoom : m.answer.id \in Requests /\ m.answer \in Answers
         /\ \A a \in toPhone : a.id \in Requests
         /\ \A m \in asked : m.id \in Requests
         /\ \A n \in toMac : n.request.id \in Requests
BY MessagesType DEF RouteInv, RouteTypeOK, Answers

\* The room moves a request, or an answer, from one place to the next.
LEMMA RoomAnswersOnce ==
  ASSUME ControlPlaneInv, AnsweredOnce, Room \/ MacRoute, UNCHANGED keyVars
  PROVE  AnsweredOnce'
<1> USE DEF ControlPlaneInv, ControlInv
<1>0. UNCHANGED work
  BY DEF keyVars
<1>1. ASSUME NEW m \in asked, RefuseRequest(m) PROVE AnsweredOnce'
  <2>1. /\ asked' = asked \ {m} /\ toPhone' = toPhone \union {Rejected(m)}
        /\ UNCHANGED <<toMac, toRoom>>
    BY <1>1 DEF RefuseRequest, macVars
  <2>2. Rejected(m).id = m.id
    BY DEF Rejected
  <2>3. /\ work[m.id] = Away /\ \A n \in asked' : n.id # m.id
        /\ \A n \in toMac : n.request.id # m.id
    BY <2>1 DEF HandledOnce
  <2>4. /\ \A n \in toRoom : n.answer.id # m.id
        /\ \A a \in toPhone : a.id # m.id
    BY DEF AnsweredOnce
  <2> QED
    BY <1>0, <2>1, <2>2, <2>3, <2>4 DEF AnsweredOnce
<1>2. ASSUME NEW m \in asked, NEW s \in MacSockets, ForwardRequest(m, s) PROVE AnsweredOnce'
  <2>1. /\ asked' = asked \ {m} /\ UNCHANGED <<toPhone, toRoom>>
        /\ toMac' \subseteq toMac \union {[socket |-> s, request |-> m]}
    BY <1>2 DEF ForwardRequest
  <2> QED
    BY <1>0, <2>1 DEF AnsweredOnce
<1>3. ASSUME NEW m \in toRoom, ForwardAnswer(m) PROVE AnsweredOnce'
  <2>1. /\ toRoom' = toRoom \ {m} /\ UNCHANGED <<asked, toMac>>
        /\ toPhone' \subseteq toPhone \union {m.answer}
    BY <1>3 DEF ForwardAnswer
  <2>2. \A n \in toRoom' : n.answer.id # m.answer.id
    BY <2>1 DEF AnsweredOnce
  <2> QED
    BY <1>0, <2>1, <2>2 DEF AnsweredOnce
<1>4. ASSUME NEW r \in Requests, RoomLosesPhone(r) PROVE AnsweredOnce'
  <2>1. UNCHANGED <<toMac, toRoom>> /\ asked' \subseteq asked /\ toPhone' \subseteq toPhone
    BY <1>4 DEF RoomLosesPhone, macVars
  <2> QED
    BY <1>0, <2>1, LessAnswers
<1>5. CASE Hibernate
  BY <1>0, <1>5, LessAnswers DEF Hibernate, macVars, phoneVars
<1>6. ASSUME NEW s \in MacSockets, AcceptMac(s) \/ RoomNotices(s) \/ RoomLoses(s)
      PROVE  AnsweredOnce'
  BY <1>0, <1>6, LessAnswers DEF AcceptMac, RoomNotices, RoomLoses, RoomDrops, macVars, phoneVars
<1>7. CASE MacRoute
  <2>1. UNCHANGED <<toRoom, asked, toPhone>> /\ toMac' \subseteq toMac
    BY <1>7 DEF MacRoute, ProcessStarts, Connect, MacOpens, MacNotices, MacLoses, MacCloses,
       phoneVars
  <2> QED
    BY <1>0, <2>1, LessAnswers
<1> QED
  BY <1>1, <1>2, <1>3, <1>4, <1>5, <1>6, <1>7 DEF Room

\* A phone asks under an identifier of which nothing is left.
LEMMA PhoneAnswersOnce ==
  ASSUME ControlPlaneInv, AnsweredOnce, Phone, UNCHANGED keyVars
  PROVE  AnsweredOnce'
<1> USE DEF ControlPlaneInv, ControlInv
<1>0. UNCHANGED work
  BY DEF keyVars
<1>1. ASSUME NEW m \in Messages, Begin(m) PROVE AnsweredOnce'
  <2>1. /\ \A n \in toRoom : n.answer.id # m.id
        /\ asked' = asked \union {m} /\ UNCHANGED <<toPhone, toRoom, toMac>>
    BY <1>1 DEF Begin, Ask, macVars
  <2>2. \A a \in toPhone : a.id # m.id
    BY <1>1 DEF Begin, Ask, RouteInv, RoomInOrder
  <2> QED
    BY <1>0, <2>1, <2>2 DEF AnsweredOnce
<1>2. ASSUME NEW a \in toPhone, ReceiveAnswer(a) PROVE AnsweredOnce'
  BY <1>0, <1>2, LessAnswers DEF ReceiveAnswer, macVars
<1>3. ASSUME NEW r \in Requests, RequestFails(r) PROVE AnsweredOnce'
  BY <1>0, <1>3, LessAnswers DEF RequestFails, macVars
<1> QED
  BY <1>1, <1>2, <1>3 DEF Phone

\* The Mac takes up or goes on with a request of which nothing else is left, and answers it,
\* if at all, when it has done with it.
LEMMA HandlingAnswersOnce ==
  ASSUME ControlPlaneInv, AnsweredOnce, NEW r \in Requests, NEW a, a.id = r,
         \A m \in toRoom : m.answer.id # r, \A b \in toPhone : b.id # r,
         \A m \in asked : m.id # r, \A n \in toMac' : n.request.id # r,
         toMac' \subseteq toMac, UNCHANGED phoneVars,
         \A q \in Requests \ {r} : work'[q] = work[q],
         UNCHANGED toRoom \/ (Answer(a) /\ work'[r] = Away)
  PROVE  AnsweredOnce'
<1>1. UNCHANGED <<toPhone, asked>>
  BY DEF phoneVars
<1>2. /\ \A m \in toRoom : m.answer.id \in Requests
      /\ \A b \in toPhone : b.id \in Requests
  BY Ids DEF ControlPlaneInv, ControlInv
<1>3. CASE UNCHANGED toRoom
  BY <1>1, <1>2, <1>3 DEF AnsweredOnce
<1>4. CASE Answer(a) /\ work'[r] = Away
  <2>1. toRoom' \subseteq toRoom \union {[socket |-> current, answer |-> a]}
    BY <1>4 DEF Answer, Sent
  <2>2. \A m \in toRoom' : m \in toRoom \/ (m.answer = a /\ m = [socket |-> current, answer |-> a])
    BY <2>1
  <2>3. \A m, n \in toRoom' : m.answer.id = n.answer.id => m = n
    BY <2>2 DEF AnsweredOnce
  <2> QED
    BY <1>1, <1>2, <1>4, <2>2, <2>3 DEF AnsweredOnce
<1> QED
  BY <1>3, <1>4

LEMMA ReceiveAnswersOnce ==
  ASSUME ControlPlaneInv, AnsweredOnce, NEW m \in toMac, Receive(m)
  PROVE  AnsweredOnce'
<1> USE DEF ControlPlaneInv, ControlInv
<1> DEFINE r == m.request.id
<1>1. r \in Requests /\ toMac' = toMac \ {m} /\ UNCHANGED phoneVars
  BY Ids DEF Receive
<1>2. /\ work[r] = Away /\ \A n \in toMac' : n.request.id # r
      /\ \A n \in asked : n.id # r
  BY <1>1 DEF HandledOnce
<1>3. (\A n \in toRoom : n.answer.id # r) /\ (\A b \in toPhone : b.id # r)
  BY DEF AnsweredOnce
<1>4. Rejected(m.request).id = r /\ Accepted(m.request, None).id = r
  BY DEF Rejected, Accepted
<1>5. CASE \/ QueueCreation(r, m.request.ask) /\ UNCHANGED toRoom
           \/ (\E u \in Uploads : BeginResume(r, m.request.ask, u)) /\ UNCHANGED toRoom
  <2>1. \A q \in Requests \ {r} : work'[q] = work[q]
    BY <1>5 DEF QueueCreation, BeginResume, KeyInv, KeyTypeOK
  <2> QED
    BY <1>1, <1>2, <1>3, <1>4, <1>5, <2>1, HandlingAnswersOnce
<1>6. CASE \/ AcceptRedeem(m.request.ask) /\ Answer(Accepted(m.request, None))
           \/ RejectRedeem(m.request.ask) /\ Answer(Rejected(m.request))
           \/ RejectTransfer(m.request.ask) /\ Answer(Rejected(m.request))
  <2>1. UNCHANGED work
    BY <1>6 DEF AcceptRedeem, RejectRedeem, RejectTransfer, keyVars
  <2>2. PICK a \in {Accepted(m.request, None), Rejected(m.request)} : Answer(a)
    BY <1>6
  <2> QED
    BY <1>1, <1>2, <1>3, <1>4, <2>1, <2>2, HandlingAnswersOnce
<1> QED
  BY <1>5, <1>6 DEF Receive

LEMMA HandleAnswersOnce ==
  ASSUME ControlPlaneInv, AnsweredOnce, NEW r \in Requests, Handle(r) \/ HandleFails(r)
  PROVE  AnsweredOnce'
<1> USE DEF ControlPlaneInv, ControlInv
<1>1. UNCHANGED <<toMac, phoneVars>>
  BY DEF Handle, HandleFails
<1>2. work[r] # Away /\ \A q \in Requests \ {r} : work'[q] = work[q]
  BY DEF Handle, HandleFails, CreateRow, RefuseCreation, BindUpload, BindThrows, SessionOpens,
     ResumeFails, SessionFails, CancelUpload, AtWork, Goto, Finish, Away, KeyInv, KeyTypeOK
<1>3. /\ \A m \in toRoom : m.answer.id # r
      /\ \A b \in toPhone : b.id # r
      /\ \A m \in asked : m.id # r
      /\ \A n \in toMac : n.request.id # r
  BY <1>2 DEF AnsweredOnce, HandledOnce
<1>4. Rejected(Request(r)).id = r /\ Accepted(Request(r), work[r].upload).id = r
  BY DEF Rejected, Accepted, Request
<1>5. \/ UNCHANGED toRoom
      \/ /\ Answer(Rejected(Request(r))) \/ Answer(Accepted(Request(r), work[r].upload))
         /\ work'[r] = Away
  BY DEF Handle, HandleFails, RefuseCreation, BindThrows, SessionOpens, ResumeFails,
     CancelUpload, Finish, KeyInv, KeyTypeOK
<1>6. PICK a \in {Rejected(Request(r)), Accepted(Request(r), work[r].upload)} :
         UNCHANGED toRoom \/ (Answer(a) /\ work'[r] = Away)
  BY <1>5
<1> QED
  BY <1>1, <1>2, <1>3, <1>4, <1>6, HandlingAnswersOnce

LEMMA EndAnswersOnce ==
  ASSUME ControlPlaneInv, AnsweredOnce, Forget, ProcessEnds
  PROVE  AnsweredOnce'
<1>1. UNCHANGED <<toRoom, asked, toPhone>> /\ toMac' \subseteq toMac
  BY DEF ProcessEnds, phoneVars
<1>2. /\ \A m \in toRoom : work'[m.answer.id] = Away
      /\ \A a \in toPhone : work'[a.id] = Away
  BY Ids DEF Forget, ControlPlaneInv, ControlInv
<1> QED
  BY <1>1, <1>2, LessAnswers

\* Between the sockets of the phones, the room and the Mac no request is doubled, and no
\* answer is: the map of pending requests need not find that out.
THEOREM OneAnswer == Spec => []AnsweredOnce
<1>1. Init => AnsweredOnce
  BY DEF Init, RouteInit, AnsweredOnce
<1>2. ControlPlaneInv /\ AnsweredOnce /\ [Next]_vars => AnsweredOnce'
  <2> SUFFICES ASSUME ControlPlaneInv, AnsweredOnce, [Next]_vars PROVE AnsweredOnce'
    OBVIOUS
  <2>1. ASSUME NEW m \in toMac, Receive(m) \/ ReceiveThrows(m) PROVE AnsweredOnce'
    BY <2>1, ReceiveAnswersOnce, EndAnswersOnce DEF ReceiveThrows
  <2>2. ASSUME NEW r \in Requests, Handle(r) \/ HandleFails(r) PROVE AnsweredOnce'
    BY <2>2, HandleAnswersOnce
  <2>3. CASE Crash
    BY <2>3, EndAnswersOnce DEF Crash
  <2>4. CASE Desktop /\ UNCHANGED routeVars
    <3>1. UNCHANGED work
      BY <2>4 DEF Desktop, CreateKey, RevokeKey, UploadEnds
    <3> QED
      BY <2>4, <3>1 DEF routeVars, macVars, phoneVars, AnsweredOnce
  <2>5. CASE (MacRoute \/ Room \/ Phone) /\ UNCHANGED keyVars
    BY <2>5, RoomAnswersOnce, PhoneAnswersOnce
  <2>6. CASE UNCHANGED vars
    BY <2>6 DEF vars, routeVars, keyVars, macVars, phoneVars, AnsweredOnce
  <2> QED
    BY <2>1, <2>2, <2>3, <2>4, <2>5, <2>6 DEF Next
<1> QED
  BY <1>1, <1>2, InvStays, PTL DEF Spec

=============================================================================
