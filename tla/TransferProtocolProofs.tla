------------------------- MODULE TransferProtocolProofs ------------------------
(***************************************************************************)
(* Proofs about the transfer protocol, second part: every step of the Mac  *)
(* keeps ProtocolInv, so it is an invariant, for any number of attempts,   *)
(* any size of the file and of its chunks, and any bound on stops.  On it  *)
(* rest the safety properties, the refinements of UploadContract and of    *)
(* SessionSlot, and the end of the attempts.                               *)
(***************************************************************************)
EXTENDS TransferProtocolPhone

-----------------------------------------------------------------------------
(* The Mac *)

\* The request for a session is decided, or a session begins or ends.
LEMMA Decides ==
  ASSUME ProtocolInv, NEW s \in Sessions, NEW x \in Stages \ {"none"},
         \/ request' = request
         \/ request[s] \notin {"none", "granted"} /\ request' = [request EXCEPT ![s] = x],
         live' \in {live, None, s}, live' = s => up /\ request'[s] \in {"connecting", "granted"},
         live' = s => request[s] # "granted" \/ live = s,
         state' \in States, state' = state \/ state \in {"absent", "transferring"},
         UNCHANGED <<chunks, received, mac, creator, authorized, wires, phone, record>>
  PROVE  ProtocolInv'
<1> USE DEF mac, wires
<1>1. /\ \A t \in Sessions \ {s} : request'[t] = request[t]
      /\ \A t \in Sessions : request[t] \in {"none", "granted"} => request'[t] = request[t]
  BY DEF ProtocolInv, TypeOK
<1>2. TypeOK'
  BY DEF ProtocolInv, TypeOK, PhoneStates, OneOf, Messages, Answers, AuthorizeMessage,
     CompleteMessage, ChunkMessage, ChunkAt, Smaller, Ack, Nack, Ready
<1>3. SuccessMeansReady'
  BY DEF ProtocolInv, SuccessMeansReady
<1>4. StoredIsPrefix'
  BY DEF ProtocolInv, StoredIsPrefix, Aligned, ChunkAt, Smaller
<1>5. SessionsFresh'
  <2>1. ASSUME NEW a \in Attempts PROVE Fresh(a)'
    <3>1. Fresh(a) /\ Session(a)' = Session(a)
      BY DEF ProtocolInv, SessionsFresh, Session
    <3>2. \A i \in {1, 2} : Unused(<<a, i>>) => Unused(<<a, i>>)'
      BY <1>1, SessionPairs DEF Unused, Quiet
    <3> QED
      BY <3>1, <3>2 DEF Fresh, Quiet
  <2> QED
    BY <2>1 DEF SessionsFresh
<1>6. SessionsGranted'
  <2>1. ASSUME NEW a \in Attempts, phone[a].pc \in {"opening"} \union Waiting
        PROVE  request'[Session(a)'] = "granted"
    <3>1. Session(a)' = Session(a) /\ Session(a) \in Sessions
      BY SessionOf DEF ProtocolInv, Session
    <3> QED
      BY <1>1, <2>1, <3>1 DEF ProtocolInv, SessionsGranted
  <2>2. live' # None => up' /\ request'[live'] \in {"connecting", "granted"}
    BY <1>1 DEF ProtocolInv, SessionsGranted, TypeOK
  <2> QED
    BY <2>1, <2>2 DEF SessionsGranted, Waiting
<1>7. Conversations'
  <2>1. received \in Nat
    BY ProtocolConstants DEF ProtocolInv, TypeOK
  <2> QED
    BY <2>1, TalkFrame DEF ProtocolInv, Conversations
<1>8. QueuesOK'
  BY DEF ProtocolInv, QueuesOK, Queued, ChunkMessage, ChunkAt, Smaller, Aligned
<1>9. PositionsOK'
  BY DEF ProtocolInv, PositionsOK, Aligned, Waiting
<1>10. LiveInStep'
  <2>1. ASSUME NEW a \in Attempts, live' = Session(a)' PROVE Together(a)'
    <3>1. Session(a)' = Session(a) /\ Session(a) \in Sessions
      BY SessionOf DEF ProtocolInv, Session
    <3>2. CASE live = Session(a)
      <4>1. Together(a) /\ TypeOK
        BY <3>2 DEF ProtocolInv, LiveInStep
      <4> QED
        BY <3>1, <4>1, TogetherFrame
    <3>3. CASE live # Session(a)
      <4>1. Session(a) = s /\ request[s] # "granted"
        BY <2>1, <3>1, <3>3, ProtocolConstants
      <4>2. phone[a].pc \notin Waiting
        BY <4>1, PhoneKnows
      <4> QED
        BY <4>2 DEF Together, Waiting
    <3> QED
      BY <3>2, <3>3
  <2> QED
    BY <2>1 DEF LiveInStep
<1>11. MacOK'
  <2>1. ~up => live' = None
    BY ProtocolConstants DEF ProtocolInv, MacOK
  <2> QED
    BY <2>1 DEF ProtocolInv, MacOK, CompleteMessage
<1>12. RecordOK'
  BY DEF ProtocolInv, RecordOK, Waiting
<1> QED
  BY <1>2, <1>3, <1>4, <1>5, <1>6, <1>7, <1>8, <1>9, <1>10, <1>11, <1>12 DEF ProtocolInv

\* Every step of the Mac on a request or on its live session.
LEMMA MacDecides ==
  ASSUME ProtocolInv, NEW s \in Sessions,
         \/ CreateUpload(s) \/ CheckResume(s) \/ RefuseRequest(s) \/ StartSession(s) \/ Grant(s)
         \/ SessionFails(s) \/ PeerEnds(s)
  PROVE  ProtocolInv'
<1> USE DEF library, mac, control, receiver, wires
<1>1. /\ live # None => up /\ request[live] \in {"connecting", "granted"}
      /\ state \in States /\ request \in [Sessions -> Stages] /\ None \notin Sessions
  BY ProtocolConstants DEF ProtocolInv, SessionsGranted, TypeOK
<1>2. CASE CreateUpload(s)
  <2>1. /\ "checked" \in Stages \ {"none"} /\ request[s] \notin {"none", "granted"}
        /\ request' = [request EXCEPT ![s] = "checked"] /\ request'[s] = "checked"
    BY <1>1, <1>2 DEF CreateUpload, Stages
  <2>2. /\ live' \in {live, None, s} /\ (live' = s => up /\ "checked" \in {"connecting", "granted"})
        /\ state' \in States /\ (state' = state \/ state \in {"absent", "transferring"})
        /\ UNCHANGED <<chunks, received, mac, creator, authorized, wires, phone, record>>
    BY <1>1, <1>2 DEF CreateUpload, States
  <2> QED
    BY <2>1, <2>2, Decides
<1>3. CASE CheckResume(s)
  <2>1. /\ "checked" \in Stages \ {"none"} /\ request[s] \notin {"none", "granted"}
        /\ request' = [request EXCEPT ![s] = "checked"] /\ request'[s] = "checked"
    BY <1>1, <1>3 DEF CheckResume, Stages
  <2>2. /\ live' \in {live, None, s} /\ (live' = s => up /\ "checked" \in {"connecting", "granted"})
        /\ state' \in States /\ (state' = state \/ state \in {"absent", "transferring"})
        /\ UNCHANGED <<chunks, received, mac, creator, authorized, wires, phone, record>>
    BY <1>1, <1>3 DEF CheckResume, States
  <2> QED
    BY <2>1, <2>2, Decides
<1>4. CASE RefuseRequest(s)
  <2>1. /\ "refused" \in Stages \ {"none"} /\ request[s] \notin {"none", "granted"}
        /\ request' = [request EXCEPT ![s] = "refused"] /\ request'[s] = "refused"
    BY <1>1, <1>4 DEF RefuseRequest, Stages
  <2>2. /\ live' \in {live, None, s} /\ (live' = s => up /\ "refused" \in {"connecting", "granted"})
        /\ state' \in States /\ (state' = state \/ state \in {"absent", "transferring"})
        /\ UNCHANGED <<chunks, received, mac, creator, authorized, wires, phone, record>>
    BY <1>1, <1>4 DEF RefuseRequest, States
  <2> QED
    BY <2>1, <2>2, Decides
<1>5. CASE StartSession(s)
  <2>1. /\ "connecting" \in Stages \ {"none"} /\ request[s] \notin {"none", "granted"}
        /\ request' = [request EXCEPT ![s] = "connecting"] /\ request'[s] = "connecting"
    BY <1>1, <1>5 DEF StartSession, Stages
  <2>2. /\ live' \in {live, None, s} /\ (live' = s => up /\ "connecting" \in {"connecting", "granted"})
        /\ state' \in States /\ (state' = state \/ state \in {"absent", "transferring"})
        /\ UNCHANGED <<chunks, received, mac, creator, authorized, wires, phone, record>>
    BY <1>1, <1>5 DEF StartSession, States
  <2> QED
    BY <2>1, <2>2, Decides
<1>6. CASE Grant(s)
  <2>1. /\ "granted" \in Stages \ {"none"} /\ request[s] \notin {"none", "granted"}
        /\ request' = [request EXCEPT ![s] = "granted"] /\ request'[s] = "granted"
    BY <1>1, <1>6 DEF Grant, Stages
  <2>2. /\ live' \in {live, None, s} /\ (live' = s => up /\ "granted" \in {"connecting", "granted"})
        /\ state' \in States /\ (state' = state \/ state \in {"absent", "transferring"})
        /\ UNCHANGED <<chunks, received, mac, creator, authorized, wires, phone, record>>
    BY <1>1, <1>6 DEF Grant, States
  <2> QED
    BY <2>1, <2>2, Decides
<1>7. CASE SessionFails(s)
  <2>1. /\ "refused" \in Stages \ {"none"} /\ request[s] \notin {"none", "granted"}
        /\ request' = [request EXCEPT ![s] = "refused"] /\ request'[s] = "refused"
    BY <1>1, <1>7 DEF SessionFails, Stages
  <2>2. /\ live' \in {live, None, s} /\ (live' = s => up /\ "refused" \in {"connecting", "granted"})
        /\ state' \in States /\ (state' = state \/ state \in {"absent", "transferring"})
        /\ UNCHANGED <<chunks, received, mac, creator, authorized, wires, phone, record>>
    BY <1>1, <1>7 DEF SessionFails, States
  <2> QED
    BY <2>1, <2>2, Decides
<1>8. CASE PeerEnds(s)
  BY <1>1, <1>8, Decides DEF PeerEnds, States, Stages
<1> QED
  BY <1>2, <1>3, <1>4, <1>5, <1>6, <1>7, <1>8

\* A message is worked off: the library moves by the chunk that it carries at most, and
\* the answer, if it is sent, is one that its phone may hear.
LEMMA WorksOff ==
  ASSUME ProtocolInv, NEW s \in Sessions, work[s] # <<>>, work' = [work EXCEPT ![s] = <<>>],
         NEW m \in Answers,
         \/ toPhone' = toPhone
         \/ /\ Connected(s) /\ toPhone' = [toPhone EXCEPT ![s] = <<m>>] /\ MayHear(s[1], m)'
            /\ \A n \in 0 .. FileSize :
                 phone[s[1]].pc = "authorizing" /\ m = Ack(n) => s \in authorized' /\ n = received,
         received' \in 0 .. FileSize, StoredIsPrefix',
         \/ received' = received
         \/ \E q \in 0 .. FileSize - 1 : Queued(s, q) /\ q = received /\ received' = After(q),
         state' \in States, state = "ready" => state' = "ready",
         worker' \in {worker, None}, worker' # None => state' = state /\ worker' # s,
         authorized \subseteq authorized', authorized' \subseteq Sessions,
         UNCHANGED <<up, stops, control, live, phone, record>>
  PROVE  ProtocolInv'
<1> USE DEF control
<1>1. /\ TypeOK /\ received \in 0 .. FileSize /\ FileSize \in Nat /\ received <= received'
      /\ s \in Sessions /\ s = <<s[1], s[2]>> /\ s[1] \in Attempts /\ s[2] \in {1, 2}
  <2>1. /\ TypeOK /\ received \in 0 .. FileSize /\ FileSize \in Nat
        /\ s \in Sessions /\ s = <<s[1], s[2]>> /\ s[1] \in Attempts /\ s[2] \in {1, 2}
    BY SessionPairs, ProtocolConstants DEF ProtocolInv, TypeOK
  <2>2. \A q \in 0 .. FileSize - 1 : Queued(s, q) => q < After(q)
    BY <2>1, Positions DEF ProtocolInv, QueuesOK
  <2> QED
    BY <2>1, <2>2
<1>2. /\ \A t \in Sessions : work'[t] \in {work[t], <<>>}
      /\ \A a \in Attempts, i \in {1, 2} : work'[<<a, i>>] \in {work[<<a, i>>], <<>>}
      /\ work'[s] = <<>> /\ toPhone[s] = <<>> /\ \A t \in Sessions \ {s} : work'[t] = work[t]
  BY <1>1, Wires, SessionPairs DEF TypeOK
<1>3. /\ \A t \in Sessions \ {s} : toPhone'[t] = toPhone[t]
      /\ toPhone'[s] # <<>> => toPhone'[s] = <<m>> /\ Connected(s) /\ MayHear(s[1], m)'
  BY <1>1, <1>2 DEF TypeOK
<1>4. Connected(s) => Session(s[1]) = s /\ phone[s[1]].pc \in Waiting
  BY DEF Connected
<1>5. TypeOK'
  <2>1. work' \in [Sessions -> OneOf(Messages)] /\ toPhone' \in [Sessions -> OneOf(Answers)]
    BY <1>1 DEF TypeOK, OneOf
  <2>2. \A t \in Sessions : work'[t] = <<>> \/ toPhone'[t] = <<>>
    BY <1>1, <1>2, <1>3 DEF TypeOK
  <2>3. chunks' \subseteq {ChunkAt(p) : p \in 0 .. FileSize - 1}
    BY <1>1 DEF StoredIsPrefix, ChunkAt, Smaller, Aligned
  <2> QED
    BY <1>1, <2>1, <2>2, <2>3 DEF TypeOK, PhoneStates, OneOf, Messages, Answers, AuthorizeMessage,
       CompleteMessage, ChunkMessage, ChunkAt, Smaller, Ack, Nack, Ready
<1>6. SuccessMeansReady'
  BY DEF ProtocolInv, SuccessMeansReady
<1>7. SessionsFresh'
  <2>1. ASSUME NEW a \in Attempts, \A i \in {1, 2} : toPhone[<<a, i>>] = <<>> => toPhone'[<<a, i>>] = <<>>
        PROVE  Fresh(a)'
    BY <1>1, <1>2, <2>1, FreshFrame DEF ProtocolInv, SessionsFresh
  <2>2. ASSUME NEW a \in Attempts, a = s[1], Connected(s) PROVE Fresh(a)'
    <3>1. /\ Fresh(a) /\ phone[a].pc \in Waiting /\ Session(a) = s /\ phone[a].round = s[2]
          /\ phone'[a] = phone[a]
      BY <1>1, <1>4, <2>2 DEF ProtocolInv, SessionsFresh, Session
    <3>2. phone[a].round = 1 => Unused(<<a, 2>>)'
      <4>1. phone[a].round = 1 => Unused(<<a, 2>>) /\ <<a, 2>> # s /\ <<a, 2>> \in Sessions
        BY <1>1, <3>1, SessionPairs DEF Fresh, Active
      <4> QED
        BY <1>2, <1>3, <4>1 DEF Unused, Quiet
    <3> QED
      BY <3>1, <3>2 DEF Fresh, Active, Waiting
  <2>3. \A a \in Attempts, i \in {1, 2} :
          toPhone[<<a, i>>] = <<>> /\ toPhone'[<<a, i>>] # <<>> => a = s[1] /\ Connected(s)
    BY <1>1, <1>3, SessionPairs
  <2> QED
    BY <2>1, <2>2, <2>3 DEF SessionsFresh
<1>8. SessionsGranted'
  BY DEF ProtocolInv, SessionsGranted, Session, Waiting
<1>9. Conversations'
  <2>1. ASSUME NEW a \in Attempts, \A i \in {1, 2} : toPhone'[<<a, i>>] \in {toPhone[<<a, i>>], <<>>}
        PROVE  Talk(a)'
    BY <1>1, <1>2, <2>1, TalkFrame DEF ProtocolInv, Conversations
  <2>2. ASSUME NEW a \in Attempts, a = s[1], Connected(s), toPhone'[s] = <<m>> PROVE Talk(a)'
    <3>1. /\ Talk(a) /\ phone[a].pc \in Waiting /\ Session(a) = s /\ phone[a].round = s[2]
          /\ phone'[a] = phone[a] /\ Session(a)' = Session(a)
      BY <1>1, <1>4, <2>2 DEF ProtocolInv, Conversations, Session
    <3>2. \A i \in {1, 2} : toPhone'[<<a, i>>] # <<>> => phone[a].round = i
      BY <1>1, <1>3, <3>1, SessionPairs DEF Talk
    <3>3. \A n : toPhone'[s] = <<n>> => n = m
      BY <2>2, OneMessage
    <3>4. MayHear(a, m)'
      BY <1>3, <2>2, OneMessage
    <3> QED
      BY <1>2, <3>1, <3>2, <3>3, <3>4 DEF Talk, Waiting
  <2>3. \A a \in Attempts, i \in {1, 2} :
          toPhone'[<<a, i>>] \in {toPhone[<<a, i>>], <<>>} \/ (a = s[1] /\ Connected(s) /\ toPhone'[s] = <<m>>)
    BY <1>1, <1>3, SessionPairs
  <2> QED
    BY <2>1, <2>2, <2>3 DEF Conversations
<1>10. \A t \in Sessions : \A q : Queued(t, q)' => Queued(t, q)
  BY <1>2, OneMessage DEF Queued, ChunkMessage, ChunkAt, Smaller
<1>11. QueuesOK'
  BY <1>1, <1>10 DEF ProtocolInv, QueuesOK, Aligned
<1>12. PositionsOK'
  BY <1>1 DEF ProtocolInv, PositionsOK, TypeOK, PhoneStates, Aligned, Waiting
<1>13. LiveInStep'
  <2>1. ASSUME NEW t \in Sessions, NEW p \in 0 .. FileSize, Aligned(p), InStep(t, p),
               t = s => \A q \in 0 .. FileSize - 1 : Queued(s, q) => q = p
        PROVE  InStep(t, p)'
    <3>1. received' \in {p, After(p)}
      <4>1. \A q \in 0 .. FileSize - 1 : Queued(s, q) => q <= p
        BY <2>1 DEF InStep
      <4>2. p < FileSize => p < After(p)
        BY <2>1, Positions
      <4>3. p = FileSize => After(p) = p
        BY <2>1, Positions
      <4>4. received \in {p, After(p)}
        BY <2>1 DEF InStep
      <4> QED
        BY <1>1, <2>1, <4>1, <4>2, <4>3, <4>4
    <3>2. After(p)' = After(p)
      BY DEF After, ChunkAt, Smaller
    <3> QED
      BY <1>10, <2>1, <3>1, <3>2 DEF InStep
  <2>2. ASSUME NEW a \in Attempts, live' = Session(a)' PROVE Together(a)'
    <3>1. /\ Session(a)' = Session(a) /\ Session(a) \in Sessions /\ live = Session(a)
          /\ phone'[a] = phone[a] /\ phone[a].pos \in 0 .. FileSize
      BY <1>1, <2>2, SessionOf, PhoneKnows DEF Session
    <3>2. Together(a) /\ Talk(a)
      BY <3>1 DEF ProtocolInv, LiveInStep, Conversations
    <3>3. PICK t \in Sessions, p \in 0 .. FileSize : t = Session(a) /\ p = phone[a].pos
      BY <3>1
    <3>4. t = s /\ phone[a].pc \in Waiting =>
            \A q \in 0 .. FileSize - 1 : Queued(s, q) => ChunkMessage(q) = Said(a)
      BY <3>2, <3>3, OneMessage DEF Queued, Talk
    <3>5. ASSUME phone[a].pc = "sending" PROVE InStep(t, p)'
      <4>1. Aligned(p) /\ InStep(t, p)
        BY <3>2, <3>3, <3>5 DEF Together, ProtocolInv, PositionsOK
      <4>2. t = s => \A q \in 0 .. FileSize - 1 : Queued(s, q) => q = p
        <5> SUFFICES ASSUME t = s, NEW q \in 0 .. FileSize - 1, Queued(s, q) PROVE q = p
          OBVIOUS
        <5>1. ChunkMessage(q) = ChunkMessage(p)
          BY <3>3, <3>4, <3>5 DEF Said, ToSay, Waiting
        <5>2. ChunkMessage(q).chunk.offset = q /\ ChunkMessage(p).chunk.offset = p
          BY Kinds
        <5> QED
          BY <5>1, <5>2
      <4> QED
        BY <2>1, <4>1, <4>2
    <3>6. ASSUME phone[a].pc = "authorizing", NEW n \in 0 .. FileSize, toPhone'[t] = <<Ack(n)>>
          PROVE  InStep(t, n)'
      <4>1. CASE t # s
        <5>1. toPhone[t] = <<Ack(n)>>
          BY <1>3, <3>6, <4>1
        <5>2. InStep(t, n)
          BY <3>2, <3>3, <3>6, <5>1 DEF Together
        <5>3. MayHear(a, Ack(n))
          BY <3>2, <3>3, <3>6, <5>1 DEF Talk, Waiting, Answers
        <5>4. Aligned(n)
          BY <3>6, <5>3, AckIsExpected
        <5> QED
          BY <2>1, <4>1, <5>2, <5>4
      <4>2. CASE t = s
        <5>1. m = Ack(n) /\ s[1] = a
          <6>1. toPhone'[s] = <<Ack(n)>> /\ toPhone'[s] # <<>>
            BY <3>6, <4>2, OneMessage
          <6>2. <<Ack(n)>> = <<m>>
            BY <1>3, <6>1
          <6>3. s = <<a, phone[a].round>>
            BY <3>3, <4>2 DEF Session
          <6> QED
            BY <6>2, <6>3, OneMessage
        <5>2. toPhone' # toPhone
          BY <1>2, <3>6, <4>2, OneMessage
        <5>3. s \in authorized' /\ n = received
          BY <3>6, <5>1, <5>2
        <5>4. \A q \in 0 .. FileSize - 1 : ~Queued(s, q)
          BY <3>4, <3>6, <4>2, Kinds DEF Said, ToSay, Waiting
        <5>5. received' = n
          BY <5>3, <5>4
        <5>6. \A u \in Sessions \ {s} : \A q \in 0 .. FileSize - 1 : Queued(u, q) => q <= n
          BY <5>3 DEF ProtocolInv, QueuesOK
        <5> QED
          BY <1>10, <4>2, <5>3, <5>5, <5>6 DEF InStep
      <4> QED
        BY <4>1, <4>2
    <3>7. phone'[a].pc = phone[a].pc /\ Session(a)' = t /\ phone'[a].pos = p
      BY <3>1, <3>3
    <3>8. phone'[a].pc = "sending" => InStep(Session(a), phone[a].pos)'
      BY <3>5, <3>7 DEF InStep, After, ChunkAt, Smaller, Queued, ChunkMessage
    <3>9. ASSUME phone'[a].pc = "authorizing", NEW n \in 0 .. FileSize, toPhone'[Session(a)'] = <<Ack(n)>>
          PROVE  InStep(Session(a), n)'
      <4>1. InStep(t, n)'
        BY <3>6, <3>7, <3>9
      <4> QED
        BY <3>7, <4>1 DEF InStep
    <3> QED
      BY <3>8, <3>9 DEF Together, Ack
  <2> QED
    BY <2>2 DEF LiveInStep
<1>14. MacOK'
  BY <1>2, ProtocolConstants DEF ProtocolInv, MacOK, CompleteMessage, TypeOK
<1>15. RecordOK'
  BY <1>1, <1>2, <1>10 DEF ProtocolInv, RecordOK, Waiting
<1> QED
  BY <1>5, <1>6, <1>7, <1>8, <1>9, <1>11, <1>12, <1>13, <1>14, <1>15 DEF ProtocolInv

\* The phone that is connected waits for the answer to the message that is worked off.
LEMMA TurnOf ==
  ASSUME ProtocolInv, NEW s \in Sessions, work[s] # <<>>, Connected(s)
  PROVE  /\ s[1] \in Attempts /\ live = s /\ Session(s[1]) = s /\ phone[s[1]].pc \in Waiting
         /\ Head(work[s]).kind = "authorize" => phone[s[1]].pc = "authorizing"
         /\ Head(work[s]).kind = "complete" => phone[s[1]].pc = "completing"
         /\ \A q : Head(work[s]) = ChunkMessage(q) => phone[s[1]].pc = "sending" /\ phone[s[1]].pos = q
<1>1. s[1] \in Attempts /\ live = s /\ Session(s[1]) = s /\ phone[s[1]].pc \in Waiting
  BY SessionPairs DEF Connected
<1>2. work[s] = <<Said(s[1])>>
  BY <1>1 DEF ProtocolInv, Conversations, Talk
<1>3. Head(work[s]) = Said(s[1])
  BY <1>2, OneMessage
<1>4. Said(s[1]).kind = "authorize" => phone[s[1]].pc = "authorizing"
  BY <1>1, Kinds DEF Said, ToSay
<1>5. Said(s[1]).kind = "complete" => phone[s[1]].pc = "completing"
  BY <1>1, Kinds DEF Said, ToSay, Waiting
<1>6. ASSUME NEW q, Said(s[1]) = ChunkMessage(q)
      PROVE  phone[s[1]].pc = "sending" /\ phone[s[1]].pos = q
  <2>1. Said(s[1]).kind = "chunk" /\ Said(s[1]).chunk.offset = q
    BY <1>6, Kinds
  <2>2. Said(s[1]) = ChunkMessage(phone[s[1]].pos) /\ phone[s[1]].pc = "sending"
    BY <2>1, Kinds DEF Said, ToSay
  <2> QED
    BY <2>1, <2>2, Kinds
<1> QED
  BY <1>1, <1>3, <1>4, <1>5, <1>6

\* The library is left alone, and the phone hears nothing or that something failed.
LEMMA Dismisses ==
  ASSUME ProtocolInv, NEW s \in Sessions, work[s] # <<>>, Answer(s, Nack) \/ NoAnswer(s),
         state' \in States, state = "ready" => state' = "ready",
         worker' \in {worker, None}, worker' # None => state' = state /\ worker' # s,
         UNCHANGED <<chunks, received, up, stops, control, receiver, phone, record>>
  PROVE  ProtocolInv'
<1>1. /\ work' = [work EXCEPT ![s] = <<>>]
      /\ toPhone' = toPhone \/ (Connected(s) /\ toPhone' = [toPhone EXCEPT ![s] = <<Nack>>])
  BY Takings DEF ProtocolInv
<1>2. Nack \in Answers /\ \A n : Nack # Ack(n)
  BY Kinds DEF Answers
<1>3. MayHear(s[1], Nack)'
  BY DEF MayHear, Nack
<1>4. received' \in 0 .. FileSize /\ received' = received /\ StoredIsPrefix'
  BY DEF ProtocolInv, TypeOK, StoredIsPrefix, ChunkAt, Smaller, Aligned
<1>5. authorized \subseteq authorized' /\ authorized' \subseteq Sessions /\ UNCHANGED live
  BY DEF ProtocolInv, TypeOK, receiver
<1> QED
  BY <1>1, <1>2, <1>3, <1>4, <1>5, WorksOff

\* Every step of the Mac that refuses or drops a message, or fails to settle the upload.
LEMMA MacDismisses ==
  ASSUME ProtocolInv, NEW s \in Sessions,
         \/ RejectAuthorization(s) \/ RefuseChunk(s) \/ AnswerComplete(s) \/ CommitThrows(s)
         \/ Settle(s) /\ Answer(s, Nack)
  PROVE  ProtocolInv'
<1> USE DEF library, mac
<1>1. /\ state \in States
      /\ worker # None => Head(work[worker]).kind = "complete" /\ work[worker] # <<>> /\ state = "settling"
  BY OneMessage, Kinds DEF ProtocolInv, TypeOK, MacOK
<1>2. CASE RejectAuthorization(s) \/ RefuseChunk(s) \/ AnswerComplete(s)
  <2>1. /\ work[s] # <<>> /\ (Answer(s, Nack) \/ NoAnswer(s))
        /\ UNCHANGED <<chunks, received, up, stops, control, receiver, phone, record, state, worker>>
    BY <1>2 DEF RejectAuthorization, RefuseChunk, AnswerComplete, Takes
  <2>2. worker # None => worker # s
    BY <1>1, <1>2 DEF RejectAuthorization, RefuseChunk, AnswerComplete, Takes, LaneFree
  <2>3. /\ state' \in States /\ (state = "ready" => state' = "ready")
        /\ worker' \in {worker, None} /\ (worker' # None => state' = state /\ worker' # s)
    BY <1>1, <2>1, <2>2
  <2> QED
    BY <2>1, <2>3, Dismisses
<1>3. CASE CommitThrows(s) \/ (Settle(s) /\ Answer(s, Nack))
  <2>1. worker = s /\ s # None
    BY <1>3, ProtocolConstants DEF CommitThrows, Settle
  <2>2. /\ work[s] # <<>> /\ (Answer(s, Nack) \/ NoAnswer(s)) /\ state # "ready"
        /\ state' \in States /\ worker' = None
        /\ UNCHANGED <<chunks, received, up, stops, control, receiver, phone, record>>
    BY <1>1, <1>3, <2>1 DEF CommitThrows, Settle, States, ProtocolInv, TypeOK
  <2> QED
    BY <2>2, Dismisses
<1> QED
  BY <1>2, <1>3

\* The phone is authorized, and told how far the library is.
LEMMA MacAuthorizes ==
  ASSUME ProtocolInv, NEW s \in Sessions, Authorize(s)
  PROVE  ProtocolInv'
<1> USE DEF library, mac
<1>1. /\ work[s] # <<>> /\ Head(work[s]).kind = "authorize" /\ Answer(s, Ack(received))
      /\ authorized' = authorized \union {s}
      /\ UNCHANGED <<state, chunks, received, worker, up, stops, control, live, phone, record>>
  BY DEF Authorize, Takes
<1>2. PICK n \in 0 .. FileSize : n = received
  BY DEF ProtocolInv, TypeOK
<1>3. /\ work' = [work EXCEPT ![s] = <<>>]
      /\ toPhone' = toPhone \/ (Connected(s) /\ toPhone' = [toPhone EXCEPT ![s] = <<Ack(n)>>])
  BY <1>1, <1>2, Takings DEF ProtocolInv
<1>4. Ack(n) \in Answers /\ \A i : Ack(n) = Ack(i) => n = i
  BY Kinds DEF Answers
<1>5. Connected(s) => MayHear(s[1], Ack(n))'
  <2> SUFFICES ASSUME Connected(s) PROVE MayHear(s[1], Ack(n))'
    OBVIOUS
  <2>1. phone'[s[1]].pc = "authorizing"
    BY <1>1, TurnOf
  <2>2. n \in 0 .. received' /\ Aligned(n)'
    BY <1>1, <1>2 DEF ProtocolInv, StoredIsPrefix, Aligned
  <2> QED
    BY <2>1, <2>2 DEF MayHear, Ack
<1>6. received' \in 0 .. FileSize /\ received' = received /\ StoredIsPrefix'
  BY <1>1 DEF ProtocolInv, TypeOK, StoredIsPrefix, ChunkAt, Smaller, Aligned
<1>7. /\ authorized \subseteq authorized' /\ authorized' \subseteq Sessions /\ s \in authorized'
      /\ state' \in States /\ (state = "ready" => state' = "ready") /\ worker' \in {worker, None}
  BY <1>1 DEF ProtocolInv, TypeOK
<1>8. worker' # None => state' = state /\ worker' # s
  <2>1. worker # None => Head(work[worker]).kind = "complete"
    BY OneMessage, Kinds DEF ProtocolInv, MacOK
  <2> QED
    BY <1>1, <2>1
<1>9. \A i \in 0 .. FileSize :
        phone[s[1]].pc = "authorizing" /\ Ack(n) = Ack(i) => s \in authorized' /\ i = received
  BY <1>2, <1>4, <1>7
<1> QED
  BY <1>1, <1>3, <1>4, <1>5, <1>6, <1>7, <1>8, <1>9, WorksOff

\* The material is ready, and the phone may hear so.
LEMMA MacSettles ==
  ASSUME ProtocolInv, NEW s \in Sessions, Settle(s), state' = "ready", Answer(s, Ready)
  PROVE  ProtocolInv'
<1> USE DEF library, mac
<1>1. /\ worker = s /\ worker' = None /\ state = "settling" /\ work[s] # <<>>
      /\ Head(work[s]).kind = "complete"
      /\ UNCHANGED <<chunks, received, up, stops, control, receiver, phone, record>>
  BY OneMessage, Kinds, ProtocolConstants DEF Settle, ProtocolInv, MacOK
<1>2. /\ work' = [work EXCEPT ![s] = <<>>]
      /\ toPhone' = toPhone \/ (Connected(s) /\ toPhone' = [toPhone EXCEPT ![s] = <<Ready>>])
  BY <1>1, Takings DEF ProtocolInv
<1>3. Ready \in Answers /\ \A i : Ready # Ack(i)
  BY Kinds DEF Answers
<1>4. Connected(s) => MayHear(s[1], Ready)'
  <2> SUFFICES ASSUME Connected(s) PROVE MayHear(s[1], Ready)'
    OBVIOUS
  <2>1. phone'[s[1]].pc = "completing"
    BY <1>1, TurnOf
  <2> QED
    BY <2>1 DEF MayHear, Ready
<1>5. received' \in 0 .. FileSize /\ received' = received /\ StoredIsPrefix'
  BY <1>1 DEF ProtocolInv, TypeOK, StoredIsPrefix, ChunkAt, Smaller, Aligned
<1>6. authorized \subseteq authorized' /\ authorized' \subseteq Sessions /\ UNCHANGED live
  BY <1>1 DEF ProtocolInv, TypeOK, receiver
<1>7. /\ state' \in States /\ (state = "ready" => state' = "ready")
      /\ worker' \in {worker, None} /\ (worker' # None => state' = state /\ worker' # s)
  BY <1>1 DEF States
<1> QED
  BY <1>1, <1>2, <1>3, <1>4, <1>5, <1>6, <1>7, WorksOff

\* A chunk in the queue fits onto what the library has.
LEMMA QueuedChunk ==
  ASSUME ProtocolInv, NEW s \in Sessions, work[s] # <<>>, Head(work[s]).kind = "chunk"
  PROVE  \E q \in 0 .. FileSize - 1 :
           /\ Head(work[s]) = ChunkMessage(q) /\ Head(work[s]).chunk = ChunkAt(q) /\ Queued(s, q)
           /\ Aligned(q) /\ q <= received /\ s \in authorized
<1>1. work[s] = <<Head(work[s])>> /\ Head(work[s]) \in Messages
  BY Takings DEF ProtocolInv
<1>2. PICK q \in 0 .. FileSize - 1 : Head(work[s]) = ChunkMessage(q)
  BY <1>1, Kinds DEF Messages
<1>3. Queued(s, q)
  BY <1>1, <1>2 DEF Queued
<1> QED
  BY <1>2, <1>3, Kinds DEF ProtocolInv, QueuesOK

\* The library stores a chunk, and acknowledges the position after it, or is silent.
LEMMA MacStores ==
  ASSUME ProtocolInv, NEW s \in Sessions, work[s] # <<>>, Head(work[s]).kind = "chunk",
         worker = None, Persist(Head(work[s]).chunk), Answer(s, Ack(received')) \/ NoAnswer(s),
         UNCHANGED <<state, mac, control, receiver, phone, record>>
  PROVE  ProtocolInv'
<1> USE DEF library, mac
<1>1. PICK q \in 0 .. FileSize - 1 :
        /\ Head(work[s]) = ChunkMessage(q) /\ Head(work[s]).chunk = ChunkAt(q) /\ Queued(s, q)
        /\ Aligned(q) /\ q <= received /\ s \in authorized
  BY QueuedChunk
<1>2. received \in 0 .. FileSize /\ StoredIsPrefix /\ FileSize \in Nat
  BY ProtocolConstants DEF ProtocolInv, TypeOK
<1>3. /\ received' = IF q = received THEN After(q) ELSE received
      /\ received' \in 0 .. FileSize /\ StoredIsPrefix'
  BY <1>1, <1>2, PersistKeepsPrefix
<1>4. PICK n \in 0 .. FileSize : n = received'
  BY <1>3
<1>5. /\ work' = [work EXCEPT ![s] = <<>>]
      /\ toPhone' = toPhone \/ (Connected(s) /\ toPhone' = [toPhone EXCEPT ![s] = <<Ack(n)>>])
  BY <1>4, Takings DEF ProtocolInv, Ack
<1>6. Ack(n) \in Answers /\ \A i : Ack(n) = Ack(i) => n = i
  BY Kinds DEF Answers
<1>7. Connected(s) => phone[s[1]].pc = "sending" /\ MayHear(s[1], Ack(n))'
  <2> SUFFICES ASSUME Connected(s) PROVE phone[s[1]].pc = "sending" /\ MayHear(s[1], Ack(n))'
    OBVIOUS
  <2>1. /\ s[1] \in Attempts /\ live = s /\ Session(s[1]) = s
        /\ phone[s[1]].pc = "sending" /\ phone[s[1]].pos = q
    BY <1>1, TurnOf
  <2>2. InStep(s, q)
    BY <2>1 DEF ProtocolInv, LiveInStep, Together
  <2>3. n = After(q)
    BY <1>3, <1>4, <2>2 DEF InStep
  <2> QED
    BY <1>2, <1>4, <2>1, <2>3 DEF MayHear, Ack, After, ChunkAt, Smaller
<1>8. \/ received' = received
      \/ \E p \in 0 .. FileSize - 1 : Queued(s, p) /\ p = received /\ received' = After(p)
  BY <1>1, <1>3
<1>9. /\ state' \in States /\ (state = "ready" => state' = "ready") /\ worker' = None
      /\ authorized \subseteq authorized' /\ authorized' \subseteq Sessions
      /\ UNCHANGED <<up, stops, control, live, phone, record>>
  BY DEF ProtocolInv, TypeOK, receiver
<1>10. \A i \in 0 .. FileSize :
         Connected(s) /\ phone[s[1]].pc = "authorizing" /\ Ack(n) = Ack(i) => s \in authorized' /\ i = received
  BY <1>7
<1> QED
  BY <1>3, <1>5, <1>6, <1>7, <1>8, <1>9, <1>10, WorksOff

\* A chunk is stored, or its storing fails before or after its row.
LEMMA MacAppends ==
  ASSUME ProtocolInv, NEW s \in Sessions, AppendChunk(s) \/ AppendFails(s)
  PROVE  ProtocolInv'
<1> USE DEF library, mac
<1>1. /\ work[s] # <<>> /\ Head(work[s]).kind = "chunk" /\ worker = None
      /\ UNCHANGED <<state, mac, control, receiver, phone, record>>
  BY DEF AppendChunk, AppendFails, Takes, LaneFree
<1>2. CASE AppendChunk(s) \/ (NoAnswer(s) /\ Persist(Head(work[s]).chunk))
  BY <1>1, <1>2, MacStores DEF AppendChunk
<1>3. CASE UNCHANGED <<chunks, received>> /\ (Answer(s, Nack) \/ NoAnswer(s))
  <2>1. /\ state' \in States /\ (state = "ready" => state' = "ready")
        /\ worker' \in {worker, None} /\ worker' = None
    BY <1>1 DEF ProtocolInv, TypeOK
  <2> QED
    BY <1>1, <1>3, <2>1, Dismisses
<1> QED
  BY <1>2, <1>3 DEF AppendChunk, AppendFails

\* The completion begins: nothing more is stored from here.
LEMMA MacBegins ==
  ASSUME ProtocolInv, NEW s \in Sessions, BeginComplete(s)
  PROVE  ProtocolInv'
<1> USE DEF library, mac, control, receiver, wires
<1>1. /\ work[s] # <<>> /\ Head(work[s]).kind = "complete" /\ up /\ state = "transferring"
      /\ state' = "settling" /\ worker' = s
      /\ UNCHANGED <<chunks, received, up, stops, control, receiver, wires, phone, record>>
  BY DEF BeginComplete, Takes
<1>2. work[s] = <<CompleteMessage>>
  <2>1. work[s] = <<Head(work[s])>> /\ Head(work[s]) \in Messages
    BY <1>1, Takings DEF ProtocolInv
  <2> QED
    BY <1>1, <2>1, Kinds DEF Messages
<1>3. TypeOK'
  BY <1>1 DEF ProtocolInv, TypeOK, States, PhoneStates, OneOf, Messages, Answers, AuthorizeMessage,
     CompleteMessage, ChunkMessage, ChunkAt, Smaller, Ack, Nack, Ready
<1>4. SuccessMeansReady'
  BY <1>1 DEF ProtocolInv, SuccessMeansReady
<1>5. StoredIsPrefix'
  BY <1>1 DEF ProtocolInv, StoredIsPrefix, Aligned, ChunkAt, Smaller
<1>6. SessionsFresh'
  BY <1>1, FreshFrame, SessionPairs DEF ProtocolInv, SessionsFresh
<1>7. SessionsGranted'
  BY <1>1 DEF ProtocolInv, SessionsGranted, Session, Waiting
<1>8. Conversations'
  <2>1. received \in Nat
    BY ProtocolConstants DEF ProtocolInv, TypeOK
  <2> QED
    BY <1>1, <2>1, TalkFrame DEF ProtocolInv, Conversations
<1>9. QueuesOK'
  BY <1>1 DEF ProtocolInv, QueuesOK, Queued, ChunkMessage, ChunkAt, Smaller, Aligned
<1>10. PositionsOK'
  BY <1>1 DEF ProtocolInv, PositionsOK, Aligned, Waiting
<1>11. LiveInStep'
  <2>1. ASSUME NEW a \in Attempts, live' = Session(a)' PROVE Together(a)'
    <3>1. Session(a)' = Session(a) /\ Session(a) \in Sessions /\ live = Session(a)
      BY <1>1, <2>1, SessionOf DEF ProtocolInv, Session
    <3>2. Together(a) /\ TypeOK
      BY <3>1 DEF ProtocolInv, LiveInStep
    <3> QED
      BY <1>1, <3>1, <3>2, TogetherFrame
  <2> QED
    BY <2>1 DEF LiveInStep
<1>12. MacOK'
  BY <1>1, <1>2 DEF ProtocolInv, MacOK, CompleteMessage
<1>13. RecordOK'
  BY <1>1, <1>2, OneMessage DEF ProtocolInv, RecordOK, Waiting
<1> QED
  BY <1>3, <1>4, <1>5, <1>6, <1>7, <1>8, <1>9, <1>10, <1>11, <1>12, <1>13 DEF ProtocolInv

-----------------------------------------------------------------------------
(* The server stops and starts *)

\* The sessions and their queues end with the server; the library stays.
LEMMA ServerStops ==
  ASSUME ProtocolInv, Stop
  PROVE  ProtocolInv'
<1> USE DEF library
<1>1. /\ up /\ up' = FALSE /\ stops < MaxStops /\ stops' = stops + 1
      /\ worker' = None /\ live' = None /\ authorized' = {}
      /\ work' = [s \in Sessions |-> <<>>]
      /\ request' = [s \in Sessions |->
                       IF request[s] \in {"asked", "checked", "connecting"} THEN "refused"
                       ELSE request[s]]
      /\ UNCHANGED <<library, creator, toPhone, phone, record>>
  BY DEF Stop
<1>2. /\ \A s \in Sessions : request[s] \in {"none", "granted"} => request'[s] = request[s]
      /\ \A s \in Sessions : work'[s] = <<>>
      /\ request' \in [Sessions -> Stages]
  BY <1>1 DEF ProtocolInv, TypeOK, Stages
<1>3. TypeOK'
  <2>1. stops' \in 0 .. MaxStops
    BY <1>1, ProtocolConstants DEF ProtocolInv, TypeOK
  <2> QED
    BY <1>1, <1>2, <2>1 DEF ProtocolInv, TypeOK, PhoneStates, OneOf, Messages, Answers, AuthorizeMessage,
       CompleteMessage, ChunkMessage, ChunkAt, Smaller, Ack, Nack, Ready
<1>4. SuccessMeansReady'
  BY <1>1 DEF ProtocolInv, SuccessMeansReady
<1>5. StoredIsPrefix'
  BY <1>1 DEF ProtocolInv, StoredIsPrefix, Aligned, ChunkAt, Smaller
<1>6. SessionsFresh'
  <2>1. ASSUME NEW a \in Attempts PROVE Fresh(a)'
    <3>1. Fresh(a) /\ Session(a)' = Session(a) /\ Session(a) \in Sessions
      BY <1>1, SessionOf DEF ProtocolInv, SessionsFresh, Session
    <3>2. \A i \in {1, 2} : Unused(<<a, i>>) => Unused(<<a, i>>)'
      BY <1>1, <1>2, SessionPairs DEF Unused, Quiet
    <3>3. Quiet(Session(a)) => Quiet(Session(a))'
      BY <1>1, <1>2, <3>1 DEF Quiet
    <3> QED
      BY <1>1, <3>1, <3>2, <3>3 DEF Fresh
  <2> QED
    BY <2>1 DEF SessionsFresh
<1>7. SessionsGranted'
  <2>1. ASSUME NEW a \in Attempts, phone[a].pc \in {"opening"} \union Waiting
        PROVE  request'[Session(a)'] = "granted"
    <3>1. Session(a)' = Session(a) /\ Session(a) \in Sessions
      BY <1>1, SessionOf DEF ProtocolInv, Session
    <3> QED
      BY <1>2, <2>1, <3>1 DEF ProtocolInv, SessionsGranted
  <2> QED
    BY <1>1, <2>1 DEF SessionsGranted, Waiting
<1>8. Conversations'
  <2>1. received \in Nat
    BY ProtocolConstants DEF ProtocolInv, TypeOK
  <2>2. \A a \in Attempts, i \in {1, 2} : work'[<<a, i>>] = <<>>
    BY <1>2, SessionPairs
  <2>3. /\ TypeOK /\ received' = received /\ state' = state /\ toPhone' = toPhone /\ phone' = phone
        /\ received' \in Nat /\ received <= received'
    BY <1>1, <2>1 DEF ProtocolInv
  <2>4. ASSUME NEW a \in Attempts PROVE Talk(a)'
    <3>1. Talk(a)
      BY DEF ProtocolInv, Conversations
    <3> QED
      BY <2>2, <2>3, <3>1, TalkFrame
  <2> QED
    BY <2>4 DEF Conversations
<1>9. QueuesOK'
  BY <1>2, OneMessage DEF QueuesOK, Queued
<1>10. PositionsOK'
  BY <1>1 DEF ProtocolInv, PositionsOK, Aligned, Waiting
<1>11. LiveInStep'
  <2>1. \A a \in Attempts : Session(a)' \in Sessions
    BY <1>1, SessionOf DEF ProtocolInv, Session
  <2> QED
    BY <1>1, <2>1, ProtocolConstants DEF LiveInStep
<1>12. MacOK'
  BY <1>1, <1>2 DEF MacOK
<1>13. RecordOK'
  BY <1>1, <1>2 DEF ProtocolInv, RecordOK, Waiting
<1> QED
  BY <1>3, <1>4, <1>5, <1>6, <1>7, <1>8, <1>9, <1>10, <1>11, <1>12, <1>13 DEF ProtocolInv

\* Only the server starts, or nothing happens.
LEMMA Stands ==
  ASSUME ProtocolInv, state' \in States, state = "ready" => state' = "ready",
         state' = state \/ worker = None, up' \in BOOLEAN, up => up',
         UNCHANGED <<chunks, received, worker, stops, control, receiver, wires, phone, record>>
  PROVE  ProtocolInv'
<1> USE DEF library, mac, control, receiver, wires
<1>1. TypeOK'
  BY DEF ProtocolInv, TypeOK, PhoneStates, OneOf, Messages, Answers, AuthorizeMessage,
     CompleteMessage, ChunkMessage, ChunkAt, Smaller, Ack, Nack, Ready
<1>2. SuccessMeansReady'
  BY DEF ProtocolInv, SuccessMeansReady
<1>3. StoredIsPrefix'
  BY DEF ProtocolInv, StoredIsPrefix, Aligned, ChunkAt, Smaller
<1>4. SessionsFresh'
  BY FreshFrame, SessionPairs DEF ProtocolInv, SessionsFresh
<1>5. SessionsGranted'
  BY DEF ProtocolInv, SessionsGranted, Session, Waiting
<1>6. Conversations'
  <2>1. received \in Nat
    BY ProtocolConstants DEF ProtocolInv, TypeOK
  <2> QED
    BY <2>1, TalkFrame DEF ProtocolInv, Conversations
<1>7. QueuesOK'
  BY DEF ProtocolInv, QueuesOK, Queued, ChunkMessage, ChunkAt, Smaller, Aligned
<1>8. PositionsOK'
  BY DEF ProtocolInv, PositionsOK, Aligned, Waiting
<1>9. LiveInStep'
  <2>1. ASSUME NEW a \in Attempts, live' = Session(a)' PROVE Together(a)'
    <3>1. Session(a)' = Session(a) /\ Session(a) \in Sessions /\ live = Session(a)
      BY <2>1, SessionOf DEF ProtocolInv, Session
    <3>2. Together(a) /\ TypeOK
      BY <3>1 DEF ProtocolInv, LiveInStep
    <3> QED
      BY <3>1, <3>2, TogetherFrame
  <2> QED
    BY <2>1 DEF LiveInStep
<1>10. MacOK'
  BY DEF ProtocolInv, MacOK, CompleteMessage
<1>11. RecordOK'
  BY DEF ProtocolInv, RecordOK, Waiting
<1> QED
  BY <1>1, <1>2, <1>3, <1>4, <1>5, <1>6, <1>7, <1>8, <1>9, <1>10, <1>11 DEF ProtocolInv

\* The start settles what was being settled.
LEMMA ServerStarts ==
  ASSUME ProtocolInv, Restart
  PROVE  ProtocolInv'
<1>1. ~up /\ worker = None /\ up' = TRUE /\ state \in States
  BY DEF Restart, ProtocolInv, MacOK, TypeOK
<1>2. state' \in States /\ (state = "ready" => state' = "ready")
  BY <1>1 DEF Restart, States
<1> QED
  BY <1>1, <1>2, Stands DEF Restart

-----------------------------------------------------------------------------
(* The inductive invariant *)

\* The inductive invariant holds before anything is asked for.
LEMMA InitInv == Init => ProtocolInv
<1> SUFFICES ASSUME Init PROVE ProtocolInv
  OBVIOUS
<1>1. /\ Caller("idle", 1, FALSE) \in PhoneStates
      /\ Caller("idle", 1, FALSE).pc = "idle" /\ Caller("idle", 1, FALSE).round = 1
  BY ProtocolConstants DEF Caller, PhoneStates, Points
<1>2. \A a \in Attempts : phone[a].pc = "idle" /\ phone[a].round = 1 /\ phone[a] \in PhoneStates
  BY <1>1 DEF Init
<1>3. TypeOK
  <2>1. phone \in [Attempts -> PhoneStates]
    BY <1>1 DEF Init
  <2>2. received \in 0 .. FileSize /\ stops \in 0 .. MaxStops
    BY ProtocolConstants DEF Init
  <2>3. work \in [Sessions -> OneOf(Messages)] /\ toPhone \in [Sessions -> OneOf(Answers)]
    BY DEF Init, OneOf
  <2>4. request \in [Sessions -> Stages] /\ state \in States
    BY DEF Init, Stages, States
  <2>5. \A s \in Sessions : work[s] = <<>>
    BY DEF Init
  <2> QED
    BY <2>1, <2>2, <2>3, <2>4, <2>5 DEF Init, TypeOK
<1>4. SuccessMeansReady
  BY <1>2 DEF SuccessMeansReady
<1>5. StoredIsPrefix
  <2>1. received = 0 /\ chunks = {} /\ 0 % ChunkBytes = 0
    BY ProtocolConstants DEF Init
  <2> QED
    BY <2>1, ProtocolConstants DEF StoredIsPrefix, Aligned
<1>6. SessionsFresh
  BY <1>2, SessionPairs DEF Init, SessionsFresh, Fresh, Unused, Quiet, Active, Waiting
<1>7. SessionsGranted
  BY <1>2 DEF Init, SessionsGranted, Waiting
<1>8. Conversations
  BY <1>2, SessionPairs DEF Init, Conversations, Talk, Waiting
<1>9. QueuesOK
  BY OneMessage DEF Init, QueuesOK, Queued
<1>10. PositionsOK
  BY <1>2 DEF PositionsOK
<1>11. LiveInStep
  BY <1>2 DEF LiveInStep, Together
<1>12. MacOK
  BY DEF Init, MacOK
<1>13. RecordOK
  <2>1. ~(received > 0) /\ \A s \in Sessions : work[s] = <<>>
    BY DEF Init
  <2> QED
    BY <1>2, <2>1 DEF RecordOK, Waiting
<1> QED
  BY <1>3, <1>4, <1>5, <1>6, <1>7, <1>8, <1>9, <1>10, <1>11, <1>12, <1>13 DEF ProtocolInv

\* A step that changes nothing keeps it.
LEMMA StutterInv ==
  ASSUME ProtocolInv, UNCHANGED vars
  PROVE  ProtocolInv'
<1>1. state \in States /\ up \in BOOLEAN /\ state' = state /\ up' = up
  BY DEF ProtocolInv, TypeOK, vars, library, mac
<1>2. UNCHANGED <<chunks, received, worker, stops, control, receiver, wires, phone, record>>
  BY DEF vars, library, mac
<1> QED
  BY <1>1, <1>2, Stands

\* Every step keeps the inductive invariant.
LEMMA NextInv ==
  ASSUME ProtocolInv, Next
  PROVE  ProtocolInv'
<1>1. CASE \E a \in Attempts : PhoneStep(a)
  <2>1. PICK a \in Attempts : PhoneStep(a)
    BY <1>1
  <2> QED
    BY <2>1, PhoneAsks, PhoneEnds, PhoneLoses, PhoneOpens, PhoneAdvances DEF PhoneStep
<1>2. CASE \E s \in Sessions : MacStep(s)
  <2>1. PICK s \in Sessions : MacStep(s)
    BY <1>2
  <2>2. Settle(s) => (Settle(s) /\ Answer(s, Nack)) \/ (state' = "ready" /\ Answer(s, Ready))
    BY DEF Settle
  <2> QED
    BY <2>1, <2>2, MacDecides, MacDismisses, MacAuthorizes, MacSettles, MacAppends, MacBegins DEF MacStep
<1> QED
  BY <1>1, <1>2, PhoneReloads, ServerStops, ServerStarts DEF Next

\* The two ends of every session stand as ProtocolInv says, whatever is lost or restarted.
THEOREM ProtocolInvariant == Spec => []ProtocolInv
<1>1. Init => ProtocolInv
  BY InitInv
<1>2. ProtocolInv /\ [Next]_vars => ProtocolInv'
  BY NextInv, StutterInv
<1> QED
  BY <1>1, <1>2, PTL DEF Spec

\* Every reachable state is well typed: among other things, an attempt asks for two
\* sessions at most and a session has one message or answer under way.
THEOREM ProtocolTypes == Spec => []TypeOK
<1>1. ProtocolInv => TypeOK
  BY DEF ProtocolInv
<1> QED
  BY <1>1, ProtocolInvariant, PTL

\* The phone reports success only for a material that is ready.
THEOREM SuccessIsTrue == Spec => []SuccessMeansReady
<1>1. ProtocolInv => SuccessMeansReady
  BY DEF ProtocolInv
<1> QED
  BY <1>1, ProtocolInvariant, PTL

\* What is stored is the file up to received_bytes, each chunk once.
THEOREM StoredPrefix == Spec => []StoredIsPrefix
<1>1. ProtocolInv => StoredIsPrefix
  BY DEF ProtocolInv
<1> QED
  BY <1>1, ProtocolInvariant, PTL

\* The phone never goes on from bytes that are not stored.
THEOREM PhoneNeverAhead == Spec => []PositionIsDurable
<1>1. ProtocolInv => PositionIsDurable
  <2> SUFFICES ASSUME ProtocolInv, NEW a \in Attempts, phone[a].pc \in {"sending", "completing"}
               PROVE  phone[a].pos <= received
    BY DEF PositionIsDurable
  <2>1. FileSize \in Nat
    BY ProtocolConstants
  <2> QED
    BY <2>1 DEF ProtocolInv, PositionsOK
<1> QED
  BY <1>1, ProtocolInvariant, PTL

\* The acknowledgement that a phone reads is the one that it expects.
THEOREM AcknowledgementsFit == Spec => []AcksExpected
<1>1. ProtocolInv => AcksExpected
  <2> SUFFICES ASSUME ProtocolInv, NEW a \in Attempts, phone[a].pc \in {"authorizing", "sending"},
                      toPhone[Session(a)] # <<>>, Head(toPhone[Session(a)]).kind = "ack"
               PROVE  Expected(a, Head(toPhone[Session(a)]).received)
    BY DEF AcksExpected
  <2>1. /\ Head(toPhone[Session(a)]) \in Answers
        /\ MayHear(a, Head(toPhone[Session(a)]))
    BY Hears
  <2>2. PICK n \in 0 .. FileSize :
          Head(toPhone[Session(a)]) = Ack(n) /\ Head(toPhone[Session(a)]).received = n
    BY <2>1, Kinds DEF Answers
  <2> QED
    BY <2>1, <2>2, AckIsExpected
<1> QED
  BY <1>1, ProtocolInvariant, PTL

\* A chunk from a position that the library has reached is stored already, or it is the
\* next one and collides with none.
LEMMA ChunksFit ==
  ASSUME received \in 0 .. FileSize, StoredIsPrefix, state = "transferring",
         NEW q \in 0 .. FileSize - 1, Aligned(q), q <= received
  PROVE  Accepts(ChunkAt(q))
<1>1. /\ FileSize \in Nat /\ ChunkBytes \in Nat \ {0}
      /\ \A p : ChunkAt(p).offset = p /\ ChunkAt(p).index = p \div ChunkBytes
      /\ \A p : ChunkAt(p).offset + ChunkAt(p).size = After(p)
      /\ chunks = {ChunkAt(p) : p \in {r \in 0 .. received - 1 : Aligned(r)}}
  BY ProtocolConstants DEF ChunkAt, After, StoredIsPrefix
<1>2. CASE q < received
  BY <1>1, <1>2 DEF Accepts
<1>3. CASE q = received
  <2>1. ChunkAt(q).offset + ChunkAt(q).size <= FileSize
    BY <1>1, Positions
  <2>2. ASSUME NEW p \in 0 .. received - 1, Aligned(p)
        PROVE  /\ ChunkAt(p).index # ChunkAt(q).index
               /\ RangeOf(ChunkAt(q)) \intersect RangeOf(ChunkAt(p)) = {}
    <3>1. p \in 0 .. FileSize /\ q \in 0 .. FileSize /\ p < q /\ p \in Nat /\ q \in Nat
      BY <1>1, <1>3
    <3>2. After(p) \in 0 .. FileSize /\ After(p) <= q
      BY <2>2, <3>1, Positions
    <3>3. After(q) \in 0 .. FileSize
      BY <3>1, Positions
    <3>4. RangeOf(ChunkAt(q)) \intersect RangeOf(ChunkAt(p)) = {}
      <4>1. RangeOf(ChunkAt(q)) = q .. After(q) - 1 /\ RangeOf(ChunkAt(p)) = p .. After(p) - 1
        BY <1>1, <3>1 DEF RangeOf, ChunkAt, After, Smaller
      <4> QED
        BY <3>1, <3>2, <3>3, <4>1
    <3>5. p % ChunkBytes = 0 /\ q % ChunkBytes = 0
      BY <1>1, <2>2, <3>1 DEF Aligned
    <3>6. p = ChunkBytes * (p \div ChunkBytes) /\ q = ChunkBytes * (q \div ChunkBytes)
      BY <1>1, <3>1, <3>5, DivMod
    <3>7. p \div ChunkBytes # q \div ChunkBytes
      BY <3>1, <3>6
    <3> QED
      BY <1>1, <3>4, <3>7
  <2>3. \A d \in chunks : d.index # ChunkAt(q).index /\ RangeOf(ChunkAt(q)) \intersect RangeOf(d) = {}
    BY <1>1, <2>2
  <2> QED
    BY <2>1, <2>3 DEF Accepts
<1> QED
  BY <1>1, <1>2, <1>3

\* The library never refuses a chunk of an upload that is transferring.
THEOREM ChunksAreWelcome == Spec => []ChunksWelcome
<1>1. ProtocolInv => ChunksWelcome
  <2> SUFFICES ASSUME ProtocolInv, NEW s \in Sessions, work[s] # <<>>, Head(work[s]).kind = "chunk",
                      state = "transferring"
               PROVE  s \in authorized /\ Accepts(Head(work[s]).chunk)
    BY DEF ChunksWelcome
  <2>1. PICK q \in 0 .. FileSize - 1 :
          /\ Head(work[s]).chunk = ChunkAt(q) /\ Aligned(q) /\ q <= received /\ s \in authorized
    BY QueuedChunk
  <2>2. received \in 0 .. FileSize /\ StoredIsPrefix
    BY DEF ProtocolInv, TypeOK
  <2> QED
    BY <2>1, <2>2, ChunksFit
<1> QED
  BY <1>1, ProtocolInvariant, PTL

\* An upload with stored bytes is recorded until it is ready.
THEOREM BytesAreRecorded == Spec => []BytesRecorded
<1>1. ProtocolInv => BytesRecorded
  BY DEF ProtocolInv, RecordOK, BytesRecorded
<1> QED
  BY <1>1, ProtocolInvariant, PTL

-----------------------------------------------------------------------------
(* The upload, from its creation to its end *)

\* What a step does to the row of the upload.
Stores ==
  /\ state = "transferring" /\ state' = state
  /\ received' \in 0 .. FileSize /\ (received' = received \/ received < received')

LibraryStep ==
  \/ UNCHANGED <<state, received>>
  \/ state = "absent" /\ state' = "transferring" /\ UNCHANGED received
  \/ Stores
  \/ state = "transferring" /\ state' = "cancelled" /\ UNCHANGED received
  \/ state = "transferring" /\ received = FileSize /\ state' = "settling" /\ UNCHANGED received
  \/ state = "settling" /\ state' \in {"ready", "failed"} /\ UNCHANGED received

LEMMA StoringAdvances ==
  ASSUME ProtocolInv, NEW s \in Sessions, Takes(s, "chunk"), Accepts(Head(work[s]).chunk),
         Persist(Head(work[s]).chunk), UNCHANGED state
  PROVE  Stores
<1>1. PICK q \in 0 .. FileSize - 1 :
        Head(work[s]).chunk = ChunkAt(q) /\ Aligned(q) /\ q <= received
  BY QueuedChunk DEF Takes
<1>2. received \in 0 .. FileSize /\ StoredIsPrefix /\ FileSize \in Nat
  BY ProtocolConstants DEF ProtocolInv, TypeOK
<1>3. /\ received' = IF q = received THEN After(q) ELSE received
      /\ received' \in 0 .. FileSize
  BY <1>1, <1>2, PersistKeepsPrefix
<1>4. q < After(q)
  BY <1>1, <1>2, Positions
<1> QED
  BY <1>3, <1>4 DEF Stores, Accepts

LEMMA LibrarySteps ==
  ASSUME ProtocolInv, [Next]_vars
  PROVE  LibraryStep
<1> USE DEF library, mac, control, receiver, wires
<1>1. ASSUME NEW a \in Attempts, PhoneStep(a) PROVE UNCHANGED <<state, received>>
  BY <1>1 DEF PhoneStep, CreateAttempt, ResumeAttempt, RetryAttempt, ReceiveGrant, SaveFails,
     RequestFails, OpenChannels, ReceiveAck, ReceiveNack, ReceiveReady, TransferRejected,
     TransferLost, RemoveRecord
<1>2. ASSUME NEW s \in Sessions, MacStep(s) PROVE LibraryStep
  <2>1. CASE CreateUpload(s)
    BY <2>1 DEF CreateUpload, LibraryStep
  <2>2. CASE SessionFails(s)
    BY <2>2 DEF SessionFails, LibraryStep
  <2>3. CASE AppendChunk(s) \/ AppendFails(s)
    <3>1. CASE Persist(Head(work[s]).chunk)
      BY <2>3, <3>1, StoringAdvances DEF AppendChunk, AppendFails, LibraryStep
    <3>2. CASE UNCHANGED <<chunks, received>>
      BY <2>3, <3>2 DEF AppendChunk, AppendFails, LibraryStep
    <3> QED
      BY <2>3, <3>1, <3>2 DEF AppendChunk, AppendFails
  <2>4. CASE BeginComplete(s)
    BY <2>4 DEF BeginComplete, LibraryStep
  <2>5. CASE Settle(s)
    <3>1. worker = s /\ s # None
      BY <2>5, ProtocolConstants DEF Settle
    <3>2. state = "settling"
      BY <3>1 DEF ProtocolInv, MacOK
    <3> QED
      BY <2>5, <3>2 DEF Settle, LibraryStep
  <2>6. CASE \/ CheckResume(s) \/ RefuseRequest(s) \/ StartSession(s) \/ Grant(s) \/ PeerEnds(s)
             \/ Authorize(s) \/ RejectAuthorization(s) \/ RefuseChunk(s) \/ AnswerComplete(s)
             \/ CommitThrows(s)
    BY <2>6 DEF CheckResume, RefuseRequest, StartSession, Grant, PeerEnds, Authorize,
       RejectAuthorization, RefuseChunk, AnswerComplete, CommitThrows, LibraryStep
  <2> QED
    BY <1>2, <2>1, <2>2, <2>3, <2>4, <2>5, <2>6 DEF MacStep
<1>3. CASE Reload \/ Stop
  BY <1>3 DEF Reload, Stop, LibraryStep
<1>4. CASE Restart
  BY <1>4 DEF Restart, LibraryStep
<1>5. CASE UNCHANGED vars
  BY <1>5 DEF vars, LibraryStep
<1> QED
  BY <1>1, <1>2, <1>3, <1>4, <1>5 DEF Next, LibraryStep

\* What is being settled or is ready is the whole file, whatever stopped in between.
THEOREM SettledWhole == Spec => []SettledIsWhole
<1> DEFINE Whole == state \in {"settling", "ready", "failed"} => received = FileSize
<1>1. Init => Whole
  BY DEF Init
<1>2. ProtocolInv /\ Whole /\ [Next]_vars => Whole'
  <2> SUFFICES ASSUME ProtocolInv, Whole, [Next]_vars PROVE Whole'
    OBVIOUS
  <2> QED
    BY LibrarySteps DEF LibraryStep, Stores
<1>3. ProtocolInv /\ Whole => SettledIsWhole
  BY DEF ProtocolInv, StoredIsPrefix, SettledIsWhole
<1> QED
  BY <1>1, <1>2, <1>3, ProtocolInvariant, PTL DEF Spec

LEMMA InitContract == Init => Contract!Init
BY DEF Init, Contract!Init, Phase

LEMMA StepContract ==
  ASSUME ProtocolInv, [Next]_vars
  PROVE  [Contract!Next]_(Contract!vars)
<1> USE DEF Phase
<1>1. FileSize \in Nat \ {0} /\ received \in 0 .. FileSize
  BY ProtocolConstants DEF ProtocolInv, TypeOK
<1>2. CASE UNCHANGED <<state, received>>
  BY <1>2 DEF Contract!vars
<1>3. CASE state = "absent" /\ state' = "transferring" /\ UNCHANGED received
  BY <1>1, <1>3 DEF Contract!Next, Contract!Register
<1>4. CASE Stores
  <2>1. CASE received' = received
    BY <1>4, <2>1 DEF Stores, Contract!vars
  <2>2. CASE received < received'
    BY <1>1, <1>4, <2>2 DEF Stores, Contract!Next, Contract!Receive
  <2> QED
    BY <1>4, <2>1, <2>2 DEF Stores
<1>5. CASE state = "transferring" /\ state' = "cancelled" /\ UNCHANGED received
  BY <1>5 DEF Contract!Next, Contract!Cancel
<1>6. CASE /\ state = "transferring" /\ received = FileSize /\ state' = "settling"
           /\ UNCHANGED received
  BY <1>6 DEF Contract!Next, Contract!Settle
<1>7. CASE state = "settling" /\ state' \in {"ready", "failed"} /\ UNCHANGED received
  BY <1>7 DEF Contract!Next, Contract!End
<1> QED
  BY <1>2, <1>3, <1>4, <1>5, <1>6, <1>7, LibrarySteps DEF LibraryStep

\* The upload of the protocol implements UploadContract, as each row of the library does.
THEOREM ProtocolKeepsContract == Spec => KeepsContract
<1>1. ProtocolInv /\ [Next]_vars => [Contract!Next]_(Contract!vars)
  BY StepContract
<1> QED
  BY <1>1, InitContract, ProtocolInvariant, PTL DEF Spec, KeepsContract, Contract!Spec

-----------------------------------------------------------------------------
(* Its sessions *)

\* The sessions that cannot be opened any more.
Used == {s \in Sessions : request[s] \notin {"none", "asked", "checked"}}

\* A request is made for a session that was never asked for.
LEMMA AskFreely ==
  ASSUME ProtocolInv, NEW s \in Sessions, Unused(s), request' = Asked(s)
  PROVE  Used \subseteq Used'
BY DEF Unused, Asked, Used, ProtocolInv, TypeOK

LEMMA PhoneUses ==
  ASSUME ProtocolInv, NEW a \in Attempts, PhoneStep(a)
  PROVE  Used \subseteq Used' /\ UNCHANGED live
<1> USE DEF library, mac, control, receiver, wires
<1>1. UNCHANGED live
  BY DEF PhoneStep, CreateAttempt, ResumeAttempt, RetryAttempt, ReceiveGrant, SaveFails,
     RequestFails, OpenChannels, ReceiveAck, ReceiveNack, ReceiveReady, TransferRejected,
     TransferLost, RemoveRecord
<1>2. CASE UNCHANGED request
  BY <1>1, <1>2 DEF Used
<1>3. CASE phone[a].pc = "idle" /\ request' = Asked(<<a, 1>>)
  <2>1. Unused(<<a, 1>>) /\ <<a, 1>> \in Sessions
    BY <1>3, SessionPairs DEF ProtocolInv, SessionsFresh, Fresh
  <2> QED
    BY <1>1, <1>3, <2>1, AskFreely
<1>4. CASE phone[a].pc \in Active /\ phone[a].round = 1 /\ request' = Asked(<<a, 2>>)
  <2>1. Unused(<<a, 2>>) /\ <<a, 2>> \in Sessions
    BY <1>4, SessionPairs DEF ProtocolInv, SessionsFresh, Fresh
  <2> QED
    BY <1>1, <1>4, <2>1, AskFreely
<1> QED
  BY <1>1, <1>2, <1>3, <1>4 DEF PhoneStep, CreateAttempt, ResumeAttempt, RetryAttempt,
     ReceiveGrant, SaveFails, RequestFails, OpenChannels, ReceiveAck, ReceiveNack, ReceiveReady,
     TransferRejected, TransferLost, RemoveRecord

LEMMA MacUses ==
  ASSUME ProtocolInv, NEW s \in Sessions, MacStep(s)
  PROVE  /\ Used \subseteq Used'
         /\ \/ live' \in {live, None}
            \/ live' = s /\ s \notin Used /\ s \in Used'
<1> USE DEF library, mac, control, receiver, wires, ProtocolInv, TypeOK, Used
<1>1. CASE CreateUpload(s) \/ CheckResume(s) \/ RefuseRequest(s)
  BY <1>1 DEF CreateUpload, CheckResume, RefuseRequest
<1>2. CASE StartSession(s)
  BY <1>2 DEF StartSession
<1>3. CASE Grant(s) \/ SessionFails(s)
  BY <1>3 DEF Grant, SessionFails
<1>4. CASE UNCHANGED request /\ live' \in {live, None}
  BY <1>4
<1> QED
  BY <1>1, <1>2, <1>3, <1>4 DEF MacStep, PeerEnds, Authorize, RejectAuthorization, AppendChunk,
     AppendFails, RefuseChunk, BeginComplete, AnswerComplete, Settle, CommitThrows

LEMMA InitSlot == Init => Slot!Init
BY DEF Init, Slot!Init

LEMMA StepSlot ==
  ASSUME ProtocolInv, [Next]_vars
  PROVE  [Slot!Next]_(Slot!vars)
<1> USE DEF Used
<1>1. CASE Used \subseteq Used' /\ live' \in {live, None}
  BY <1>1 DEF Slot!Next, Slot!Close
<1>2. ASSUME NEW s \in Sessions, Used \subseteq Used', live' = s, s \notin Used, s \in Used'
      PROVE  Slot!Next
  BY <1>2, ProtocolConstants DEF Slot!Next, Slot!Open
<1>3. ASSUME NEW a \in Attempts, PhoneStep(a) PROVE Used \subseteq Used' /\ live' \in {live, None}
  BY <1>3, PhoneUses
<1>4. ASSUME Reload \/ Restart \/ UNCHANGED vars
      PROVE  Used \subseteq Used' /\ live' \in {live, None}
  BY <1>4 DEF Reload, Restart, control, receiver, vars
<1>5. ASSUME Stop PROVE Used \subseteq Used' /\ live' \in {live, None}
  BY <1>5 DEF Stop, ProtocolInv, TypeOK
<1> QED
  BY <1>1, <1>2, <1>3, <1>4, <1>5, MacUses DEF Next

\* The sessions of the protocol implement SessionSlot, as those of TransferSessions do.
THEOREM ProtocolKeepsSlot == Spec => KeepsSlot
<1>1. ProtocolInv /\ [Next]_vars => [Slot!Next]_(Slot!vars)
  BY StepSlot
<1> QED
  BY <1>1, InitSlot, ProtocolInvariant, PTL DEF Spec, KeepsSlot, Slot!Spec

-----------------------------------------------------------------------------
(* The record, and the end of the attempts *)

\* The record of an upload goes only when its material is ready.
THEOREM RecordIsKept == Spec => RecordKept
<1> DEFINE Keeps == record /\ ~record' => state = "ready"
<1>1. ProtocolInv /\ [Next]_vars => Keeps
  <2> SUFFICES ASSUME ProtocolInv, [Next]_vars, record, ~record' PROVE state = "ready"
    OBVIOUS
  <2>1. \E a \in Attempts : RemoveRecord(a)
    <3>1. ASSUME NEW s \in Sessions, MacStep(s) PROVE UNCHANGED record
      BY <3>1 DEF MacStep, CreateUpload, CheckResume, RefuseRequest, StartSession, Grant,
         SessionFails, PeerEnds, Authorize, RejectAuthorization, AppendChunk, AppendFails,
         RefuseChunk, BeginComplete, AnswerComplete, Settle, CommitThrows
    <3>2. ASSUME NEW a \in Attempts, PhoneStep(a) PROVE record' \/ RemoveRecord(a)
      BY <3>2 DEF PhoneStep, CreateAttempt, ResumeAttempt, RetryAttempt, ReceiveGrant, SaveFails,
         RequestFails, OpenChannels, ReceiveAck, ReceiveNack, ReceiveReady, TransferRejected,
         TransferLost, RemoveRecord
    <3>3. CASE Reload \/ Stop \/ Restart \/ UNCHANGED vars
      BY <3>3 DEF Reload, Stop, Restart, vars
    <3> QED
      BY <3>1, <3>2, <3>3 DEF Next
  <2> QED
    BY <2>1 DEF RemoveRecord, ProtocolInv, SuccessMeansReady
<1> QED
  BY <1>1, ProtocolInvariant, PTL DEF Spec, RecordKept

\* The steps left of an attempt in the states it can be in.
LEMMA StepsAre ==
  ASSUME ProtocolInv, NEW a \in Attempts
  PROVE  /\ FileSize \in Nat /\ FileSize > 0
         /\ phone[a].pos \in 0 .. FileSize /\ phone[a].round \in {1, 2}
         /\ phone[a].pc = "sending" => phone[a].pos < FileSize
         /\ phone[a].pc \in Active =>
              StepsIn(phone[a].pc, phone[a].pos) \in 1 .. FileSize + 5
<1>1. FileSize \in Nat /\ FileSize > 0
  BY ProtocolConstants
<1>2. /\ phone[a].pos \in 0 .. FileSize /\ phone[a].round \in {1, 2}
      /\ phone[a].pc = "sending" => phone[a].pos < FileSize
  BY DEF ProtocolInv, TypeOK, PhoneStates, PositionsOK
<1>3. ASSUME NEW p \in Active, NEW n \in 0 .. FileSize, p = "sending" => n < FileSize
      PROVE  StepsIn(p, n) \in 1 .. FileSize + 5
  BY <1>1, <1>3 DEF Active, Waiting, StepsIn
<1> QED
  BY <1>1, <1>2, <1>3

\* What the session it can still refresh to adds.
LEMMA Rounds ==
  ASSUME NEW r \in {1, 2}, FileSize \in Nat
  PROVE  (2 - r) * (FileSize + 5) = IF r = 1 THEN FileSize + 5 ELSE 0
<1>1. CASE r = 1
  BY <1>1
<1>2. CASE r = 2
  BY <1>2
<1> QED
  BY <1>1, <1>2

Nearer(a) ==
  phone[a].pc \in Active /\ phone'[a].pc \in Active /\ phone'[a] # phone[a]
    => StepsLeft(a)' < StepsLeft(a)

\* The phone moves on by a message, in the same session.
LEMMA AckNearer ==
  ASSUME ProtocolInv, NEW a \in Attempts, ReceiveAck(a)
  PROVE  Nearer(a)
<1> DEFINE m == Head(toPhone[Session(a)])
<1>1. /\ phone[a].pc \in {"authorizing", "sending"} /\ m.kind = "ack"
      /\ toPhone[Session(a)] # <<>>
      /\ phone \in [Attempts -> PhoneStates]
  BY DEF ReceiveAck, ProtocolInv, TypeOK
<1>2. m \in Answers /\ MayHear(a, m)
  BY <1>1, Hears
<1>3. PICK n \in 0 .. FileSize : m = Ack(n) /\ m.received = n
  BY <1>1, <1>2, Kinds DEF Answers
<1>4. Expected(a, n)
  BY <1>1, <1>2, <1>3, AckIsExpected
<1>5. phone' = [phone EXCEPT ![a].pc = IF n < FileSize THEN "sending" ELSE "completing",
                             ![a].pos = n]
  BY <1>3, <1>4 DEF ReceiveAck, Advance
<1>6. /\ phone'[a].pc = (IF n < FileSize THEN "sending" ELSE "completing")
      /\ phone'[a].pos = n /\ phone'[a].round = phone[a].round
  BY <1>1, <1>5 DEF PhoneStates
<1>7. /\ FileSize \in Nat /\ FileSize > 0 /\ phone[a].pos \in 0 .. FileSize
      /\ phone[a].round \in {1, 2} /\ (phone[a].pc = "sending" => phone[a].pos < FileSize)
  BY StepsAre
<1>8. phone[a].pc = "sending" => phone[a].pos < n
  <2> SUFFICES ASSUME phone[a].pc = "sending" PROVE phone[a].pos < n
    OBVIOUS
  <2>1. n = After(phone[a].pos) /\ Aligned(phone[a].pos)
    BY <1>4 DEF Expected, After, ProtocolInv, PositionsOK
  <2> QED
    BY <1>7, <2>1, Positions
<1>9. StepsIn(phone'[a].pc, phone'[a].pos) < StepsIn(phone[a].pc, phone[a].pos)
  BY <1>1, <1>6, <1>7, <1>8 DEF StepsIn
<1>10. StepsLeft(a)' = (2 - phone[a].round) * (FileSize + 5) + StepsIn(phone'[a].pc, phone'[a].pos)
  BY <1>6 DEF StepsLeft
<1>11. /\ StepsIn(phone[a].pc, phone[a].pos) \in Int /\ StepsIn(phone'[a].pc, phone'[a].pos) \in Int
       /\ (2 - phone[a].round) * (FileSize + 5) \in Int
  BY <1>1, <1>6, <1>7 DEF StepsIn
<1> QED
  BY <1>9, <1>10, <1>11 DEF Nearer, StepsLeft

LEMMA PhoneNearer ==
  ASSUME ProtocolInv, NEW a \in Attempts, PhoneStep(a)
  PROVE  \A b \in Attempts : Nearer(b)
<1>1. phone \in [Attempts -> PhoneStates]
  BY DEF ProtocolInv, TypeOK
<1>2. /\ FileSize \in Nat /\ FileSize > 0
      /\ phone[a].pos \in 0 .. FileSize /\ phone[a].round \in {1, 2}
      /\ phone[a].pc \in Active => StepsIn(phone[a].pc, phone[a].pos) \in 1 .. FileSize + 5
  BY StepsAre
\* The other attempts stay where they are, or are given up for this one.
<1>3. ASSUME NEW b \in Attempts \ {a} PROVE Nearer(b)
  <2>1. phone'[b] = phone[b] \/ phone'[b] = Caller("gone", 1, FALSE)
    BY <1>1 DEF PhoneStep, CreateAttempt, ResumeAttempt, RetryAttempt, ReceiveGrant, SaveFails,
       RequestFails, OpenChannels, ReceiveAck, Advance, ReceiveNack, ReceiveReady,
       TransferRejected, TransferLost, RemoveRecord, Fails
  <2>2. Caller("gone", 1, FALSE).pc \notin Active
    BY DEF Caller, Active, Waiting
  <2> QED
    BY <2>1, <2>2 DEF Nearer
<1> SUFFICES Nearer(a)
  BY <1>3
<1>4. CASE phone[a].pc \notin Active
  BY <1>4 DEF Nearer
<1>5. CASE phone'[a].pc \notin Active
  BY <1>5 DEF Nearer
<1>6. CASE ReceiveAck(a)
  BY <1>6, AckNearer
<1>7. CASE ReceiveGrant(a)
  <2>1. /\ phone[a].pc = "requesting" /\ phone'[a].pc = "opening"
        /\ phone'[a].round = phone[a].round
    BY <1>1, <1>7 DEF ReceiveGrant, PhoneStates
  <2> QED
    BY <1>2, <2>1, Rounds DEF Nearer, StepsLeft, StepsIn
<1>8. CASE OpenChannels(a)
  <2>1. /\ phone[a].pc = "opening" /\ phone'[a].pc = "authorizing"
        /\ phone'[a].round = phone[a].round
    BY <1>1, <1>8 DEF OpenChannels, PhoneStates
  <2> QED
    BY <1>2, <2>1, Rounds DEF Nearer, StepsLeft, StepsIn
<1>9. CASE TransferLost(a) /\ phone[a].round = 1
  <2>1. phone'[a] = Caller("requesting", 2, TRUE) /\ phone[a].pc \in Active
    BY <1>1, <1>9 DEF TransferLost
  <2>2. phone'[a].pc = "requesting" /\ phone'[a].round = 2
    BY <2>1 DEF Caller
  <2> DEFINE m == StepsIn(phone[a].pc, phone[a].pos)
             n == StepsIn(phone'[a].pc, phone'[a].pos)
  <2>3. m \in 1 .. FileSize + 5
    BY <1>2, <2>1
  <2>4. n = FileSize + 5
    BY <2>2 DEF StepsIn
  <2>5. StepsLeft(a) = FileSize + 5 + m
    BY <1>2, <1>9, Rounds DEF StepsLeft
  <2>6. StepsLeft(a)' = n
    <3>1. StepsLeft(a)' = (2 - 2) * (FileSize + 5) + n
      BY <2>2 DEF StepsLeft
    <3> QED
      BY <1>2, <2>4, <3>1, Rounds
  <2> HIDE DEF m, n
  <2>7. StepsLeft(a)' < StepsLeft(a)
    BY <1>2, <2>3, <2>4, <2>5, <2>6
  <2> QED
    BY <2>7 DEF Nearer
<1>10. ASSUME NEW p \in {"succeeded", "failed"}, NEW k, phone' = [phone EXCEPT ![a] = Caller(p, 1, k)]
       PROVE  phone'[a].pc \notin Active
  BY <1>1, <1>10 DEF Caller, Active, Waiting
<1>11. CASE Fails(a)
  BY <1>1, <1>11 DEF Fails, Caller, Active, Waiting, Nearer
<1>12. CASE SaveFails(a) \/ ReceiveReady(a)
  BY <1>5, <1>10, <1>12 DEF SaveFails, ReceiveReady
<1>13. CASE \/ CreateAttempt(a) \/ ResumeAttempt(a) \/ (\E b \in Attempts : RetryAttempt(a, b))
            \/ RemoveRecord(a)
  BY <1>4, <1>13 DEF CreateAttempt, ResumeAttempt, RetryAttempt, RemoveRecord, Active, Waiting
<1> QED
  BY <1>6, <1>7, <1>8, <1>9, <1>11, <1>12, <1>13 DEF PhoneStep, RequestFails, ReceiveNack,
     TransferRejected, TransferLost

LEMMA StepNearer ==
  ASSUME ProtocolInv, [Next]_vars
  PROVE  \A a \in Attempts : Nearer(a)
<1>1. ASSUME NEW a \in Attempts, PhoneStep(a) PROVE \A b \in Attempts : Nearer(b)
  BY <1>1, PhoneNearer
<1>2. CASE Reload
  BY <1>2 DEF Reload, Caller, Active, Waiting, Nearer
<1>3. CASE UNCHANGED phone
  BY <1>3 DEF Nearer
<1>4. ASSUME NEW s \in Sessions, MacStep(s) PROVE UNCHANGED phone
  BY <1>4 DEF MacStep, CreateUpload, CheckResume, RefuseRequest, StartSession, Grant,
     SessionFails, PeerEnds, Authorize, RejectAuthorization, AppendChunk, AppendFails,
     RefuseChunk, BeginComplete, AnswerComplete, Settle, CommitThrows
<1>5. ASSUME Stop \/ Restart \/ UNCHANGED vars PROVE UNCHANGED phone
  BY <1>5 DEF Stop, Restart, vars
<1> QED
  BY <1>1, <1>2, <1>3, <1>4, <1>5 DEF Next

\* An attempt takes a bounded number of steps, whatever is lost, stopped or repeated: it goes
\* through the file once in each of its two sessions at most (AttemptEnds needs the timers
\* on top).
THEOREM AttemptsEnd == Spec => AttemptsRunDown
<1> DEFINE Ends == \A a \in Attempts :
      phone[a].pc \in Active /\ phone'[a].pc \in Active /\ phone'[a] # phone[a]
        => StepsLeft(a)' < StepsLeft(a)
<1>1. ProtocolInv /\ [Next]_vars => Ends
  BY StepNearer DEF Nearer
<1> QED
  BY <1>1, ProtocolInvariant, PTL DEF Spec, AttemptsRunDown

=============================================================================
