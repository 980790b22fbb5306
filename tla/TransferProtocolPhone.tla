------------------------- MODULE TransferProtocolPhone -------------------------
(***************************************************************************)
(* Proofs about the transfer protocol, first part: every step of the phone *)
(* keeps the inductive invariant ProtocolInv.  Before that, the facts both *)
(* parts rest on: positions in the file, messages, sessions, and what the  *)
(* parts of the invariant say of an attempt that an action leaves alone.   *)
(***************************************************************************)
EXTENDS TransferProtocol, TLAPS

-----------------------------------------------------------------------------
(* Positions: multiples of the chunk size, and the end of the file *)

\* Division with remainder.
LEMMA DivMod ==
  ASSUME NEW B \in Nat \ {0}, NEW p \in Nat
  PROVE  /\ p = B * (p \div B) + (p % B)
         /\ p \div B \in Nat /\ p % B \in 0 .. B - 1
OBVIOUS

\* Between two multiples of B lies at least B.
LEMMA NextProduct ==
  ASSUME NEW B \in Nat \ {0}, NEW i \in Nat, NEW j \in Nat, B * i < B * j
  PROVE  B * i + B <= B * j
<1>1. i < j
  <2> SUFFICES ASSUME j <= i PROVE FALSE
    OBVIOUS
  <2>1. PICK k \in Nat : i = j + k
    OBVIOUS
  <2>2. B * i = B * j + B * k
    BY <2>1
  <2> QED
    BY <2>2
<1>2. PICK k \in Nat : j = i + 1 + k
  BY <1>1
<1>3. B * j = B * i + B + B * k
  BY <1>2
<1>4. B * k >= 0
  OBVIOUS
<1> QED
  BY <1>3, <1>4

\* The next multiple of B, and none before it.
LEMMA NextMultiple ==
  ASSUME NEW B \in Nat \ {0}, NEW p \in Nat, p % B = 0
  PROVE  /\ (p + B) % B = 0
         /\ \A q \in Nat : q % B = 0 /\ p < q => p + B <= q
<1>1. p = B * (p \div B) /\ p \div B \in Nat
  BY DivMod
<1>2. ASSUME NEW q \in Nat, q % B = 0, p < q
      PROVE  p + B <= q
  <2>1. q = B * (q \div B) /\ q \div B \in Nat
    BY <1>2, DivMod
  <2> QED
    BY <1>1, <1>2, <2>1, NextProduct
<1>3. (p + B) % B = 0
  <2>1. PICK i \in Nat : p = B * i
    BY <1>1
  <2>2. p + B \in Nat
    OBVIOUS
  <2>3. PICK j \in Nat, m \in 0 .. B - 1 : p + B = B * j + m /\ m = (p + B) % B
    BY <2>2, DivMod
  <2>4. B * (i + 1) = B * i + B /\ i + 1 \in Nat
    OBVIOUS
  <2>5. B * (i + 1) = B * j + m
    BY <2>1, <2>3, <2>4
  <2>6. CASE B * j < B * (i + 1)
    BY <2>4, <2>5, <2>6, NextProduct
  <2>7. CASE B * (i + 1) <= B * j
    BY <2>3, <2>4, <2>5, <2>7
  <2> QED
    BY <2>3, <2>4, <2>6, <2>7
<1> QED
  BY <1>2, <1>3

\* After a chunk comes the next position, and none lies in between.
LEMMA Positions ==
  ASSUME NEW p \in 0 .. FileSize, Aligned(p)
  PROVE  /\ After(p) \in 0 .. FileSize /\ Aligned(After(p))
         /\ p < FileSize => p < After(p)
         /\ p = FileSize => After(p) = p
         /\ \A q \in 0 .. FileSize : Aligned(q) /\ p < q => After(p) <= q
<1>1. CASE p = FileSize
  BY <1>1, ProtocolConstants DEF Aligned, After, ChunkAt, Smaller
<1>2. CASE p # FileSize
  <2>1. p \in Nat /\ p % ChunkBytes = 0 /\ ChunkBytes \in Nat \ {0} /\ FileSize \in Nat
    BY <1>2, ProtocolConstants DEF Aligned
  <2>2. After(p) = IF ChunkBytes < FileSize - p THEN p + ChunkBytes ELSE FileSize
    BY <2>1 DEF After, ChunkAt, Smaller
  <2>3. (p + ChunkBytes) % ChunkBytes = 0
    BY <2>1, NextMultiple
  <2>4. ASSUME NEW q \in 0 .. FileSize, Aligned(q), p < q
        PROVE  After(p) <= q
    <3>1. CASE q = FileSize
      BY <2>1, <2>2, <3>1
    <3>2. CASE q % ChunkBytes = 0
      <4>1. q \in Nat
        BY <2>1
      <4>2. p + ChunkBytes <= q
        BY <2>1, <2>4, <3>2, <4>1, NextMultiple
      <4> QED
        BY <2>1, <2>2, <4>1, <4>2
    <3> QED
      BY <2>4, <3>1, <3>2 DEF Aligned
  <2>5. p < FileSize => p < After(p)
    BY <2>1, <2>2
  <2>6. After(p) \in 0 .. FileSize /\ Aligned(After(p))
    BY <2>1, <2>2, <2>3 DEF Aligned
  <2> QED
    BY <1>2, <2>4, <2>5, <2>6
<1> QED
  BY <1>1, <1>2

\* Storing a chunk from a position the library has reached leaves a prefix, and counts
\* the chunk if it is the next one.
LEMMA PersistKeepsPrefix ==
  ASSUME received \in 0 .. FileSize, StoredIsPrefix,
         NEW q \in 0 .. FileSize - 1, Aligned(q), q <= received, Persist(ChunkAt(q))
  PROVE  /\ received' = IF q = received THEN After(q) ELSE received
         /\ received' \in 0 .. FileSize
         /\ StoredIsPrefix'
<1> DEFINE Below(n) == {ChunkAt(p) : p \in {r \in 0 .. n - 1 : Aligned(r)}}
<1>1. FileSize \in Nat /\ \A p : ChunkAt(p).offset = p
  BY ProtocolConstants DEF ChunkAt
<1>2. chunks = Below(received) /\ Aligned(received)
  BY DEF StoredIsPrefix
<1>3. After(q) = q + ChunkAt(q).size
  BY DEF After
<1>4. CASE q < received
  <2>1. ChunkAt(q) \in chunks
    BY <1>1, <1>2, <1>4
  <2>2. chunks' = chunks /\ received' = received
    BY <2>1 DEF Persist
  <2> QED
    BY <1>1, <1>4, <2>2 DEF StoredIsPrefix, Aligned
<1>5. CASE q = received
  <2>1. ChunkAt(q) \notin chunks
    BY <1>1, <1>2, <1>5
  <2>2. chunks' = chunks \union {ChunkAt(q)} /\ received' = After(q)
    BY <1>3, <1>5, <2>1 DEF Persist
  <2>3. After(q) \in 0 .. FileSize /\ Aligned(After(q)) /\ q < After(q)
    BY <1>1, Positions
  <2>4. \A p \in 0 .. FileSize : Aligned(p) /\ q < p => After(q) <= p
    BY <1>1, Positions
  <2>5. {r \in 0 .. After(q) - 1 : Aligned(r)} = {r \in 0 .. q - 1 : Aligned(r)} \union {q}
    BY <1>1, <2>3, <2>4
  <2>6. Below(After(q)) = Below(q) \union {ChunkAt(q)}
    BY <2>5
  <2>7. chunks' = Below(received') /\ Aligned(received')
    BY <1>2, <1>5, <2>2, <2>3, <2>6
  <2>8. StoredIsPrefix'
    BY <2>7 DEF StoredIsPrefix, Aligned, ChunkAt, Smaller
  <2> QED
    BY <1>5, <2>2, <2>3, <2>8
<1> QED
  BY <1>1, <1>4, <1>5

-----------------------------------------------------------------------------
(* Messages and sessions *)

\* Sequences of one message.
LEMMA OneMessage ==
  \A m : /\ Append(<<>>, m) = <<m>> /\ Head(<<m>>) = m /\ Tail(<<m>>) = <<>>
         /\ <<m>> # <<>> /\ \A n : <<m>> = <<n>> => m = n
OBVIOUS

\* Messages and answers are told apart by their kind.
LEMMA Kinds ==
  /\ AuthorizeMessage.kind = "authorize" /\ CompleteMessage.kind = "complete"
  /\ \A p : ChunkMessage(p).kind = "chunk" /\ ChunkMessage(p).chunk = ChunkAt(p)
  /\ \A p : ChunkAt(p).offset = p
  /\ Nack.kind = "nack" /\ Ready.kind = "ready"
  /\ \A n : Ack(n).kind = "ack" /\ Ack(n).received = n
BY DEF AuthorizeMessage, CompleteMessage, ChunkMessage, ChunkAt, Nack, Ready, Ack

\* A session is an attempt and a round.
LEMMA SessionPairs ==
  /\ \A s \in Sessions : s[1] \in Attempts /\ s[2] \in {1, 2} /\ s = <<s[1], s[2]>>
  /\ \A a \in Attempts : \A i \in {1, 2} : <<a, i>> \in Sessions
BY DEF Sessions

\* The session of an attempt.
LEMMA SessionOf ==
  ASSUME TypeOK, NEW a \in Attempts
  PROVE  /\ phone[a] \in PhoneStates /\ phone[a].round \in {1, 2}
         /\ Session(a) = <<a, phone[a].round>> /\ Session(a) \in Sessions
BY DEF TypeOK, PhoneStates, Session, Sessions

\* A wire holds nothing, or one message.
LEMMA Wires ==
  ASSUME TypeOK, NEW s \in Sessions
  PROVE  /\ work[s] = <<>> \/ \E m \in Messages : work[s] = <<m>>
         /\ toPhone[s] = <<>> \/ \E m \in Answers : toPhone[s] = <<m>>
         /\ work[s] = <<>> \/ toPhone[s] = <<>>
BY DEF TypeOK, OneOf

\* What an action does to the wires.
LEMMA Sends ==
  ASSUME TypeOK, NEW s \in Sessions, NEW m, Sent(s, m), work[s] = <<>>
  PROVE  work' = work \/ (live = s /\ work' = [work EXCEPT ![s] = <<m>>])
BY OneMessage DEF Sent, TypeOK

\* Who works off a message finds that one only, and no answer under way.
LEMMA Takings ==
  ASSUME TypeOK, NEW s \in Sessions, work[s] # <<>>
  PROVE  /\ toPhone[s] = <<>> /\ work[s] = <<Head(work[s])>> /\ Head(work[s]) \in Messages
         /\ NoAnswer(s) => work' = [work EXCEPT ![s] = <<>>] /\ toPhone' = toPhone
         /\ \A m : Answer(s, m) =>
              /\ work' = [work EXCEPT ![s] = <<>>]
              /\ toPhone' = IF Connected(s) THEN [toPhone EXCEPT ![s] = <<m>>] ELSE toPhone
<1>1. PICK m \in Messages : work[s] = <<m>>
  BY Wires
<1>2. toPhone[s] = <<>>
  BY Wires
<1>3. Head(work[s]) = m /\ Tail(work[s]) = <<>>
  BY <1>1, OneMessage
<1> QED
  BY <1>1, <1>2, <1>3, OneMessage DEF Answer, NoAnswer, TypeOK

\* An attempt that an action leaves alone stays fresh, ...
LEMMA FreshFrame ==
  ASSUME TypeOK, NEW a \in Attempts, Fresh(a), phone'[a] = phone[a],
         \A i \in {1, 2} : /\ request'[<<a, i>>] = request[<<a, i>>]
                           /\ work[<<a, i>>] = <<>> => work'[<<a, i>>] = <<>>
                           /\ toPhone[<<a, i>>] = <<>> => toPhone'[<<a, i>>] = <<>>
  PROVE  Fresh(a)'
<1>1. phone[a].round \in {1, 2}
  BY SessionOf
<1> QED
  BY <1>1 DEF Fresh, Unused, Quiet, Session

\* ... in its conversation, also when a message is lost or the library moves on, ...
LEMMA TalkFrame ==
  ASSUME TypeOK, NEW a \in Attempts, Talk(a), phone'[a] = phone[a],
         received' \in Nat, received <= received', state = "ready" => state' = "ready",
         \A i \in {1, 2} : /\ work'[<<a, i>>] \in {work[<<a, i>>], <<>>}
                           /\ toPhone'[<<a, i>>] \in {toPhone[<<a, i>>], <<>>}
  PROVE  Talk(a)'
<1>1. phone[a].round \in {1, 2} /\ received \in Nat
  BY SessionOf, ProtocolConstants DEF TypeOK
<1>2. \A m : MayHear(a, m) => MayHear(a, m)'
  <2>1. phone[a].pos \in Nat /\ After(phone[a].pos) \in Int
    BY SessionOf, ProtocolConstants DEF PhoneStates, After, ChunkAt, Smaller
  <2> QED
    BY <1>1, <2>1 DEF MayHear, After, ChunkAt, Smaller, Aligned
<1>3. Said(a)' = Said(a) /\ Session(a)' = Session(a)
  BY DEF Said, ToSay, Session, ChunkMessage, ChunkAt, Smaller, AuthorizeMessage, CompleteMessage
<1>4. \A i \in {1, 2} : toPhone'[<<a, i>>] # <<>> => toPhone[<<a, i>>] # <<>>
  OBVIOUS
<1>5. (phone[a].pc \in Waiting)' <=> phone[a].pc \in Waiting
  BY DEF Waiting
<1>6. (\A i \in {1, 2} : toPhone[<<a, i>>] # <<>> => phone[a].pc \in Waiting /\ phone[a].round = i)'
  BY <1>4, <1>5 DEF Talk
<1>7. ASSUME phone[a].pc \in Waiting
      PROVE  /\ work'[Session(a)] \in {<<>>, <<Said(a)>>}
             /\ \A m \in Answers : toPhone'[Session(a)] = <<m>> => MayHear(a, m)'
  BY <1>1, <1>2, <1>7, OneMessage DEF Talk, Session
<1>8. Answers' = Answers
  BY DEF Answers, Ack, Nack, Ready
<1> QED
  BY <1>3, <1>5, <1>6, <1>7, <1>8 DEF Talk

\* ... and in step with the library that stands still.
LEMMA TogetherFrame ==
  ASSUME TypeOK, NEW a \in Attempts, Together(a), phone'[a] = phone[a],
         received' = received, authorized \subseteq authorized',
         \A t \in Sessions : work'[t] \in {work[t], <<>>},
         toPhone'[Session(a)] \in {toPhone[Session(a)], <<>>}
  PROVE  Together(a)'
<1>1. Session(a)' = Session(a)
  BY DEF Session
<1>2. \A t \in Sessions : \A q : Queued(t, q)' => Queued(t, q)
  BY OneMessage DEF Queued, ChunkMessage, ChunkAt, Smaller
<1>3. \A s, p : InStep(s, p) => InStep(s, p)'
  BY <1>2 DEF InStep, After, ChunkAt, Smaller
<1> QED
  BY <1>1, <1>3, OneMessage DEF Together, Ack

-----------------------------------------------------------------------------
(* The phone *)

\* An attempt ends: it leaves its session, and what is under way to it is lost.
LEMMA Retires ==
  ASSUME ProtocolInv, NEW a \in Attempts, phone[a].pc # "idle",
         NEW pc \in Points \ (Active \union {"idle"}),
         phone' \in [Attempts -> PhoneStates], phone'[a].pc = pc, phone'[a].round = 1,
         \A b \in Attempts \ {a} : phone'[b] = phone[b],
         toPhone' = [toPhone EXCEPT ![Session(a)] = <<>>],
         pc \in {"succeeded", "done"} => state = "ready",
         record' \in BOOLEAN, record' # record => state = "ready",
         UNCHANGED <<library, mac, control, receiver, work>>
  PROVE  ProtocolInv'
<1> USE DEF library, mac, control, receiver
<1>1. /\ \A b \in Attempts : b # a => phone'[b] = phone[b]
      /\ pc \notin Active /\ pc \notin Waiting /\ pc # "idle" /\ pc # "opening"
  BY DEF Active, Waiting
<1>2. /\ \A s \in Sessions : toPhone'[s] \in {toPhone[s], <<>>}
      /\ \A b \in Attempts, i \in {1, 2} : toPhone'[<<b, i>>] \in {toPhone[<<b, i>>], <<>>}
      /\ \A i \in {1, 2} : toPhone'[<<a, i>>] = <<>>
  BY SessionOf, SessionPairs DEF ProtocolInv, TypeOK, Conversations, Talk
<1>3. TypeOK'
  <2>2. toPhone' \in [Sessions -> OneOf(Answers)]
    BY DEF ProtocolInv, TypeOK, OneOf
  <2> QED
    BY <1>2, <2>2 DEF ProtocolInv, TypeOK, PhoneStates, OneOf, Messages, Answers, AuthorizeMessage,
       CompleteMessage, ChunkMessage, ChunkAt, Smaller, Ack, Nack, Ready
<1>4. SuccessMeansReady'
  BY <1>1 DEF ProtocolInv, SuccessMeansReady
<1>5. StoredIsPrefix'
  BY DEF ProtocolInv, StoredIsPrefix, Aligned, ChunkAt, Smaller
<1>6. SessionsFresh'
  <2>1. ASSUME NEW b \in Attempts, b # a PROVE Fresh(b)'
    BY <1>1, <1>2, <2>1, FreshFrame DEF ProtocolInv, SessionsFresh
  <2>2. Fresh(a)'
    BY <1>1 DEF Fresh, Active
  <2> QED
    BY <2>1, <2>2 DEF SessionsFresh
<1>7. SessionsGranted'
  BY <1>1 DEF ProtocolInv, SessionsGranted, Session, Waiting
<1>8. Conversations'
  <2>1. ASSUME NEW b \in Attempts, b # a PROVE Talk(b)'
    BY <1>1, <1>2, <2>1, TalkFrame, ProtocolConstants DEF ProtocolInv, TypeOK, Conversations
  <2>2. Talk(a)'
    BY <1>1, <1>2 DEF Talk, Waiting
  <2> QED
    BY <2>1, <2>2 DEF Conversations
<1>9. QueuesOK'
  BY DEF ProtocolInv, QueuesOK, Queued, ChunkMessage, ChunkAt, Smaller, Aligned
<1>10. PositionsOK'
  BY <1>1 DEF ProtocolInv, PositionsOK, Aligned, Waiting
<1>11. LiveInStep'
  <2>1. ASSUME NEW b \in Attempts, live' = Session(b)' PROVE Together(b)'
    <3>1. CASE b = a
      BY <1>1, <3>1 DEF Together, Waiting
    <3>2. CASE b # a
      <4>1. Session(b)' = Session(b) /\ live = Session(b) /\ Session(b) \in Sessions
        BY <1>1, <2>1, <3>2, SessionOf DEF Session, ProtocolInv
      <4>2. Together(b)
        BY <4>1 DEF ProtocolInv, LiveInStep
      <4> QED
        BY <1>1, <1>2, <3>2, <4>1, <4>2, TogetherFrame DEF ProtocolInv
    <3> QED
      BY <3>1, <3>2
  <2> QED
    BY <2>1 DEF LiveInStep
<1>12. MacOK'
  BY DEF ProtocolInv, MacOK, CompleteMessage
<1>13. RecordOK'
  BY <1>1 DEF ProtocolInv, RecordOK, Waiting
<1> QED
  BY <1>3, <1>4, <1>5, <1>6, <1>7, <1>8, <1>9, <1>10, <1>11, <1>12, <1>13 DEF ProtocolInv

\* An attempt asks for a session that it has not asked for; a failed one may be forgotten.
LEMMA Asks ==
  ASSUME ProtocolInv, NEW a \in Attempts, NEW r \in {1, 2}, NEW x \in {"asked", "refused"},
         \/ phone[a].pc = "idle" /\ r = 1
         \/ phone[a].pc \in {"opening"} \union Waiting /\ phone[a].round = 1 /\ r = 2,
         phone' \in [Attempts -> PhoneStates], phone'[a].pc = "requesting", phone'[a].round = r,
         \A b \in Attempts \ {a} : \/ phone'[b] = phone[b]
                                   \/ phone[b].pc = "failed" /\ phone'[b] = Caller("gone", 1, FALSE),
         request' = [request EXCEPT ![<<a, r>>] = x],
         toPhone' = [toPhone EXCEPT ![Session(a)] = <<>>],
         creator' \in Sessions \union {None},
         UNCHANGED <<library, mac, receiver, work, record>>
  PROVE  ProtocolInv'
<1> USE DEF library, mac, receiver
<1>1. /\ phone[a].pc # "failed" /\ phone'[a].pc \notin Waiting /\ phone'[a].pc # "opening"
      /\ \A b \in Attempts : phone'[b] # phone[b] /\ b # a =>
           phone'[b].pc = "gone" /\ phone'[b].round = 1
  <2>1. Caller("gone", 1, FALSE).pc = "gone" /\ Caller("gone", 1, FALSE).round = 1
    BY DEF Caller
  <2> QED
    BY <2>1 DEF Waiting
<1>2. /\ \A s \in Sessions : toPhone'[s] \in {toPhone[s], <<>>}
      /\ \A b \in Attempts, i \in {1, 2} : toPhone'[<<b, i>>] \in {toPhone[<<b, i>>], <<>>}
      /\ \A i \in {1, 2} : toPhone'[<<a, i>>] = <<>>
  BY SessionOf, SessionPairs DEF ProtocolInv, TypeOK, Conversations, Talk
<1>3. TypeOK'
  <2>1. request' \in [Sessions -> Stages]
    BY DEF ProtocolInv, TypeOK, Stages
  <2>2. toPhone' \in [Sessions -> OneOf(Answers)]
    BY DEF ProtocolInv, TypeOK, OneOf
  <2> QED
    BY <1>2, <2>1, <2>2 DEF ProtocolInv, TypeOK, PhoneStates, OneOf, Messages, Answers, AuthorizeMessage,
       CompleteMessage, ChunkMessage, ChunkAt, Smaller, Ack, Nack, Ready
<1>4. SuccessMeansReady'
  BY <1>1 DEF ProtocolInv, SuccessMeansReady
<1>5. StoredIsPrefix'
  BY DEF ProtocolInv, StoredIsPrefix, Aligned, ChunkAt, Smaller
<1>6. /\ \A s \in Sessions \ {<<a, r>>} : request'[s] = request[s]
      /\ \A b \in Attempts \ {a}, i \in {1, 2} : request'[<<b, i>>] = request[<<b, i>>]
  BY SessionPairs DEF ProtocolInv, TypeOK
<1>7. Unused(<<a, r>>)
  BY DEF ProtocolInv, SessionsFresh, Fresh, Active, Waiting
<1>8. SessionsFresh'
  <2>0. Session(a)' = <<a, r>>
    BY DEF Session
  <2>1. ASSUME NEW b \in Attempts, b # a, phone'[b] = phone[b] PROVE Fresh(b)'
    BY <1>2, <1>6, <2>1, FreshFrame DEF ProtocolInv, SessionsFresh
  <2>2. ASSUME NEW b \in Attempts, b # a, phone'[b] # phone[b] PROVE Fresh(b)'
    BY <1>1, <2>2 DEF Fresh, Active, Waiting
  <2>3. ASSUME r = 1 PROVE Fresh(a)'
    <3>1. phone[a].pc = "idle" /\ Fresh(a)
      BY <2>3 DEF ProtocolInv, SessionsFresh
    <3>2. Unused(<<a, 2>>)
      BY <3>1 DEF Fresh, Active, Waiting
    <3>3. Unused(<<a, 2>>)' /\ Quiet(<<a, 1>>)'
      BY <1>2, <1>6, <1>7, <2>3, <3>2, SessionPairs DEF Unused, Quiet
    <3> QED
      BY <2>0, <2>3, <3>3 DEF Fresh, Active, Waiting, Unused, Quiet
  <2>4. ASSUME r = 2 PROVE Fresh(a)'
    <3>1. Quiet(<<a, 2>>)'
      BY <1>2, <1>7, <2>4 DEF Unused, Quiet
    <3> QED
      BY <2>0, <2>4, <3>1 DEF Fresh, Active, Waiting, Quiet
  <2> QED
    BY <2>1, <2>2, <2>3, <2>4 DEF SessionsFresh
<1>9. SessionsGranted'
  <2>1. live # None => live # <<a, r>>
    BY <1>7 DEF ProtocolInv, SessionsGranted, Unused
  <2>2. \A b \in Attempts \ {a} : phone'[b] = phone[b] => request'[Session(b)] = request[Session(b)]
    BY <1>6, SessionOf DEF ProtocolInv
  <2> QED
    BY <1>1, <1>6, <2>1, <2>2 DEF ProtocolInv, TypeOK, SessionsGranted, Session, Waiting
<1>10. Conversations'
  <2>1. ASSUME NEW b \in Attempts, b # a, phone'[b] = phone[b] PROVE Talk(b)'
    BY <1>2, <2>1, TalkFrame, ProtocolConstants DEF ProtocolInv, TypeOK, Conversations
  <2>2. ASSUME NEW b \in Attempts, b # a, phone'[b] # phone[b] PROVE Talk(b)'
    <3>1. \A i \in {1, 2} : toPhone[<<b, i>>] = <<>>
      BY <2>2 DEF ProtocolInv, Conversations, Talk, Waiting
    <3> QED
      BY <1>1, <1>2, <2>2, <3>1 DEF Talk, Waiting
  <2>3. Talk(a)'
    BY <1>1, <1>2 DEF Talk, Waiting
  <2> QED
    BY <2>1, <2>2, <2>3 DEF Conversations
<1>11. QueuesOK'
  BY DEF ProtocolInv, QueuesOK, Queued, ChunkMessage, ChunkAt, Smaller, Aligned
<1>12. PositionsOK'
  BY <1>1 DEF ProtocolInv, PositionsOK, Aligned, Waiting
<1>13. LiveInStep'
  <2>1. ASSUME NEW b \in Attempts, live' = Session(b)' PROVE Together(b)'
    <3>1. CASE b = a \/ phone'[b] # phone[b]
      BY <1>1, <3>1 DEF Together, Waiting
    <3>2. CASE b # a /\ phone'[b] = phone[b]
      <4>1. Session(b)' = Session(b) /\ live = Session(b) /\ Session(b) \in Sessions
        BY <2>1, <3>2, SessionOf DEF Session, ProtocolInv
      <4>2. Together(b)
        BY <4>1 DEF ProtocolInv, LiveInStep
      <4> QED
        BY <1>2, <3>2, <4>1, <4>2, TogetherFrame DEF ProtocolInv
    <3> QED
      BY <3>1, <3>2
  <2> QED
    BY <2>1 DEF LiveInStep
<1>14. MacOK'
  BY DEF ProtocolInv, MacOK, CompleteMessage
<1>15. RecordOK'
  BY <1>1 DEF ProtocolInv, RecordOK, Waiting
<1> QED
  BY <1>3, <1>4, <1>5, <1>8, <1>9, <1>10, <1>11, <1>12, <1>13, <1>14, <1>15 DEF ProtocolInv

\* An attempt goes on in its session: it has heard what it waited for, and may send.
LEMMA Moves ==
  ASSUME ProtocolInv, NEW a \in Attempts, NEW pc \in {"opening"} \union Waiting, NEW p \in 0 .. FileSize,
         phone[a].pc \in Active, request[Session(a)] = "granted", work[Session(a)] = <<>>,
         phone' \in [Attempts -> PhoneStates], \A b \in Attempts \ {a} : phone'[b] = phone[b],
         phone'[a].pc = pc, phone'[a].pos = p, phone'[a].round = phone[a].round,
         toPhone' = [toPhone EXCEPT ![Session(a)] = <<>>],
         \/ work' = work
         \/ pc # "opening" /\ live = Session(a) /\ work' = [work EXCEPT ![Session(a)] = <<ToSay(pc, p)>>],
         pc = "sending" => p < FileSize /\ Aligned(p) /\ p <= received,
         pc = "sending" /\ live = Session(a) => InStep(Session(a), p),
         pc = "completing" => p = FileSize /\ received = FileSize,
         record' \in BOOLEAN, record => record', record' \/ state = "ready",
         UNCHANGED <<library, mac, control, receiver>>
  PROVE  ProtocolInv'
<1> DEFINE s == Session(a)
           say == ToSay(pc, p)
<1>0. say \in Messages /\ (pc = "sending" <=> say = ChunkMessage(p)) /\ (pc # "sending" => say.kind # "chunk")
  BY ProtocolConstants, Kinds DEF ToSay, Messages, Waiting
<1> HIDE DEF say
<1> USE DEF library, mac, control, receiver
<1>1. /\ s = <<a, phone[a].round>> /\ s \in Sessions /\ phone[a].round \in {1, 2}
      /\ Session(a)' = s /\ phone[a].pc # "idle"
  BY SessionOf DEF ProtocolInv, Session, Active, Waiting
<1>2. /\ \A t \in Sessions : toPhone'[t] \in {toPhone[t], <<>>}
      /\ \A b \in Attempts, i \in {1, 2} : toPhone'[<<b, i>>] \in {toPhone[<<b, i>>], <<>>}
      /\ \A i \in {1, 2} : toPhone'[<<a, i>>] = <<>>
  BY <1>1, SessionPairs DEF ProtocolInv, TypeOK, Conversations, Talk
<1>3. /\ work'[s] \in {<<>>, <<say>>} /\ \A t \in Sessions \ {s} : work'[t] = work[t]
      /\ \A b \in Attempts \ {a}, i \in {1, 2} : work'[<<b, i>>] = work[<<b, i>>]
      /\ \A i \in {1, 2} : <<a, i>> # s => work'[<<a, i>>] = work[<<a, i>>]
  BY <1>1, SessionPairs DEF say, ProtocolInv, TypeOK
<1>4. TypeOK'
  <2>1. work' \in [Sessions -> OneOf(Messages)]
    BY <1>0 DEF say, ProtocolInv, TypeOK, OneOf
  <2>2. toPhone' \in [Sessions -> OneOf(Answers)]
    BY DEF ProtocolInv, TypeOK, OneOf
  <2>3. \A t \in Sessions : work'[t] = <<>> \/ toPhone'[t] = <<>>
    BY <1>1, <1>2, <1>3 DEF ProtocolInv, TypeOK
  <2> QED
    BY <2>1, <2>2, <2>3 DEF ProtocolInv, TypeOK, PhoneStates, OneOf, Messages, Answers, AuthorizeMessage,
       CompleteMessage, ChunkMessage, ChunkAt, Smaller, Ack, Nack, Ready
<1>5. SuccessMeansReady'
  BY DEF ProtocolInv, SuccessMeansReady, Waiting
<1>6. StoredIsPrefix'
  BY DEF ProtocolInv, StoredIsPrefix, Aligned, ChunkAt, Smaller
<1>7. SessionsFresh'
  <2>1. ASSUME NEW b \in Attempts, b # a PROVE Fresh(b)'
    <3>1. TypeOK /\ Fresh(b) /\ phone'[b] = phone[b]
      BY <2>1 DEF ProtocolInv, SessionsFresh
    <3> QED
      BY <1>2, <1>3, <2>1, <3>1, FreshFrame
  <2>2. Fresh(a)'
    <3>1. Fresh(a)
      BY DEF ProtocolInv, SessionsFresh
    <3>2. phone[a].round = 1 => Unused(<<a, 2>>)'
      <4>1. phone[a].round = 1 => Unused(<<a, 2>>) /\ <<a, 2>> # s
        BY <1>1, <3>1 DEF Fresh
      <4> QED
        BY <1>2, <1>3, <4>1 DEF Unused, Quiet
    <3>3. pc = "opening" => Quiet(s)'
      BY <1>1, <1>2, <1>3 DEF Quiet
    <3> QED
      BY <1>1, <3>2, <3>3 DEF Fresh, Quiet, Active, Waiting
  <2> QED
    BY <2>1, <2>2 DEF SessionsFresh
<1>8. SessionsGranted'
  BY <1>1 DEF ProtocolInv, SessionsGranted, Session, Waiting
<1>9. Conversations'
  <2>1. ASSUME NEW b \in Attempts, b # a PROVE Talk(b)'
    <3>1. TypeOK /\ Talk(b) /\ phone'[b] = phone[b] /\ received \in Nat
      BY <2>1, ProtocolConstants DEF ProtocolInv, TypeOK, Conversations
    <3>2. received' \in Nat /\ received <= received' /\ state' = state
      BY <3>1
    <3>3. \A i \in {1, 2} : /\ work'[<<b, i>>] \in {work[<<b, i>>], <<>>}
                           /\ toPhone'[<<b, i>>] \in {toPhone[<<b, i>>], <<>>}
      BY <1>2, <1>3, <2>1
    <3> QED
      BY <3>1, <3>2, <3>3, TalkFrame
  <2>2. Said(a)' = say \/ pc = "opening"
    BY DEF say, ToSay, Said, Waiting, ChunkMessage, ChunkAt, Smaller, AuthorizeMessage, CompleteMessage
  <2>3. Talk(a)'
    <3>1. toPhone'[s] = <<>> /\ \A n : <<n>> # <<>>
      BY <1>1, <1>2, OneMessage
    <3>2. work'[s] \in {<<>>, <<Said(a)'>>} \/ pc = "opening"
      BY <1>3, <2>2
    <3>3. pc = "opening" => phone'[a].pc \notin Waiting
      BY DEF Waiting
    <3>4. \A n : toPhone'[s] # <<n>>
      BY <3>1
    <3> HIDE DEF s
    <3> QED
      BY <1>1, <1>2, <3>2, <3>3, <3>4 DEF Talk, Waiting
  <2> QED
    BY <2>1, <2>3 DEF Conversations
<1>10. \A t \in Sessions : \A q :
         Queued(t, q)' => Queued(t, q) \/ (t = s /\ pc = "sending" /\ q = p /\ live = s)
  <2> SUFFICES ASSUME NEW t \in Sessions, NEW q, work'[t] = <<ChunkMessage(q)>>, work'[t] # work[t]
               PROVE  t = s /\ pc = "sending" /\ q = p /\ live = s
    BY DEF Queued, ChunkMessage, ChunkAt, Smaller
  <2>1. t = s /\ live = s /\ say = ChunkMessage(q)
    BY <1>3, OneMessage
  <2>2. pc = "sending" /\ ChunkMessage(p) = ChunkMessage(q)
    BY <1>0, <2>1, Kinds
  <2>3. p = q
    BY <2>2, Kinds
  <2> QED
    BY <2>1, <2>2, <2>3
<1>11. QueuesOK'
  BY <1>10 DEF ProtocolInv, QueuesOK, Aligned, InStep
<1>12. PositionsOK'
  BY DEF ProtocolInv, PositionsOK, Aligned, Waiting
<1>13. LiveInStep'
  <2>1. ASSUME NEW b \in Attempts, b # a, live' = Session(b)' PROVE Together(b)'
    <3>1. Session(b)' = Session(b) /\ live = Session(b) /\ Session(b) \in Sessions /\ live # s
      BY <1>1, <2>1, SessionOf DEF Session, ProtocolInv
    <3>2. Together(b) /\ work' = work
      BY <2>1, <3>1 DEF ProtocolInv, LiveInStep
    <3> QED
      BY <1>2, <2>1, <3>1, <3>2, TogetherFrame DEF ProtocolInv
  <2>2. ASSUME live' = Session(a)' PROVE Together(a)'
    <3>1. pc = "sending" => InStep(s, p)'
      BY <1>1, <1>10, <2>2 DEF InStep, After, ChunkAt, Smaller
    <3>2. \A n : toPhone'[s] # <<Ack(n)>>
      <4>1. toPhone'[s] = <<>>
        BY <1>1, <1>2
      <4> QED
        BY <4>1, OneMessage
    <3> QED
      BY <1>1, <3>1, <3>2 DEF Together, Ack, InStep, After, ChunkAt, Smaller, Queued, ChunkMessage
  <2> QED
    BY <2>1, <2>2 DEF LiveInStep
<1>14. MacOK'
  <2>1. live = s => up
    BY <1>1, ProtocolConstants DEF ProtocolInv, SessionsGranted
  <2>2. worker # None => worker \in Sessions /\ worker # s
    BY <1>1, OneMessage DEF ProtocolInv, MacOK, TypeOK
  <2> QED
    BY <1>3, <2>1, <2>2 DEF ProtocolInv, MacOK, CompleteMessage
<1>15. RecordOK'
  BY DEF RecordOK
<1> QED
  BY <1>4, <1>5, <1>6, <1>7, <1>8, <1>9, <1>11, <1>12, <1>13, <1>14, <1>15 DEF ProtocolInv

\* Nothing is under way to an attempt that does not wait.
LEMMA Silent ==
  ASSUME ProtocolInv, NEW a \in Attempts, phone[a].pc \notin Waiting
  PROVE  [toPhone EXCEPT ![Session(a)] = <<>>] = toPhone
<1>1. Session(a) \in Sessions /\ Session(a) = <<a, phone[a].round>> /\ phone[a].round \in {1, 2}
  BY SessionOf DEF ProtocolInv
<1>2. toPhone[Session(a)] = <<>>
  BY <1>1 DEF ProtocolInv, Conversations, Talk
<1> QED
  BY <1>1, <1>2 DEF ProtocolInv, TypeOK

\* What an attempt hears is the one answer that it may hear.
LEMMA Hears ==
  ASSUME ProtocolInv, NEW a \in Attempts, NEW s, s = Session(a), toPhone[s] # <<>>
  PROVE  /\ s \in Sessions /\ work[s] = <<>> /\ phone[a].pc \in Waiting
         /\ [toPhone EXCEPT ![s] = Tail(@)] = [toPhone EXCEPT ![s] = <<>>]
         /\ Head(toPhone[s]) \in Answers /\ toPhone[s] = <<Head(toPhone[s])>>
         /\ MayHear(a, Head(toPhone[s]))
<1>1. s \in Sessions /\ s = <<a, phone[a].round>> /\ phone[a].round \in {1, 2} /\ TypeOK
  BY SessionOf DEF ProtocolInv
<1>2. PICK m \in Answers : toPhone[s] = <<m>>
  BY <1>1, Wires
<1>3. work[s] = <<>>
  BY <1>1, Wires
<1>4. Head(toPhone[s]) = m /\ Tail(toPhone[s]) = <<>>
  BY <1>2, OneMessage
<1>5. phone[a].pc \in Waiting /\ MayHear(a, m)
  BY <1>1, <1>2 DEF ProtocolInv, Conversations, Talk
<1> QED
  BY <1>1, <1>2, <1>3, <1>4, <1>5

\* What is known of an attempt wherever it stands.
LEMMA PhoneKnows ==
  ASSUME ProtocolInv, NEW a \in Attempts
  PROVE  /\ phone \in [Attempts -> PhoneStates] /\ phone[a] \in PhoneStates
         /\ phone[a].known \in BOOLEAN /\ phone[a].round \in {1, 2} /\ phone[a].pos \in 0 .. FileSize
         /\ phone[a].pc \notin Active => phone[a].round = 1
         /\ phone[a].pc \in {"opening"} \union Waiting => request[Session(a)] = "granted"
BY DEF ProtocolInv, TypeOK, PhoneStates, SessionsFresh, Fresh, SessionsGranted

\* The phone asks for a session.
LEMMA PhoneAsks ==
  ASSUME ProtocolInv, NEW a \in Attempts,
         \/ CreateAttempt(a) \/ ResumeAttempt(a) \/ (\E b \in Attempts : RetryAttempt(a, b))
  PROVE  ProtocolInv'
<1> DEFINE x == IF up THEN "asked" ELSE "refused"
<1>1. /\ phone[a].pc = "idle" /\ x \in {"asked", "refused"}
      /\ request' = [request EXCEPT ![<<a, 1>>] = x]
      /\ UNCHANGED <<library, mac, receiver, work, toPhone, record>>
  BY DEF CreateAttempt, ResumeAttempt, RetryAttempt, Asked, wires
<1>2. toPhone' = [toPhone EXCEPT ![Session(a)] = <<>>]
  BY <1>1, Silent DEF Waiting
<1>3. phone[a].round = 1 /\ phone \in [Attempts -> PhoneStates] /\ <<a, 1>> \in Sessions
  BY <1>1, PhoneKnows, SessionPairs DEF Active, Waiting
<1>4. creator' \in Sessions \union {None}
  BY <1>3 DEF CreateAttempt, ResumeAttempt, RetryAttempt, ProtocolInv, TypeOK
<1>5. /\ phone' \in [Attempts -> PhoneStates] /\ phone'[a].pc = "requesting" /\ phone'[a].round = 1
      /\ \A b \in Attempts \ {a} : \/ phone'[b] = phone[b]
                                   \/ phone[b].pc = "failed" /\ phone'[b] = Caller("gone", 1, FALSE)
  <2>1. CASE CreateAttempt(a)
    BY <1>3, <2>1 DEF CreateAttempt, PhoneStates, Points, Active
  <2>2. CASE ResumeAttempt(a)
    BY <1>3, <2>2 DEF ResumeAttempt, PhoneStates, Points, Active
  <2>3. CASE \E b \in Attempts : RetryAttempt(a, b)
    <3>1. PICK b \in Attempts : RetryAttempt(a, b)
      BY <2>3
    <3>2. /\ Caller("requesting", 1, TRUE) \in PhoneStates /\ Caller("gone", 1, FALSE) \in PhoneStates
          /\ Caller("requesting", 1, TRUE).pc = "requesting" /\ Caller("requesting", 1, TRUE).round = 1
      BY ProtocolConstants DEF Caller, PhoneStates, Points, Active
    <3>3. a # b /\ phone[b].pc = "failed"
      BY <1>1, <3>1 DEF RetryAttempt
    <3> QED
      BY <1>3, <3>1, <3>2, <3>3 DEF RetryAttempt
  <2> QED
    BY <2>1, <2>2, <2>3
<1> QED
  BY <1>1, <1>2, <1>4, <1>5, Asks

\* The phone gives an attempt up, or ends it.
LEMMA PhoneEnds ==
  ASSUME ProtocolInv, NEW a \in Attempts,
         \/ SaveFails(a) \/ RequestFails(a) \/ ReceiveNack(a) \/ ReceiveReady(a) \/ TransferRejected(a)
         \/ RemoveRecord(a)
  PROVE  ProtocolInv'
<1> USE DEF wires
<1>1. phone[a].pc # "idle"
  BY DEF SaveFails, RequestFails, ReceiveNack, ReceiveReady, TransferRejected, RemoveRecord, Active, Waiting
<1>2. toPhone' = [toPhone EXCEPT ![Session(a)] = <<>>]
  <2>1. CASE SaveFails(a) \/ RequestFails(a) \/ RemoveRecord(a)
    BY <2>1, Silent DEF SaveFails, RequestFails, RemoveRecord, Waiting
  <2>2. CASE ReceiveNack(a) \/ ReceiveReady(a)
    BY <2>2, Hears DEF ReceiveNack, ReceiveReady
  <2>3. CASE TransferRejected(a)
    BY <2>3 DEF TransferRejected, Hangs
  <2> QED
    BY <2>1, <2>2, <2>3
<1>3. UNCHANGED <<library, mac, control, receiver, work>>
  BY DEF SaveFails, RequestFails, ReceiveNack, ReceiveReady, TransferRejected, RemoveRecord
<1>4. PICK pc \in {"failed", "succeeded", "done"} :
        /\ phone' \in [Attempts -> PhoneStates] /\ phone'[a].pc = pc /\ phone'[a].round = 1
        /\ \A b \in Attempts \ {a} : phone'[b] = phone[b]
        /\ pc # "failed" => ReceiveReady(a) \/ RemoveRecord(a)
  <2>1. /\ \A pc \in Points, k \in BOOLEAN : Caller(pc, 1, k) \in PhoneStates
        /\ \A pc, k : Caller(pc, 1, k).pc = pc /\ Caller(pc, 1, k).round = 1
    BY ProtocolConstants DEF Caller, PhoneStates
  <2>2. {"failed", "succeeded", "done"} \subseteq Points
    BY DEF Points
  <2>3. phone \in [Attempts -> PhoneStates] /\ phone[a].known \in BOOLEAN
    BY PhoneKnows
  <2>4. CASE SaveFails(a)
    BY <2>1, <2>2, <2>3, <2>4 DEF SaveFails
  <2>5. CASE RequestFails(a) \/ ReceiveNack(a) \/ TransferRejected(a)
    <3>1. Fails(a)
      BY <2>5 DEF RequestFails, ReceiveNack, TransferRejected
    <3> QED
      BY <2>1, <2>2, <2>3, <3>1 DEF Fails
  <2>6. CASE ReceiveReady(a)
    BY <2>1, <2>2, <2>3, <2>6 DEF ReceiveReady
  <2>7. CASE RemoveRecord(a)
    <3>1. phone[a].round = 1
      BY <2>7, PhoneKnows DEF RemoveRecord, Active, Waiting
    <3> QED
      BY <2>2, <2>3, <2>7, <3>1 DEF RemoveRecord, PhoneStates
  <2> QED
    BY <2>4, <2>5, <2>6, <2>7
<1>5. ReceiveReady(a) \/ RemoveRecord(a) => state = "ready"
  <2>1. CASE RemoveRecord(a)
    BY <2>1 DEF RemoveRecord, ProtocolInv, SuccessMeansReady
  <2>2. CASE ReceiveReady(a)
    <3>1. phone[a].pc = "completing" /\ MayHear(a, Head(toPhone[Session(a)]))
          /\ Head(toPhone[Session(a)]).kind = "ready"
      BY <2>2, Hears DEF ReceiveReady
    <3> QED
      BY <3>1, Kinds DEF MayHear
  <2> QED
    BY <2>1, <2>2
<1>6. record' \in BOOLEAN /\ (record' # record => state = "ready")
  BY <1>5 DEF ProtocolInv, TypeOK, SaveFails, RequestFails, ReceiveNack, ReceiveReady, TransferRejected,
     RemoveRecord
<1>7. pc \in Points \ (Active \union {"idle"})
  BY DEF Points, Active, Waiting
<1> QED
  BY <1>1, <1>2, <1>3, <1>4, <1>5, <1>6, <1>7, Retires

\* The first loss of the connection is refreshed, the second ends the attempt.
LEMMA PhoneLoses ==
  ASSUME ProtocolInv, NEW a \in Attempts, TransferLost(a)
  PROVE  ProtocolInv'
<1> DEFINE x == IF up THEN "asked" ELSE "refused"
<1>1. /\ phone[a].pc \in {"opening"} \union Waiting /\ phone[a].pc # "idle"
      /\ x \in {"asked", "refused"}
      /\ toPhone' = [toPhone EXCEPT ![Session(a)] = <<>>]
      /\ UNCHANGED <<library, mac, receiver, work, record>> /\ creator' = creator
  BY DEF TransferLost, Hangs, Active, Waiting
<1>2. /\ phone \in [Attempts -> PhoneStates] /\ phone[a].round \in {1, 2}
      /\ phone[a].known \in BOOLEAN
  BY PhoneKnows
<1>3. CASE phone[a].round = 1
  <2>1. request' = [request EXCEPT ![<<a, 2>>] = x] /\ creator' \in Sessions \union {None}
    BY <1>1, <1>3 DEF TransferLost, Asked, ProtocolInv, TypeOK
  <2>2. /\ Caller("requesting", 2, TRUE) \in PhoneStates
        /\ Caller("requesting", 2, TRUE).pc = "requesting" /\ Caller("requesting", 2, TRUE).round = 2
    BY ProtocolConstants DEF Caller, PhoneStates, Points, Active
  <2>3. /\ phone' \in [Attempts -> PhoneStates] /\ phone'[a].pc = "requesting" /\ phone'[a].round = 2
        /\ \A b \in Attempts \ {a} : phone'[b] = phone[b]
    BY <1>2, <1>3, <2>2 DEF TransferLost
  <2> QED
    BY <1>1, <1>3, <2>1, <2>3, Asks
<1>4. CASE phone[a].round # 1
  <2>1. Fails(a) /\ UNCHANGED control
    BY <1>1, <1>4 DEF TransferLost, control
  <2>2. /\ Caller("failed", 1, phone[a].known) \in PhoneStates
        /\ Caller("failed", 1, phone[a].known).pc = "failed" /\ Caller("failed", 1, phone[a].known).round = 1
    BY <1>2, ProtocolConstants DEF Caller, PhoneStates, Points
  <2>3. /\ phone' \in [Attempts -> PhoneStates] /\ phone'[a].pc = "failed" /\ phone'[a].round = 1
        /\ \A b \in Attempts \ {a} : phone'[b] = phone[b]
    BY <1>2, <2>1, <2>2 DEF Fails
  <2>4. "failed" \in Points \ (Active \union {"idle"}) /\ "failed" \notin {"succeeded", "done"}
    BY DEF Points, Active, Waiting
  <2>5. record' \in BOOLEAN /\ record' = record
    BY <1>1 DEF ProtocolInv, TypeOK
  <2> QED
    BY <1>1, <2>1, <2>3, <2>4, <2>5, Retires
<1> QED
  BY <1>3, <1>4

\* The grant is recorded, and the channels open.
LEMMA PhoneOpens ==
  ASSUME ProtocolInv, NEW a \in Attempts, ReceiveGrant(a) \/ OpenChannels(a)
  PROVE  ProtocolInv'
<1> DEFINE s == Session(a)
<1>1. /\ phone \in [Attempts -> PhoneStates] /\ phone[a].pos \in 0 .. FileSize
      /\ s \in Sessions /\ TypeOK
      /\ phone[a].pc \in {"requesting", "opening"} /\ phone[a].pc \notin Waiting /\ phone[a].pc \in Active
  BY PhoneKnows, SessionOf DEF ReceiveGrant, OpenChannels, ProtocolInv, Active, Waiting
<1>2. work[s] = <<>> /\ request[s] = "granted"
  BY <1>1, PhoneKnows DEF ProtocolInv, SessionsFresh, Fresh, Quiet, ReceiveGrant, OpenChannels
<1>3. [toPhone EXCEPT ![s] = <<>>] = toPhone
  BY <1>1, Silent
<1>4. AuthorizeMessage \in Messages /\ CompleteMessage \in Messages
  BY DEF Messages
<1>5. CASE ReceiveGrant(a)
  <2>1. /\ phone' \in [Attempts -> PhoneStates] /\ \A b \in Attempts \ {a} : phone'[b] = phone[b]
        /\ phone'[a].pc = "opening" /\ phone'[a].pos = phone[a].pos /\ phone'[a].round = phone[a].round
    BY <1>1, <1>5 DEF ReceiveGrant, PhoneStates, Points, Active
  <2>2. work' = work /\ toPhone' = toPhone /\ UNCHANGED <<library, mac, control, receiver>>
    BY <1>5 DEF ReceiveGrant, wires
  <2>3. record' \in BOOLEAN /\ (record => record') /\ (record' \/ state = "ready")
    BY <1>5, PhoneKnows DEF ReceiveGrant, ProtocolInv, TypeOK, RecordOK
  <2>4. "opening" \in {"opening"} \union Waiting
    OBVIOUS
  <2>5. "opening" # "authorizing" /\ "opening" # "sending" /\ "opening" # "completing"
    OBVIOUS
  <2> QED
    BY <1>1, <1>2, <1>3, <1>4, <2>1, <2>2, <2>3, <2>4, <2>5, Moves
<1>6. CASE OpenChannels(a)
  <2>1. /\ phone' \in [Attempts -> PhoneStates] /\ \A b \in Attempts \ {a} : phone'[b] = phone[b]
        /\ phone'[a].pc = "authorizing" /\ phone'[a].pos = phone[a].pos /\ phone'[a].round = phone[a].round
    BY <1>1, <1>6 DEF OpenChannels, PhoneStates, Points, Active, Waiting
  <2>2. toPhone' = toPhone /\ UNCHANGED <<library, mac, control, receiver>> /\ record' = record
    BY <1>6 DEF OpenChannels
  <2>3. work' = work \/ (live = s /\ work' = [work EXCEPT ![s] = <<ToSay("authorizing", phone[a].pos)>>])
    BY <1>1, <1>2, <1>6, Sends DEF OpenChannels, ToSay
  <2>4. record \in BOOLEAN /\ (record \/ state = "ready")
    BY <1>6 DEF OpenChannels, ProtocolInv, TypeOK, RecordOK
  <2>5. "authorizing" \in {"opening"} \union Waiting /\ "authorizing" # "opening"
        /\ "authorizing" # "sending" /\ "authorizing" # "completing"
    BY DEF Waiting
  <2> QED
    BY <1>1, <1>2, <1>3, <1>4, <2>1, <2>2, <2>3, <2>4, <2>5, Moves
<1> QED
  BY <1>5, <1>6

\* An acknowledgement is the expected one, and the phone is not ahead after it.
LEMMA AckIsExpected ==
  ASSUME ProtocolInv, NEW a \in Attempts, NEW n \in 0 .. FileSize,
         phone[a].pc \in {"authorizing", "sending"}, MayHear(a, Ack(n))
  PROVE  /\ Expected(a, n) /\ Aligned(n) /\ n <= received
         /\ (live = Session(a) /\ toPhone[Session(a)] = <<Ack(n)>>) => InStep(Session(a), n)
<1>1. /\ received \in 0 .. FileSize /\ FileSize \in Nat
      /\ \A i : Ack(n) = Ack(i) => n = i
  BY ProtocolConstants, Kinds DEF ProtocolInv, TypeOK
<1>2. Ack(n) # Nack /\ Ack(n) # Ready
  BY Kinds
<1>3. CASE phone[a].pc = "authorizing"
  <2>1. n <= received /\ Aligned(n)
    BY <1>1, <1>2, <1>3 DEF MayHear
  <2>2. live = Session(a) /\ toPhone[Session(a)] = <<Ack(n)>> => InStep(Session(a), n)
    BY <1>3 DEF ProtocolInv, LiveInStep, Together
  <2> QED
    BY <1>3, <2>1, <2>2 DEF Expected
<1>4. CASE phone[a].pc = "sending"
  <2> DEFINE p == phone[a].pos
  <2>1. n = After(p) /\ After(p) <= received
    BY <1>1, <1>2, <1>4 DEF MayHear
  <2>2. p \in 0 .. FileSize /\ p < FileSize /\ Aligned(p)
    BY <1>4, PhoneKnows DEF ProtocolInv, PositionsOK
  <2>3. p < After(p) /\ Aligned(After(p))
    BY <2>2, Positions
  <2>4. live = Session(a) => InStep(Session(a), n)
    <3> SUFFICES ASSUME live = Session(a) PROVE InStep(Session(a), n)
      OBVIOUS
    <3>1. InStep(Session(a), p)
      BY <1>4 DEF ProtocolInv, LiveInStep, Together
    <3>2. received = n
      BY <1>1, <2>1, <2>2, <2>3, <3>1 DEF InStep
    <3>3. \A q \in 0 .. FileSize - 1 : q <= p => q <= n
      BY <1>1, <2>1, <2>2, <2>3
    <3> QED
      BY <3>1, <3>2, <3>3 DEF InStep
  <2> QED
    BY <1>4, <2>1, <2>3, <2>4 DEF Expected, After
<1> QED
  BY <1>3, <1>4

\* The acknowledgement comes, and the phone sends the next chunk or asks to complete.
LEMMA PhoneAdvances ==
  ASSUME ProtocolInv, NEW a \in Attempts, ReceiveAck(a)
  PROVE  ProtocolInv'
<1> DEFINE s == Session(a)
           m == Head(toPhone[s])
<1>1. /\ phone \in [Attempts -> PhoneStates] /\ s \in Sessions /\ TypeOK
      /\ phone[a].pc \in {"authorizing", "sending"} /\ phone[a].pc \in Active
      /\ phone[a].pc \in {"opening"} \union Waiting
      /\ toPhone[s] # <<>> /\ m.kind = "ack"
  BY PhoneKnows, SessionOf DEF ReceiveAck, ProtocolInv, Active, Waiting
<1>2. /\ work[s] = <<>> /\ m \in Answers /\ toPhone[s] = <<m>> /\ MayHear(a, m)
      /\ toPhone' = [toPhone EXCEPT ![s] = <<>>] /\ request[s] = "granted"
  BY <1>1, Hears, PhoneKnows DEF ReceiveAck
<1>3. PICK n \in 0 .. FileSize : m = Ack(n) /\ m.received = n
  BY <1>1, <1>2, Kinds DEF Answers
<1>4. /\ Expected(a, n) /\ Aligned(n) /\ n <= received
      /\ live = s => InStep(s, n)
  BY <1>1, <1>2, <1>3, AckIsExpected
<1>5. Advance(a, n) /\ UNCHANGED <<library, mac, control, receiver>> /\ record' = record
  BY <1>3, <1>4 DEF ReceiveAck
<1>6. FileSize \in Nat /\ received \in 0 .. FileSize
  BY <1>1, ProtocolConstants DEF TypeOK
<1>7. record' \in BOOLEAN /\ (record => record') /\ (record' \/ state = "ready")
  BY <1>1, <1>5 DEF ProtocolInv, TypeOK, RecordOK
<1>8. s = Session(a)
  OBVIOUS
<1> HIDE DEF m
<1>9. CASE n < FileSize
  <2>1. /\ phone' \in [Attempts -> PhoneStates] /\ \A b \in Attempts \ {a} : phone'[b] = phone[b]
        /\ phone'[a].pc = "sending" /\ phone'[a].pos = n /\ phone'[a].round = phone[a].round
    BY <1>1, <1>5, <1>9 DEF Advance, PhoneStates, Points, Active, Waiting
  <2>2. ChunkMessage(n) \in Messages
    BY <1>6, <1>9 DEF Messages
  <2>3. work' = work \/ (live = s /\ work' = [work EXCEPT ![s] = <<ToSay("sending", n)>>])
    BY <1>1, <1>2, <1>5, <1>8, <1>9, Sends DEF Advance, ToSay
  <2>4. /\ "sending" \in {"opening"} \union Waiting /\ "sending" # "opening"
        /\ "sending" # "authorizing" /\ "sending" # "completing"
    BY DEF Waiting
  <2> QED
    BY <1>1, <1>2, <1>4, <1>5, <1>7, <1>8, <1>9, <2>1, <2>2, <2>3, <2>4, Moves
<1>10. CASE ~(n < FileSize)
  <2>1. /\ phone' \in [Attempts -> PhoneStates] /\ \A b \in Attempts \ {a} : phone'[b] = phone[b]
        /\ phone'[a].pc = "completing" /\ phone'[a].pos = n /\ phone'[a].round = phone[a].round
    BY <1>1, <1>5, <1>10 DEF Advance, PhoneStates, Points, Active, Waiting
  <2>2. CompleteMessage \in Messages
    BY DEF Messages
  <2>3. work' = work \/ (live = s /\ work' = [work EXCEPT ![s] = <<ToSay("completing", n)>>])
    BY <1>1, <1>2, <1>5, <1>8, <1>10, Sends DEF Advance, ToSay
  <2>4. /\ "completing" \in {"opening"} \union Waiting /\ "completing" # "opening"
        /\ "completing" # "authorizing" /\ "completing" # "sending"
    BY DEF Waiting
  <2>5. n = FileSize /\ received = FileSize
    BY <1>4, <1>6, <1>10
  <2> QED
    BY <1>1, <1>2, <1>5, <1>7, <1>8, <2>1, <2>2, <2>3, <2>4, <2>5, Moves
<1> QED
  BY <1>9, <1>10

\* A page that is reloaded forgets its attempts.
LEMMA PhoneReloads ==
  ASSUME ProtocolInv, Reload
  PROVE  ProtocolInv'
<1> USE DEF library, mac, control, receiver
<1>1. UNCHANGED <<library, mac, control, receiver, work, record>>
      /\ toPhone' = [t \in Sessions |-> <<>>]
  BY DEF Reload
<1>2. /\ phone' \in [Attempts -> PhoneStates]
      /\ \A a \in Attempts : phone'[a].round = 1 /\ phone'[a].pc \in {"idle", "done", "gone"}
      /\ \A a \in Attempts : phone'[a].pc \in {"idle", "done"} => phone'[a] = phone[a]
  <2>1. /\ Caller("gone", 1, FALSE).pc = "gone" /\ Caller("gone", 1, FALSE).round = 1
        /\ Caller("gone", 1, FALSE) \in PhoneStates
    BY ProtocolConstants DEF Caller, PhoneStates, Points
  <2>2. \A a \in Attempts :
          phone[a] \in PhoneStates /\ (phone[a].pc \in {"idle", "done"} => phone[a].round = 1)
    BY PhoneKnows DEF Active, Waiting
  <2>3. phone' = [a \in Attempts |->
                    IF phone[a].pc \in {"idle", "done"} THEN phone[a] ELSE Caller("gone", 1, FALSE)]
    BY DEF Reload
  <2> QED
    BY <2>1, <2>2, <2>3
<1>3. TypeOK'
  BY <1>1, <1>2 DEF ProtocolInv, TypeOK, PhoneStates, OneOf, Messages, Answers, AuthorizeMessage,
     CompleteMessage, ChunkMessage, ChunkAt, Smaller, Ack, Nack, Ready
<1>4. SuccessMeansReady'
  BY <1>1, <1>2 DEF ProtocolInv, SuccessMeansReady
<1>5. StoredIsPrefix'
  BY <1>1 DEF ProtocolInv, StoredIsPrefix, Aligned, ChunkAt, Smaller
<1>6. SessionsFresh'
  <2> SUFFICES ASSUME NEW a \in Attempts PROVE Fresh(a)'
    BY DEF SessionsFresh
  <2>1. CASE phone'[a] = phone[a]
    BY <1>1, <2>1, FreshFrame, SessionPairs DEF ProtocolInv, SessionsFresh
  <2>2. CASE phone'[a].pc = "gone"
    BY <1>2, <2>2 DEF Fresh, Active, Waiting
  <2> QED
    BY <1>2, <2>1, <2>2
<1>7. SessionsGranted'
  BY <1>1, <1>2 DEF ProtocolInv, SessionsGranted, Waiting
<1>8. Conversations'
  BY <1>1, <1>2, SessionPairs DEF Conversations, Talk, Waiting
<1>9. QueuesOK'
  BY <1>1 DEF ProtocolInv, QueuesOK, Queued, ChunkMessage, ChunkAt, Smaller, Aligned
<1>10. PositionsOK'
  BY <1>2 DEF PositionsOK
<1>11. LiveInStep'
  BY <1>2 DEF LiveInStep, Together
<1>12. MacOK'
  BY <1>1 DEF ProtocolInv, MacOK, CompleteMessage
<1>13. RecordOK'
  BY <1>1, <1>2 DEF ProtocolInv, RecordOK, Waiting
<1> QED
  BY <1>3, <1>4, <1>5, <1>6, <1>7, <1>8, <1>9, <1>10, <1>11, <1>12, <1>13 DEF ProtocolInv
=============================================================================
