------------------------ MODULE MaterialLibraryLanes -------------------------
(* Proofs about MaterialLibrary for every set of uploads, files and tasks. *)
EXTENDS MaterialLibrary, FiniteSetTheorems, TLAPS

USE ConstantsOK

-----------------------------------------------------------------------------
(* Typing *)

LEMMA IdleTyped == IdleTask \in Locals
BY DEF IdleTask, Locals, Steps, Operations

LEMMA CaptureTyped ==
  ASSUME TypeOK, NEW t \in Runners, NEW u \in Uploads, NEW state \in States,
         NEW persisted \in SUBSET Chunk, NEW next \in Steps,
         Capture(t, u, state, persisted, next)
  PROVE  task' \in [Runners -> Locals] /\ queue' = queue
<1>1. [state |-> state, chunks |-> persisted] \in Images
  BY DEF Images
<1>2. task[t] \in Locals
  BY DEF TypeOK
<1>3. [task[t] EXCEPT !.pc = "mirror", !.next = next, !.upload = u,
          !.image = [state |-> state, chunks |-> persisted]] \in Locals
  BY <1>1, <1>2 DEF Locals, Steps
<1> QED BY <1>3 DEF Capture, TypeOK

LEMMA MarkTyped ==
  ASSUME TypeOK, NEW t \in Runners, NEW u \in Uploads, NEW state \in States,
         NEW next \in Steps, Mark(t, u, state, next)
  PROVE  TypeOK'
<1>1. task' \in [Runners -> Locals] /\ queue' = queue
  <2>1. Capture(t, u, state, chunks[u], next) BY DEF Mark
  <2>2. chunks[u] \in SUBSET Chunk BY DEF TypeOK
  <2> QED BY <2>1, <2>2, CaptureTyped
<1>2. row' \in [Uploads -> Rows]
  <2>1. row[u] \in Rows BY DEF TypeOK
  <2>2. [row[u] EXCEPT !.state = state] \in Rows BY <2>1 DEF Rows
  <2> QED BY <2>2 DEF Mark, TypeOK
<1> QED BY <1>1, <1>2 DEF Mark, TypeOK, files

LEMMA GotoTyped ==
  ASSUME TypeOK, NEW t \in Runners, NEW pc \in Steps, Goto(t, pc)
  PROVE  task' \in [Runners -> Locals] /\ queue' = queue
<1>1. task[t] \in Locals
  BY DEF TypeOK
<1>2. [task[t] EXCEPT !.pc = pc] \in Locals
  BY <1>1 DEF Locals
<1> QED BY <1>2 DEF Goto, TypeOK

LEMMA HaltTyped ==
  ASSUME Halt
  PROVE  /\ task' \in [Runners -> Locals] /\ queue' \in [Lanes -> Seq(Tasks)]
         /\ mode' \in {"down", "recovering", "serving"} /\ todo' \subseteq Uploads
BY IdleTyped DEF Halt

\* A task that works holds the head of its lane, and an upload unless it is
\* still waiting for one.
LEMMA Holding ==
  ASSUME TypeOK, LanesOK, ArgumentsOK, NEW t \in Runners, task[t].pc # "idle"
  PROVE  /\ ~(Creates(t) /\ task[t].pc \in {"queued", "admit"}) => task[t].upload \in Uploads
         /\ t # Recovery => /\ t \in Tasks /\ Lane(t) \in Lanes
                            /\ queue[Lane(t)] \in Seq(Tasks)
                            /\ queue[Lane(t)] # <<>>
         /\ t # Recovery /\ Active(t) => Head(queue[Lane(t)]) = t
<1>1. task[t] \in Locals
  BY DEF TypeOK
<1>2. ~(Creates(t) /\ task[t].pc \in {"queued", "admit"}) => task[t].upload \in Uploads
  BY <1>1 DEF ArgumentsOK, Locals
<1>3. t # Recovery => t \in Tasks /\ Lane(t) \in Lanes
  BY <1>2 DEF Runners, Lane, Lanes
<1>4. t # Recovery => queue[Lane(t)] \in Seq(Tasks)
  BY <1>3 DEF TypeOK
<1>5. t # Recovery => queue[Lane(t)] # <<>>
  BY <1>3, <1>4 DEF LanesOK
<1>6. t # Recovery /\ Active(t) => Head(queue[Lane(t)]) = t
  BY <1>3, <1>4, <1>5 DEF LanesOK
<1> QED BY <1>2, <1>3, <1>4, <1>5, <1>6

LEMMA FinishTyped ==
  ASSUME TypeOK, LanesOK, ArgumentsOK, NEW t \in Runners, task[t].pc # "idle", Finish(t)
  PROVE  task' \in [Runners -> Locals] /\ queue' \in [Lanes -> Seq(Tasks)]
<1>1. task' \in [Runners -> Locals]
  BY IdleTyped DEF Finish, TypeOK
<1>2. CASE t = Recovery
  BY <1>1, <1>2 DEF Finish, TypeOK
<1>3. CASE t # Recovery
  <2>1. queue[Lane(t)] \in Seq(Tasks) /\ queue[Lane(t)] # <<>> /\ Lane(t) \in Lanes
    BY <1>3, Holding
  <2>2. Tail(queue[Lane(t)]) \in Seq(Tasks)
    BY <2>1
  <2> QED BY <1>1, <1>3, <2>1, <2>2 DEF Finish, TypeOK
<1> QED BY <1>2, <1>3

LEMMA ThrowTyped ==
  ASSUME TypeOK, LanesOK, ArgumentsOK, NEW t \in Runners, task[t].pc # "idle", Throw(t)
  PROVE  /\ task' \in [Runners -> Locals] /\ queue' \in [Lanes -> Seq(Tasks)]
         /\ mode' \in {"down", "recovering", "serving"} /\ todo' \subseteq Uploads
BY HaltTyped, FinishTyped DEF Throw, TypeOK

LEMMA EnqueueTyped ==
  ASSUME TypeOK, NEW t \in Tasks, NEW op \in Operations,
         NEW u \in Uploads \union {None},
         NEW arg \in Declared \union Packets \union {None}, Enqueue(t, op, u, arg)
  PROVE  TypeOK'
<1> DEFINE x == [IdleTask EXCEPT !.pc = "queued", !.op = op, !.upload = u, !.arg = arg]
<1>1. x \in Locals
  BY IdleTyped DEF Locals, Steps
<1>2. task' \in [Runners -> Locals]
  BY <1>1 DEF Enqueue, TypeOK, Runners
<1>3. queue' \in [Lanes -> Seq(Tasks)]
  BY DEF Enqueue, TypeOK, Lanes
<1> QED BY <1>2, <1>3 DEF Enqueue, TypeOK, database, files


LEMMA AnswerTyped ==
  ASSUME TypeOK, LanesOK, ArgumentsOK, NEW t \in Runners, task[t].pc # "idle", Answer(t)
  PROVE  TypeOK'
BY FinishTyped DEF Answer, TypeOK, database, files

LEMMA AtHeadHolds ==
  ASSUME LibraryInv, NEW t \in Runners, NEW op \in {"append", "complete", "cancel"},
         AtHead(t, op)
  PROVE  /\ t \in Tasks /\ t # Recovery /\ task[t].upload \in Uploads
         /\ task[t].pc = "queued" /\ ~Creates(t)
         /\ row[task[t].upload].state # "absent"
<1>1. task[t].pc = "queued" /\ ~Creates(t) /\ task[t].op # "reconcile"
  BY DEF AtHead, Creates
<1>2. t # Recovery
  BY <1>1 DEF LibraryInv, ArgumentsOK
<1> QED BY <1>1, <1>2, Holding DEF LibraryInv, ArgumentsOK, Runners

\* Every step of a task, of the reconciliation and of the process keeps the types.
LEMMA TypeStep ==
  ASSUME LibraryInv, Next
  PROVE  TypeOK'
<1> USE DEF LibraryInv
<1>1. CASE Requests
  <2>1. PICK t \in Tasks :
          \/ \E d \in Declared, op \in {"create", "createProject"} : RequestCreate(t, d, op)
          \/ \E u \in Uploads : \/ \E p \in Packets : RequestAppend(t, u, p)
                                \/ RequestComplete(t, u)
                                \/ RequestCancel(t, u)
    BY <1>1 DEF Requests
  <2>2. CASE \E d \in Declared, op \in {"create", "createProject"} : RequestCreate(t, d, op)
    BY <2>2, EnqueueTyped DEF RequestCreate, Operations
  <2>3. CASE \E u \in Uploads : \/ \E p \in Packets : RequestAppend(t, u, p)
                                \/ RequestComplete(t, u)
                                \/ RequestCancel(t, u)
    BY <2>3, EnqueueTyped DEF RequestAppend, RequestComplete, RequestCancel, Operations
  <2> QED BY <2>1, <2>2, <2>3
<1>2. ASSUME NEW t \in Runners, Creating(t) PROVE TypeOK'
  <2>1. CASE BeginCreate(t)
    <3>1. task[t] \in Locals BY DEF TypeOK
    <3>2. ReservedBytes \in Nat
      <4> DEFINE S == {p \in Uploads \X Offsets :
                         row[p[1]].state = "transferring" /\ p[2] < row[p[1]].size}
      <4>0. 0 \in Int /\ MaxBytes - 1 \in Int OBVIOUS
      <4>1. IsFiniteSet(Offsets) BY <4>0, FS_Interval DEF Offsets
      <4>2. IsFiniteSet(Uploads \X Offsets) BY <4>1, FS_Product
      <4>3. IsFiniteSet(S) BY <4>2, FS_Subset
      <4> QED BY <4>3, FS_CardinalityType DEF ReservedBytes
    <3>3. [task[t] EXCEPT !.pc = "admit", !.reserved = ReservedBytes] \in Locals
      BY <3>1, <3>2 DEF Locals, Steps
    <3> QED BY <2>1, <3>3 DEF BeginCreate, TypeOK, database, files
  <2>2. CASE RefuseCreation(t)
    BY <2>2, AnswerTyped DEF RefuseCreation
  <2>3. CASE \E u \in Uploads : AdmitCreation(t, u)
    <3>1. PICK u \in Uploads : AdmitCreation(t, u) BY <2>3
    <3>2. task[t] \in Locals BY DEF TypeOK
    <3>3. [task[t] EXCEPT !.pc = "insert", !.upload = u] \in Locals
      BY <3>2 DEF Locals, Steps
    <3>4. EmptyFile \in Contents BY DEF EmptyFile, Contents
    <3> QED BY <3>1, <3>3, <3>4 DEF AdmitCreation, TypeOK, database
  <2>4. CASE InsertRow(t)
    <3> DEFINE u == task[t].upload
               n == IF task[t].op = "createProject" THEN "bind" ELSE "idle"
    <3>1. u \in Uploads
      BY <2>4, Holding DEF InsertRow
    <3>2. task[t].arg \in Declared
      BY <2>4 DEF InsertRow, PointOK, Point, Active, ArgumentsOK
    <3>3. [state |-> "transferring", sha |-> task[t].arg.sha, size |-> task[t].arg.size,
           received |-> 0, ackEpoch |-> 0] \in Rows
      BY <3>2 DEF Rows, States
    <3>4. row' \in [Uploads -> Rows]
      BY <2>4, <3>3 DEF InsertRow, TypeOK
    <3>5. n \in Steps /\ "transferring" \in States /\ chunks[u] \in SUBSET Chunk
      BY <3>1 DEF Steps, States, TypeOK
    <3>6. Capture(t, u, "transferring", chunks[u], n)
      BY <2>4 DEF InsertRow
    <3>7. task' \in [Runners -> Locals] /\ queue' = queue
      BY <3>1, <3>5, <3>6, CaptureTyped
    <3> QED BY <2>4, <3>4, <3>7 DEF InsertRow, TypeOK, files
  <2>5. CASE BindUpload(t)
    BY <2>5, FinishTyped, Holding DEF BindUpload, TypeOK, files
  <2> QED BY <1>2, <2>1, <2>2, <2>3, <2>4, <2>5 DEF Creating
<1>3. ASSUME NEW t \in Runners, Appending(t) PROVE TypeOK'
  <2>1. CASE AnswerAppend(t)
    BY <2>1, AnswerTyped DEF AnswerAppend, AtHead
  <2>2. CASE BeginAppend(t)
    <3>1. Goto(t, "write") /\ "write" \in Steps
      BY <2>2 DEF BeginAppend, Steps
    <3> QED BY <2>2, <3>1, GotoTyped DEF BeginAppend, TypeOK, database, files
  <2>3. CASE WriteByte(t)
    <3> DEFINE u == task[t].upload
               p == task[t].arg
               i == p.offset + task[t].written
    <3>1. u \in Uploads /\ p \in Packets
      BY <2>3, Holding DEF WriteByte, PointOK, Point, Active, ArgumentsOK
    <3>2. Exists(staging[u])
      BY <2>3, <3>1 DEF WriteByte, PointOK, Point, Active, NothingLost
    <3>3. staging[u] \in Contents
      BY <3>1, <3>2 DEF TypeOK, Exists
    <3>4. p.data \in Shas
      BY <3>1
    <3>5. [staging[u] EXCEPT ![i] = p.data] \in Contents
      BY <3>3, <3>4 DEF Contents
    <3>6. staging' \in [Uploads -> Contents \union {None}]
      BY <2>3, <3>1, <3>5 DEF WriteByte, TypeOK
    <3>7. task[t] \in Locals BY DEF TypeOK
    <3>8. task[t].written + 1 \in Nat BY <3>7 DEF Locals
    <3>9. [task[t] EXCEPT !.written = task[t].written + 1,
             !.pc = IF task[t].written + 1 = p.size THEN "persist" ELSE "write"] \in Locals
      BY <3>7, <3>8 DEF Locals, Steps
    <3> QED BY <2>3, <3>6, <3>9 DEF WriteByte, TypeOK, database
  <2>4. CASE PersistChunk(t)
    <3> DEFINE u == task[t].upload
               p == task[t].arg
    <3>1. u \in Uploads /\ p \in Packets
      BY <2>4, Holding DEF PersistChunk, PointOK, Point, Active, ArgumentsOK
    <3>2. ChunkOf(p) \in Chunk
      BY <3>1 DEF ChunkOf, Chunk
    <3>3. chunks[u] \union {ChunkOf(p)} \in SUBSET Chunk
      BY <3>1, <3>2 DEF TypeOK
    <3>4. row[u] \in Rows /\ p.size \in Nat
      BY <3>1 DEF TypeOK
    <3>5. [row[u] EXCEPT !.ackEpoch = row[u].ackEpoch + 1,
                         !.received = row[u].received + p.size] \in Rows
      <4>1. row[u].ackEpoch + 1 \in Nat /\ row[u].received + p.size \in Nat
        BY <3>4 DEF Rows
      <4> QED BY <3>4, <4>1 DEF Rows
    <3>9. row' \in [Uploads -> Rows] /\ chunks' \in [Uploads -> SUBSET Chunk]
      <4>1. row' = [row EXCEPT ![u] = [row[u] EXCEPT
                    !.ackEpoch = row[u].ackEpoch + 1,
                    !.received = row[u].received + p.size]]
        BY <2>4 DEF PersistChunk
      <4>2. chunks' = [chunks EXCEPT ![u] = chunks[u] \union {ChunkOf(p)}]
        BY <2>4 DEF PersistChunk
      <4> QED BY <3>3, <3>5, <4>1, <4>2 DEF TypeOK
    <3>6. Capture(t, u, row[u].state, chunks[u] \union {ChunkOf(p)}, "idle")
      BY <2>4 DEF PersistChunk
    <3>7. row[u].state \in States /\ "idle" \in Steps
      BY <3>4 DEF Rows, Steps
    <3>8. task' \in [Runners -> Locals] /\ queue' = queue
      BY <3>1, <3>3, <3>6, <3>7, CaptureTyped
    <3> QED BY <2>4, <3>8, <3>9 DEF PersistChunk, TypeOK, files
  <2> QED BY <1>3, <2>1, <2>2, <2>3, <2>4 DEF Appending
<1>4. ASSUME NEW t \in Runners, Committing(t) PROVE TypeOK'
  <2>1. CASE AnswerComplete(t)
    BY <2>1, AnswerTyped DEF AnswerComplete, AtHead
  <2>2. CASE BeginComplete(t)
    <3>1. task[t].upload \in Uploads
      BY <2>2, AtHeadHolds DEF BeginComplete
    <3> QED BY <2>2, <3>1, MarkTyped DEF BeginComplete, States, Steps
  <2>3. ASSUME task[t].pc \in Steps \ {"idle", "queued", "admit"}
        PROVE  task[t].upload \in Uploads /\ task[t] \in Locals
               /\ row[task[t].upload] \in Rows
    BY <2>3, Holding DEF TypeOK
  <2>4. CASE HashStaging(t)
    <3>1. task[t].upload \in Uploads
      BY <2>3, <2>4 DEF HashStaging, Steps
    <3> QED BY <2>4, <3>1, MarkTyped DEF HashStaging, MarkRecoverableError, States, Steps
  <2>5. CASE RehashStaging(t)
    <3>1. task[t].upload \in Uploads
      BY <2>3, <2>5 DEF RehashStaging, Steps
    <3>2. CASE Goto(t, "find") /\ UNCHANGED <<database, files, mode, todo, faults>>
      BY <3>2, GotoTyped DEF TypeOK, database, files, Steps
    <3>3. CASE MarkRecoverableError(t)
      BY <3>1, <3>3, MarkTyped DEF MarkRecoverableError, States, Steps
    <3> QED BY <2>5, <3>2, <3>3 DEF RehashStaging
  <2>6. CASE FindBlob(t)
    <3>1. [task[t] EXCEPT !.createBlob = ShaOf(t) \notin blobs,
             !.pc = IF ShaOf(t) \in blobs THEN "reuse" ELSE "move"] \in Locals
      <4>1. (IF ShaOf(t) \in blobs THEN "reuse" ELSE "move") \in Steps
        BY DEF Steps
      <4>2. task[t] \in Locals
        BY <2>3, <2>6 DEF FindBlob, Steps
      <4>3. (ShaOf(t) \notin blobs) \in BOOLEAN
        OBVIOUS
      <4>4. ASSUME NEW b \in BOOLEAN, NEW pc \in Steps
            PROVE  [task[t] EXCEPT !.createBlob = b, !.pc = pc] \in Locals
        BY <4>2 DEF Locals
      <4> QED BY <4>1, <4>3, <4>4
    <3> QED BY <2>6, <3>1 DEF FindBlob, TypeOK, database, files
  <2>7. CASE ReuseBlob(t)
    <3>1. task[t].upload \in Uploads
      BY <2>3, <2>7 DEF ReuseBlob, Steps
    <3>2. CASE Exists(blobFile[ShaOf(t)])
      BY <2>7, <3>1, <3>2, GotoTyped DEF ReuseBlob, TypeOK, database, Steps
    <3>3. CASE ~Exists(blobFile[ShaOf(t)])
      BY <2>7, <3>1, <3>3, MarkTyped DEF ReuseBlob, MarkRecoverableError, States, Steps
    <3> QED BY <3>2, <3>3
  <2>8. CASE MoveToBlob(t)
    <3>1. task[t].upload \in Uploads
      BY <2>3, <2>8 DEF MoveToBlob, Steps
    <3>2. CASE Exists(staging[task[t].upload])
      BY <2>8, <3>1, <3>2, GotoTyped DEF MoveToBlob, TypeOK, database, Steps
    <3>3. CASE ~Exists(staging[task[t].upload])
      BY <2>8, <3>1, <3>3, MarkTyped DEF MoveToBlob, MarkRecoverableError, States, Steps
    <3> QED BY <3>2, <3>3
  <2>9. CASE MarkCommitted(t)
    <3>1. task[t].upload \in Uploads
      BY <2>3, <2>9 DEF MarkCommitted, Steps
    <3> QED BY <2>9, <3>1, MarkTyped DEF MarkCommitted, States, Steps
  <2>10. CASE AdoptBlob(t)
    <3>1. [task[t] EXCEPT !.createBlob = ShaOf(t) \notin blobs, !.pc = "verify"] \in Locals
      BY <2>3, <2>10 DEF AdoptBlob, Locals, Steps
    <3> QED BY <2>10, <3>1 DEF AdoptBlob, TypeOK, database, files
  <2>11. CASE VerifyBlob(t)
    <3>1. task[t].upload \in Uploads
      BY <2>3, <2>11 DEF VerifyBlob, Steps
    <3>2. CASE Goto(t, "reference") /\ UNCHANGED <<database, files, mode, todo, faults>>
      BY <3>2, GotoTyped DEF TypeOK, database, files, Steps
    <3>3. CASE MarkRecoverableError(t)
      BY <3>1, <3>3, MarkTyped DEF MarkRecoverableError, States, Steps
    <3> QED BY <2>11, <3>2, <3>3 DEF VerifyBlob
  <2>12. CASE CreateReference(t)
    <3> DEFINE u == task[t].upload
    <3>1. u \in Uploads /\ row[u] \in Rows /\ task[t].pc = "reference"
      BY <2>3, <2>12 DEF CreateReference, Steps
    <3>2. CASE Conflicts(t)
      BY <2>12, <3>1, <3>2, ThrowTyped DEF CreateReference, TypeOK, files
    <3>3. CASE ~Conflicts(t)
      <4>1. ShaOf(t) \in Shas
        BY <3>1 DEF ShaOf, PointOK, Point, Active, RowsOK
      <4>2. [row[u] EXCEPT !.state = "ready"] \in Rows
        BY <3>1 DEF Rows, States
      <4>3. Capture(t, u, "ready", chunks[u], "idle")
        BY <2>12, <3>3 DEF CreateReference
      <4>4. "ready" \in States /\ "idle" \in Steps /\ chunks[u] \in SUBSET Chunk
        BY <3>1 DEF States, Steps, TypeOK
      <4>5. task' \in [Runners -> Locals] /\ queue' = queue
        BY <3>1, <4>3, <4>4, CaptureTyped
      <4>6. row' \in [Uploads -> Rows]
        BY <2>12, <3>1, <3>3, <4>2 DEF CreateReference, TypeOK
      <4>7. blobs' \subseteq Shas /\ refs' \subseteq [upload : Uploads, sha : Shas]
        BY <2>12, <3>1, <3>3, <4>1 DEF CreateReference, TypeOK
      <4> QED BY <2>12, <3>3, <4>5, <4>6, <4>7 DEF CreateReference, TypeOK, files
    <3> QED BY <3>2, <3>3
  <2> QED BY <1>4, <2>1, <2>2, <2>4, <2>5, <2>6, <2>7, <2>8, <2>9, <2>10, <2>11, <2>12
          DEF Committing
<1>5. ASSUME NEW t \in Runners, Cancelling(t) PROVE TypeOK'
  <2>1. CASE AnswerCancel(t)
    BY <2>1, AnswerTyped DEF AnswerCancel, AtHead
  <2>2. CASE BeginCancel(t)
    <3>1. task[t].upload \in Uploads
      BY <2>2, AtHeadHolds DEF BeginCancel
    <3> QED BY <2>2, <3>1, MarkTyped DEF BeginCancel, States, Steps
  <2>3. CASE RemoveStaging(t)
    <3> DEFINE u == task[t].upload
    <3>1. u \in Uploads /\ task[t].pc # "idle"
      BY <2>3, Holding DEF RemoveStaging
    <3>2. row[u].state \in States /\ chunks[u] \in SUBSET Chunk /\ "idle" \in Steps
      BY <3>1 DEF TypeOK, Rows, Steps
    <3>3. task' \in [Runners -> Locals] /\ queue' \in [Lanes -> Seq(Tasks)]
      <4>1. CASE t = Recovery
        <5>1. Capture(t, u, row[u].state, chunks[u], "idle")
          BY <2>3, <4>1 DEF RemoveStaging
        <5>2. queue \in [Lanes -> Seq(Tasks)] BY DEF TypeOK
        <5> QED BY <3>1, <3>2, <5>1, <5>2, CaptureTyped
      <4>2. CASE t # Recovery
        BY <2>3, <3>1, <4>2, FinishTyped DEF RemoveStaging
      <4> QED BY <4>1, <4>2
    <3> QED BY <2>3, <3>3 DEF RemoveStaging, TypeOK, database
  <2> QED BY <1>5, <2>1, <2>2, <2>3 DEF Cancelling
<1>6. ASSUME NEW t \in Runners, LandManifest(t) PROVE TypeOK'
  <2>1. task[t] \in Locals /\ task[t].pc # "idle"
    BY <1>6 DEF TypeOK, LandManifest
  <2>2. manifest' \in [Uploads -> Images \union {None}]
    BY <1>6, <2>1 DEF LandManifest, TypeOK, Locals
  <2>3. task' \in [Runners -> Locals] /\ queue' \in [Lanes -> Seq(Tasks)]
    <3>1. CASE Finish(t) BY <2>1, <3>1, FinishTyped
    <3>2. CASE Goto(t, task[t].next)
      <4>1. task[t].next \in Steps BY <2>1 DEF Locals
      <4>2. queue \in [Lanes -> Seq(Tasks)] BY DEF TypeOK
      <4> QED BY <3>2, <4>1, <4>2, GotoTyped
    <3> QED BY <1>6, <3>1, <3>2 DEF LandManifest
  <2> QED BY <1>6, <2>2, <2>3 DEF LandManifest, TypeOK, database
<1>7. CASE \E t \in Runners : Fail(t)
  <2>1. PICK t \in Runners : Fail(t) BY <1>7
  <2>2. faults' \in 0 .. MaxFaults
    BY <2>1 DEF Fail, TypeOK
  <2> QED BY <2>1, <2>2, ThrowTyped DEF Fail, TypeOK, database, files
<1>8. CASE Stop
  <2>1. faults' \in 0 .. MaxFaults
    BY <1>8 DEF Stop, TypeOK
  <2> QED BY <1>8, <2>1, HaltTyped DEF Stop, TypeOK, database, files
<1>9. CASE Recovering
  <2>1. CASE Start \/ Serve
    BY <2>1 DEF Start, Serve, TypeOK, database, files
  <2>2. CASE \E u \in Uploads : Reconcile(u)
    <3>1. PICK u \in Uploads : Reconcile(u) BY <2>2
    <3>2. Recovery \in Runners /\ task[Recovery] \in Locals /\ row[u] \in Rows
      BY DEF TypeOK, Runners
    <3>3. ASSUME Visit(u), task' \in [Runners -> Locals], row' \in [Uploads -> Rows]
          PROVE  TypeOK'
      BY <3>3 DEF Visit, TypeOK, files
    <3>4. ASSUME NEW pc \in Steps, ResumeAt(u, pc), Visit(u) PROVE TypeOK'
      <4>1. [task[Recovery] EXCEPT !.pc = pc, !.op = "reconcile", !.upload = u] \in Locals
        BY <3>2 DEF Locals, Operations
      <4>2. task' \in [Runners -> Locals] /\ row' \in [Uploads -> Rows]
        BY <3>4, <4>1 DEF ResumeAt, TypeOK
      <4> QED BY <3>3, <3>4, <4>2
    <3>5. ASSUME NEW state \in States, NEW next \in Steps, SettleAs(u, state, next), Visit(u)
          PROVE  TypeOK'
      <4>1. [state |-> state, chunks |-> chunks[u]] \in Images
        BY DEF Images, TypeOK
      <4>2. [task[Recovery] EXCEPT !.pc = "mirror", !.next = next, !.op = "reconcile",
               !.upload = u, !.image = [state |-> state, chunks |-> chunks[u]]] \in Locals
        BY <3>2, <4>1 DEF Locals, Steps, Operations
      <4>3. [row[u] EXCEPT !.state = state] \in Rows
        BY <3>2 DEF Rows
      <4>4. task' \in [Runners -> Locals] /\ row' \in [Uploads -> Rows]
        BY <3>5, <4>2, <4>3 DEF SettleAs, TypeOK
      <4> QED BY <3>3, <3>5, <4>4
    <3>6. row[u].state \in States BY <3>2 DEF Rows
    <3>7. CASE ReconcileSettled(u)
      BY <3>5, <3>6, <3>7 DEF ReconcileSettled, States, Steps
    <3>8. CASE ReconcileVerified(u)
      BY <3>4, <3>5, <3>8 DEF ReconcileVerified, States, Steps
    <3>9. CASE ReconcileStaged(u) \/ ReconcileCommitted(u) \/ ReconcileCancelled(u)
      BY <3>4, <3>9 DEF ReconcileStaged, ReconcileCommitted, ReconcileCancelled, Steps
    <3> QED BY <3>1, <3>7, <3>8, <3>9 DEF Reconcile
  <2> QED BY <1>9, <2>1, <2>2 DEF Recovering
<1> QED BY <1>1, <1>2, <1>3, <1>4, <1>5, <1>6, <1>7, <1>8, <1>9 DEF Next, TaskStep

-----------------------------------------------------------------------------
(* Lanes, arguments and mutual exclusion *)

\* Task t goes on with the operation and the upload it has.
Moves(t) ==
  /\ task[t].pc # "idle" /\ task'[t].pc # "idle"
  /\ task'[t].op = task[t].op /\ task'[t].arg = task[t].arg
  /\ task'[t].upload = task[t].upload
  /\ task'[t].pc # "queued" /\ task[t].pc # "admit"
  /\ task'[t].pc = "admit" <=> Creates(t) /\ task[t].pc = "queued"
  /\ \A s \in Runners \ {t} : task'[s] = task[s]
  /\ queue' = queue /\ mode' = mode
  /\ t \in Tasks => queue[Lane(t)][1] = t

\* No row is ever removed.
RowsStay == \A u \in Uploads : row[u].state # "absent" => row'[u].state # "absent"

Queueing == LanesOK /\ ArgumentsOK /\ CreationsOK

LEMMA Exclusion ==
  ASSUME TypeOK, Queueing
  PROVE  MutualExclusion
<1> SUFFICES ASSUME NEW s \in Runners, NEW t \in Runners, Active(s), Active(t), s # t,
                    task[s].upload # None, task[s].upload = task[t].upload
             PROVE  FALSE
  BY DEF MutualExclusion
<1>1. s \in Tasks /\ t \in Tasks
  BY DEF Queueing, LanesOK, Active, Runners
<1>2. Creates(s) <=> Creates(t)
  BY <1>1 DEF Queueing, CreationsOK, Active
<1>3. Lane(s) = Lane(t)
  BY <1>2 DEF Lane
<1> QED BY <1>1, <1>3 DEF Queueing, LanesOK

LEMMA MovesQueueing ==
  ASSUME TypeOK, Queueing, NEW t \in Runners, Moves(t), RowsStay
  PROVE  Queueing'
<1>1. \A s \in Runners : /\ task'[s].op = task[s].op
                         /\ task'[s].upload = task[s].upload
                         /\ task'[s].arg = task[s].arg
                         /\ task'[s].pc = "idle" <=> task[s].pc = "idle"
                         /\ Creates(s)' = Creates(s) /\ Lane(s)' = Lane(s)
  BY DEF Moves, Creates, Lane
<1>2. Tasks \subseteq Runners
  BY DEF Runners
<1>3. LanesOK'
  <2>1. (mode # "serving" => \A s \in Tasks : task[s].pc = "idle")'
    BY <1>1, <1>2 DEF Queueing, LanesOK, Moves
  <2>2. (mode # "recovering" => task[Recovery].pc = "idle")'
    BY <1>1 DEF Queueing, LanesOK, Moves, Runners
  <2>3. ASSUME NEW s \in Tasks
        PROVE  /\ (task[s].pc # "idle" =>
                    \E i \in DOMAIN queue[Lane(s)] : queue[Lane(s)][i] = s)'
               /\ (Active(s) => queue[Lane(s)][1] = s)'
    BY <1>1, <1>2 DEF Queueing, LanesOK, Moves, Active
  <2> QED BY <2>1, <2>2, <2>3 DEF LanesOK
<1>4. ArgumentsOK'
  <2> SUFFICES ASSUME NEW s \in Runners
               PROVE  /\ task'[s].pc = "idle" => task'[s] = IdleTask
                      /\ Creates(s)' => task'[s].arg \in Declared
                      /\ task'[s].op = "append" => task'[s].arg \in Packets
                      /\ task'[s].pc # "idle" =>
                           /\ (s = Recovery) <=> (task'[s].op = "reconcile")
                           /\ Creates(s)' /\ task'[s].pc \in {"queued", "admit"}
                                <=> task'[s].upload = None
                      /\ task'[s].pc # "idle" /\ ~Creates(s)'
                           => row'[task'[s].upload].state # "absent"
    BY DEF ArgumentsOK
  <2>1. CASE s # t
    BY <1>1, <2>1, Holding DEF Queueing, ArgumentsOK, Moves, RowsStay
  <2>2. CASE s = t
    BY <1>1, <2>2, Holding DEF Queueing, ArgumentsOK, Moves, RowsStay
  <2> QED BY <2>1, <2>2
<1>5. CreationsOK'
  BY <1>1, <1>2 DEF Queueing, CreationsOK
<1> QED BY <1>3, <1>4, <1>5 DEF Queueing

LEMMA HaltQueueing ==
  ASSUME Halt PROVE Queueing'
BY DEF Halt, Queueing, LanesOK, ArgumentsOK, CreationsOK, IdleTask, Creates, Active, Runners

\* The head of a lane leaves it.
LEMMA FinishQueueing ==
  ASSUME TypeOK, Queueing, NEW t \in Runners, task[t].pc # "idle", Finish(t),
         t \in Tasks => Head(queue[Lane(t)]) = t, mode' = mode, RowsStay
  PROVE  Queueing'
<1>1. task'[t] = IdleTask /\ \A s \in Runners \ {t} : task'[s] = task[s]
  BY DEF Finish, TypeOK
<1>2. \A s \in Runners \ {t} : /\ Creates(s)' = Creates(s) /\ Lane(s)' = Lane(s)
                               /\ Active(s)' = Active(s)
  BY <1>1 DEF Creates, Lane, Active
<1>3. LanesOK'
  <2>1. (mode # "serving" => \A s \in Tasks : task[s].pc = "idle")'
    BY <1>1 DEF Queueing, LanesOK, Runners, IdleTask
  <2>2. (mode # "recovering" => task[Recovery].pc = "idle")'
    BY <1>1 DEF Queueing, LanesOK, Runners, IdleTask
  <2>3. ASSUME NEW s \in Tasks, task'[s].pc # "idle"
        PROVE  /\ \E i \in DOMAIN queue'[Lane(s)'] : queue'[Lane(s)'][i] = s
               /\ Active(s)' => queue'[Lane(s)'][1] = s
    <3>1. s # t /\ s \in Runners
      BY <1>1, <2>3 DEF IdleTask, Runners
    <3>2. task[s].pc # "idle" /\ Lane(s)' = Lane(s) /\ Active(s)' = Active(s)
      BY <1>1, <1>2, <2>3, <3>1
    <3>3. PICK i \in DOMAIN queue[Lane(s)] : queue[Lane(s)][i] = s
      BY <3>2 DEF Queueing, LanesOK
    <3>4. CASE queue'[Lane(s)] = queue[Lane(s)]
      BY <3>2, <3>3, <3>4 DEF Queueing, LanesOK
    <3>5. CASE queue'[Lane(s)] # queue[Lane(s)]
      <4> DEFINE q == queue[Lane(s)]
      <4>1. Lane(s) \in Lanes /\ q \in Seq(Tasks) /\ q # <<>>
        BY <3>1, <3>2, Holding DEF Queueing, Runners
      <4>2. t # Recovery /\ Lane(t) = Lane(s)
        BY <3>5, <4>1, Holding DEF Finish, Queueing, TypeOK
      <4>3. queue'[Lane(s)] = Tail(q)
        BY <4>1, <4>2 DEF Finish, TypeOK
      <4>4. Head(q) = t /\ q[1] = t
        BY <4>1, <4>2, Holding DEF Queueing, Runners
      <4>5. i \in 1 .. Len(q) /\ i # 1
        BY <3>1, <3>3, <4>1, <4>4
      <4>6. i - 1 \in DOMAIN Tail(q) /\ Tail(q)[i - 1] = s
        BY <3>3, <4>1, <4>5
      <4>7. ~Active(s)
        BY <3>1, <4>4 DEF Queueing, LanesOK
      <4> QED BY <3>2, <4>3, <4>6, <4>7
    <3> QED BY <3>4, <3>5
  <2>4. \A s \in Tasks : Active(s)' => task'[s].pc # "idle"
    BY DEF Active
  <2> QED BY <2>1, <2>2, <2>3, <2>4 DEF LanesOK
<1>4. ArgumentsOK'
  <2> SUFFICES ASSUME NEW s \in Runners
               PROVE  /\ task'[s].pc = "idle" => task'[s] = IdleTask
                      /\ Creates(s)' => task'[s].arg \in Declared
                      /\ task'[s].op = "append" => task'[s].arg \in Packets
                      /\ task'[s].pc # "idle" =>
                           /\ (s = Recovery) <=> (task'[s].op = "reconcile")
                           /\ Creates(s)' /\ task'[s].pc \in {"queued", "admit"}
                                <=> task'[s].upload = None
                      /\ task'[s].pc # "idle" /\ ~Creates(s)'
                           => row'[task'[s].upload].state # "absent"
    BY DEF ArgumentsOK
  <2>1. CASE s # t
    BY <1>1, <1>2, <2>1, Holding DEF Queueing, ArgumentsOK, RowsStay
  <2>2. CASE s = t
    BY <1>1, <2>2 DEF IdleTask, Creates
  <2> QED BY <2>1, <2>2
<1>5. CreationsOK'
  BY <1>1, <1>2 DEF Queueing, CreationsOK, IdleTask, Creates, Runners
<1> QED BY <1>3, <1>4, <1>5 DEF Queueing

LEMMA EnqueueQueueing ==
  ASSUME TypeOK, Queueing, NEW t \in Tasks, NEW op \in Operations \ {"none", "reconcile"},
         NEW u \in Uploads \union {None}, NEW arg,
         op \in {"create", "createProject"} => u = None /\ arg \in Declared,
         op \notin {"create", "createProject"} =>
           u \in Uploads /\ Known(u) /\ (op = "append" => arg \in Packets),
         Enqueue(t, op, u, arg), UNCHANGED row
  PROVE  Queueing'
<1> DEFINE lane == IF u = None THEN Creation ELSE u
<1>1. /\ mode = "serving" /\ mode' = mode /\ task[t].pc = "idle"
      /\ task'[t] = [IdleTask EXCEPT !.pc = "queued", !.op = op, !.upload = u, !.arg = arg]
      /\ \A s \in Runners \ {t} : task'[s] = task[s]
  BY DEF Enqueue, TypeOK, Runners
<1>2. /\ task'[t].pc = "queued" /\ task'[t].op = op /\ task'[t].upload = u
      /\ task'[t].arg = arg
  BY <1>1 DEF IdleTask
<1>3. Creates(t)' <=> u = None
  BY <1>2 DEF Creates
<1>4. Lane(t)' = lane /\ lane \in Lanes
  BY <1>2, <1>3 DEF Lane, Lanes
<1>5. t \in Runners /\ t # Recovery /\ Tasks \subseteq Runners
  BY DEF Runners
<1>6. \A s \in Runners \ {t} : /\ Creates(s)' = Creates(s) /\ Lane(s)' = Lane(s)
                               /\ Active(s)' = Active(s)
  BY <1>1 DEF Creates, Lane, Active
<1>7. LanesOK'
  <2>1. (mode # "serving" => \A s \in Tasks : task[s].pc = "idle")'
    BY <1>1
  <2>2. (mode # "recovering" => task[Recovery].pc = "idle")'
    BY <1>1, <1>5 DEF Queueing, LanesOK, Runners
  <2>3. queue[lane] \in Seq(Tasks) /\ queue'[lane] = Append(queue[lane], t)
    BY <1>4 DEF Enqueue, TypeOK
  <2>4. /\ \E i \in DOMAIN queue'[Lane(t)'] : queue'[Lane(t)'][i] = t
        /\ ~Active(t)'
    <3>1. queue'[lane][Len(queue[lane]) + 1] = t
          /\ Len(queue[lane]) + 1 \in DOMAIN queue'[lane]
      BY <2>3
    <3>2. ~Active(t)'
      BY <1>2 DEF Active
    <3> QED BY <1>4, <3>1, <3>2
  <2>5. ASSUME NEW s \in Tasks \ {t}, task'[s].pc # "idle"
        PROVE  /\ \E i \in DOMAIN queue'[Lane(s)'] : queue'[Lane(s)'][i] = s
               /\ Active(s)' => queue'[Lane(s)'][1] = s
    <3>1. task[s].pc # "idle" /\ Lane(s)' = Lane(s) /\ Active(s)' = Active(s)
      BY <1>1, <1>5, <1>6, <2>5
    <3>2. PICK i \in DOMAIN queue[Lane(s)] : queue[Lane(s)][i] = s
      BY <3>1 DEF Queueing, LanesOK
    <3>3. Lane(s) \in Lanes /\ queue[Lane(s)] \in Seq(Tasks) /\ queue[Lane(s)] # <<>>
      BY <1>5, <2>5, <3>1, Holding DEF Queueing
    <3>4. CASE Lane(s) # lane
      <4>1. queue'[Lane(s)] = queue[Lane(s)]
        BY <3>3, <3>4 DEF Enqueue, TypeOK
      <4> QED BY <3>1, <3>2, <4>1 DEF Queueing, LanesOK
    <3>5. CASE Lane(s) = lane
      <4>1. i \in DOMAIN queue'[lane] /\ queue'[lane][i] = s
        BY <2>3, <3>2, <3>5
      <4>2. queue'[lane][1] = queue[lane][1]
        BY <2>3, <3>3, <3>5
      <4> QED BY <3>1, <3>5, <4>1, <4>2 DEF Queueing, LanesOK
    <3> QED BY <3>4, <3>5
  <2>6. \A s \in Tasks : Active(s)' => task'[s].pc # "idle"
    BY DEF Active
  <2> QED BY <2>1, <2>2, <2>4, <2>5, <2>6 DEF LanesOK
<1>8. ArgumentsOK'
  <2> SUFFICES ASSUME NEW s \in Runners
               PROVE  /\ task'[s].pc = "idle" => task'[s] = IdleTask
                      /\ Creates(s)' => task'[s].arg \in Declared
                      /\ task'[s].op = "append" => task'[s].arg \in Packets
                      /\ task'[s].pc # "idle" =>
                           /\ (s = Recovery) <=> (task'[s].op = "reconcile")
                           /\ Creates(s)' /\ task'[s].pc \in {"queued", "admit"}
                                <=> task'[s].upload = None
                      /\ task'[s].pc # "idle" /\ ~Creates(s)'
                           => row'[task'[s].upload].state # "absent"
    BY DEF ArgumentsOK
  <2>1. CASE s # t
    BY <1>1, <1>6, <2>1 DEF Queueing, ArgumentsOK
  <2>2. CASE s = t
    <3>1. u \in Uploads => row'[u].state # "absent"
      BY DEF Known
    <3>2. Creates(t)' => arg \in Declared
      BY <1>2 DEF Creates
    <3>3. op = "append" => arg \in Packets
      OBVIOUS
    <3>4. op # "reconcile" /\ ~Creates(t)' => u \in Uploads
      BY <1>2, <1>3
    <3> QED BY <1>2, <1>3, <1>5, <2>2, <3>1, <3>2, <3>3, <3>4
  <2> QED BY <2>1, <2>2
<1>9. CreationsOK'
  <2> SUFFICES ASSUME NEW r \in Tasks, NEW s \in Tasks, Creates(r)', task'[s].pc # "idle",
                      ~Creates(s)'
               PROVE  task'[r].upload # task'[s].upload
    BY DEF CreationsOK
  <2>1. CASE r # t /\ s # t
    BY <1>1, <1>5, <1>6, <2>1 DEF Queueing, CreationsOK
  <2>2. CASE s = t
    <3>1. op \notin {"create", "createProject"} /\ r # t
      BY <1>2, <2>2 DEF Creates
    <3>2. Known(u) /\ Creates(r) /\ task'[r] = task[r]
      BY <1>1, <1>5, <1>6, <3>1
    <3> QED BY <1>2, <2>2, <3>2 DEF Known
  <2>3. CASE r = t /\ s # t
    <3>1. task[s].upload \in Uploads /\ task'[s].upload = task[s].upload
      BY <1>1, <1>5, <1>6, <2>3, Holding DEF Queueing
    <3> QED BY <1>2, <1>3, <2>3, <3>1
  <2> QED BY <2>1, <2>2, <2>3
<1> QED BY <1>7, <1>8, <1>9 DEF Queueing

\* A task that takes its turn, or goes on, stands first in its lane.
LEMMA InTurn ==
  ASSUME TypeOK, Queueing, NEW t \in Tasks, task[t].pc # "idle",
         task[t].pc = "queued" => Head(queue[Lane(t)]) = t
  PROVE  queue[Lane(t)][1] = t /\ Head(queue[Lane(t)]) = t
<1>1. t \in Runners /\ t # Recovery
  BY DEF Runners
<1>2. queue[Lane(t)] \in Seq(Tasks) /\ queue[Lane(t)] # <<>>
  BY <1>1, Holding DEF Queueing
<1>3. Head(queue[Lane(t)]) = t
  BY <1>1, Holding DEF Queueing, Active
<1> QED BY <1>2, <1>3

LEMMA GotoMoves ==
  ASSUME TypeOK, Queueing, NEW t \in Runners, NEW pc \in Steps \ {"idle", "queued", "admit"},
         task[t].pc \notin {"idle", "admit"}, ~(Creates(t) /\ task[t].pc = "queued"),
         task[t].pc = "queued" => Head(queue[Lane(t)]) = t,
         Goto(t, pc), mode' = mode
  PROVE  Moves(t)
<1>1. task'[t] = [task[t] EXCEPT !.pc = pc] /\ \A s \in Runners \ {t} : task'[s] = task[s]
  BY DEF Goto, TypeOK
<1>2. task[t] \in Locals
  BY DEF TypeOK
<1>3. /\ task'[t].pc = pc /\ task'[t].op = task[t].op /\ task'[t].arg = task[t].arg
      /\ task'[t].upload = task[t].upload
  BY <1>1, <1>2 DEF Locals
<1> QED BY <1>1, <1>3, InTurn DEF Goto, Moves

LEMMA CaptureMoves ==
  ASSUME TypeOK, Queueing, NEW t \in Runners, NEW state, NEW persisted, NEW next,
         task[t].pc \notin {"idle", "admit"}, ~(Creates(t) /\ task[t].pc = "queued"),
         task[t].pc = "queued" => Head(queue[Lane(t)]) = t,
         Capture(t, task[t].upload, state, persisted, next), mode' = mode
  PROVE  Moves(t)
<1>1. task'[t] = [task[t] EXCEPT !.pc = "mirror", !.next = next, !.upload = task[t].upload,
                     !.image = [state |-> state, chunks |-> persisted]]
  BY DEF Capture, TypeOK
<1>2. task[t] \in Locals
  BY DEF TypeOK
<1>3. /\ task'[t].pc = "mirror" /\ task'[t].op = task[t].op /\ task'[t].arg = task[t].arg
      /\ task'[t].upload = task[t].upload
  BY <1>1, <1>2 DEF Locals
<1>4. \A s \in Runners \ {t} : task'[s] = task[s]
  BY DEF Capture, TypeOK
<1> QED BY <1>3, <1>4, InTurn DEF Capture, Moves

LEMMA MarkStays ==
  ASSUME TypeOK, NEW t \in Runners, NEW u \in Uploads, NEW state \in States \ {"absent"},
         NEW next, Mark(t, u, state, next)
  PROVE  RowsStay
<1>1. row[u] \in Rows /\ row' = [row EXCEPT ![u] = [row[u] EXCEPT !.state = state]]
  BY DEF Mark, TypeOK
<1> QED BY <1>1 DEF RowsStay, TypeOK, Rows

\* Every step keeps the rows it finds.
LEMMA RowsStayStep ==
  ASSUME LibraryInv, Next
  PROVE  RowsStay
<1> USE DEF LibraryInv
<1>1. ASSUME UNCHANGED row PROVE RowsStay
  BY <1>1 DEF RowsStay
<1>2. CASE Requests
  BY <1>1, <1>2 DEF Requests, RequestCreate, RequestAppend, RequestComplete, RequestCancel,
                    Enqueue, database
<1>3. ASSUME NEW t \in Runners, TaskStep(t) PROVE RowsStay
  <2> DEFINE u == task[t].upload
  <2>1. ASSUME Active(t), task[t].pc # "admit" PROVE u \in Uploads
    BY <2>1, Holding DEF Active
  <2>2. ASSUME NEW state \in {"staged", "hash_verified", "committed", "recoverable_error",
                              "cancelled"},
               NEW next, u \in Uploads, Mark(t, u, state, next)
        PROVE  RowsStay
    BY <2>2, MarkStays DEF States
  <2>3. CASE InsertRow(t)
    BY <2>1, <2>3 DEF InsertRow, RowsStay, TypeOK, Active
  <2>4. CASE PersistChunk(t)
    <3>1. u \in Uploads /\ row[u] \in Rows
      BY <2>1, <2>4 DEF PersistChunk, TypeOK, Active
    <3>2. row' = [row EXCEPT ![u] = [row[u] EXCEPT
                    !.ackEpoch = row[u].ackEpoch + 1,
                    !.received = row[u].received + task[t].arg.size]]
      BY <2>4 DEF PersistChunk
    <3> QED BY <3>1, <3>2 DEF RowsStay, TypeOK, Rows
  <2>5. CASE CreateReference(t)
    <3>1. u \in Uploads /\ row[u] \in Rows
      BY <2>1, <2>5 DEF CreateReference, TypeOK, Active
    <3>2. CASE row' = [row EXCEPT ![u] = [row[u] EXCEPT !.state = "ready"]]
      BY <3>1, <3>2 DEF RowsStay, TypeOK, Rows
    <3> QED BY <1>1, <2>5, <3>2 DEF CreateReference
  <2>6. CASE BeginComplete(t) \/ BeginCancel(t)
    BY <2>2, <2>6, AtHeadHolds DEF BeginComplete, BeginCancel
  <2>7. CASE HashStaging(t) \/ RehashStaging(t) \/ ReuseBlob(t) \/ MoveToBlob(t)
             \/ MarkCommitted(t) \/ VerifyBlob(t)
    <3>1. u \in Uploads
      BY <2>1, <2>7 DEF HashStaging, RehashStaging, ReuseBlob, MoveToBlob, MarkCommitted,
                        VerifyBlob, Active
    <3>2. \/ \E state \in {"staged", "hash_verified", "committed", "recoverable_error",
                            "cancelled"}, next \in Steps : Mark(t, u, state, next)
          \/ UNCHANGED row
      BY <2>7 DEF HashStaging, RehashStaging, ReuseBlob, MoveToBlob, MarkCommitted,
                  VerifyBlob, MarkRecoverableError, database, Steps
    <3> QED BY <1>1, <2>2, <3>1, <3>2
  <2>8. CASE BeginCreate(t) \/ RefuseCreation(t) \/ (\E v \in Uploads : AdmitCreation(t, v))
             \/ BindUpload(t) \/ AnswerAppend(t) \/ BeginAppend(t) \/ WriteByte(t)
             \/ AnswerComplete(t) \/ FindBlob(t) \/ AdoptBlob(t) \/ AnswerCancel(t)
             \/ RemoveStaging(t) \/ LandManifest(t)
    BY <1>1, <2>8 DEF BeginCreate, RefuseCreation, AdmitCreation, BindUpload, AnswerAppend,
         BeginAppend, WriteByte, AnswerComplete, FindBlob, AdoptBlob, AnswerCancel,
         RemoveStaging, LandManifest, Answer, database
  <2> QED BY <1>3, <2>3, <2>4, <2>5, <2>6, <2>7, <2>8
          DEF TaskStep, Creating, Appending, Committing, Cancelling
<1>4. CASE (\E t \in Runners : Fail(t)) \/ Stop \/ Start \/ Serve
  BY <1>1, <1>4 DEF Fail, Stop, Start, Serve, database
<1>5. CASE \E u \in Uploads : Reconcile(u)
  <2>1. PICK u \in Uploads : Reconcile(u) BY <1>5
  <2>2. row[u] \in Rows BY DEF TypeOK
  <2>3. ASSUME NEW state \in States \ {"absent"}, NEW next, SettleAs(u, state, next)
        PROVE  RowsStay
    BY <2>2, <2>3 DEF SettleAs, RowsStay, TypeOK, Rows
  <2>4. UNCHANGED row \/ \E state \in States \ {"absent"}, next \in Steps :
                           SettleAs(u, state, next)
    BY <2>1, <2>2 DEF Reconcile, ReconcileSettled, ReconcileStaged, ReconcileVerified,
         ReconcileCommitted, ReconcileCancelled, ResumeAt, States, Steps, Rows
  <2> QED BY <1>1, <2>3, <2>4
<1> QED BY <1>2, <1>3, <1>4, <1>5 DEF Next, Recovering

\* A creation leaves the waiting line with an identifier nobody knows.
LEMMA AdmitQueueing ==
  ASSUME TypeOK, Queueing, RowsStay, NEW t \in Runners, NEW u \in Uploads,
         AdmitCreation(t, u), PointOK(t)
  PROVE  Queueing'
<1>1. task[t].pc = "admit" /\ Creates(t)
  BY DEF AdmitCreation, PointOK, Point, Active
<1>2. t \in Tasks /\ t # Recovery /\ Tasks \subseteq Runners
  BY <1>1 DEF Queueing, ArgumentsOK, Creates, Runners
<1>3. /\ task'[t] = [task[t] EXCEPT !.pc = "insert", !.upload = u]
      /\ \A s \in Runners \ {t} : task'[s] = task[s]
      /\ queue' = queue /\ mode' = mode
  BY DEF AdmitCreation, TypeOK
<1>4. task[t] \in Locals
  BY DEF TypeOK
<1>5. /\ task'[t].pc = "insert" /\ task'[t].op = task[t].op
      /\ task'[t].arg = task[t].arg /\ task'[t].upload = u
  BY <1>3, <1>4 DEF Locals
<1>6. \A s \in Runners : Creates(s)' = Creates(s) /\ Lane(s)' = Lane(s)
  BY <1>1, <1>3, <1>5 DEF Creates, Lane
<1>7. \A s \in Runners : task'[s].pc = "idle" <=> task[s].pc = "idle"
  BY <1>1, <1>3, <1>5
<1>8. \A s \in Runners : Active(s)' <=> Active(s)
  BY <1>1, <1>3, <1>5 DEF Active
<1>9. LanesOK'
  BY <1>2, <1>3, <1>6, <1>7, <1>8 DEF Queueing, LanesOK, Runners
<1>10. ArgumentsOK'
  <2> SUFFICES ASSUME NEW s \in Runners
               PROVE  /\ task'[s].pc = "idle" => task'[s] = IdleTask
                      /\ Creates(s)' => task'[s].arg \in Declared
                      /\ task'[s].op = "append" => task'[s].arg \in Packets
                      /\ task'[s].pc # "idle" =>
                           /\ (s = Recovery) <=> (task'[s].op = "reconcile")
                           /\ Creates(s)' /\ task'[s].pc \in {"queued", "admit"}
                                <=> task'[s].upload = None
                      /\ task'[s].pc # "idle" /\ ~Creates(s)'
                           => row'[task'[s].upload].state # "absent"
    BY DEF ArgumentsOK
  <2>1. CASE s # t
    BY <1>3, <1>6, <2>1, Holding DEF Queueing, ArgumentsOK, RowsStay
  <2>2. CASE s = t
    BY <1>1, <1>2, <1>5, <1>6, <2>2 DEF Queueing, ArgumentsOK, Creates
  <2> QED BY <2>1, <2>2
<1>11. CreationsOK'
  <2>1. row[u].state = "absent" /\ \A s \in Tasks : task[s].upload # u
    BY DEF AdmitCreation, Unused
  <2> SUFFICES ASSUME NEW r \in Tasks, NEW s \in Tasks, Creates(r)', task'[s].pc # "idle",
                      ~Creates(s)'
               PROVE  task'[r].upload # task'[s].upload
    BY DEF CreationsOK
  <2>2. Creates(r) /\ ~Creates(s) /\ task[s].pc # "idle" /\ s # t
    BY <1>1, <1>2, <1>6, <1>7
  <2>3. task'[s] = task[s] /\ task[s].upload # u /\ task[r].upload # task[s].upload
    BY <1>2, <1>3, <2>1, <2>2 DEF Queueing, CreationsOK
  <2> QED BY <1>2, <1>3, <1>5, <2>3
<1> QED BY <1>9, <1>10, <1>11 DEF Queueing

\* The reconciliation works alone: no request is waiting or at work.
LEMMA ReconcileQueueing ==
  ASSUME TypeOK, Queueing, RowsStay, NEW u \in Uploads, Reconcile(u)
  PROVE  Queueing'
<1>1. Visit(u) /\ row[u].state # "absent" /\ Recovery \in Runners
  BY DEF Reconcile, ReconcileSettled, ReconcileStaged, ReconcileVerified,
         ReconcileCommitted, ReconcileCancelled, Runners
<1>2. /\ mode = "recovering" /\ mode' = mode /\ queue' = queue
      /\ task[Recovery] = IdleTask
  BY <1>1 DEF Visit, Queueing, ArgumentsOK
<1> DEFINE Working == /\ task'[Recovery].pc \in Steps \ {"idle", "queued", "admit"}
                      /\ task'[Recovery].op = "reconcile" /\ task'[Recovery].upload = u
                      /\ \A s \in Runners \ {Recovery} : task'[s] = task[s]
<1>3. Working
  <2>1. ASSUME NEW pc \in Steps \ {"idle", "queued", "admit"}, ResumeAt(u, pc)
        PROVE  Working
    BY <1>1, <1>2, <2>1 DEF ResumeAt, TypeOK, IdleTask
  <2>2. ASSUME NEW state, NEW next, SettleAs(u, state, next)
        PROVE  Working
    BY <1>1, <1>2, <2>2 DEF SettleAs, TypeOK, IdleTask, Steps
  <2>3. CASE ReconcileSettled(u) \/ ReconcileVerified(u)
    BY <2>1, <2>2, <2>3 DEF ReconcileSettled, ReconcileVerified, Steps
  <2>4. CASE ReconcileStaged(u) \/ ReconcileCommitted(u) \/ ReconcileCancelled(u)
    BY <2>1, <2>4 DEF ReconcileStaged, ReconcileCommitted, ReconcileCancelled, Steps
  <2> QED BY <2>3, <2>4 DEF Reconcile
<1>4. \A s \in Tasks : s \in Runners \ {Recovery} /\ task[s].pc = "idle"
  BY <1>2 DEF Queueing, LanesOK, Runners
<1>5. \A s \in Tasks : task'[s] = task[s] /\ ~Active(s)' /\ Creates(s)' = Creates(s)
  BY <1>3, <1>4 DEF Active, Creates
<1>6. LanesOK'
  BY <1>2, <1>4, <1>5 DEF LanesOK
<1>7. ArgumentsOK'
  <2> SUFFICES ASSUME NEW s \in Runners
               PROVE  /\ task'[s].pc = "idle" => task'[s] = IdleTask
                      /\ Creates(s)' => task'[s].arg \in Declared
                      /\ task'[s].op = "append" => task'[s].arg \in Packets
                      /\ task'[s].pc # "idle" =>
                           /\ (s = Recovery) <=> (task'[s].op = "reconcile")
                           /\ Creates(s)' /\ task'[s].pc \in {"queued", "admit"}
                                <=> task'[s].upload = None
                      /\ task'[s].pc # "idle" /\ ~Creates(s)'
                           => row'[task'[s].upload].state # "absent"
    BY DEF ArgumentsOK
  <2>1. CASE s # Recovery
    BY <1>4, <1>5, <2>1 DEF Queueing, ArgumentsOK, Runners
  <2>2. CASE s = Recovery
    BY <1>1, <1>3, <2>2 DEF Creates, RowsStay
  <2> QED BY <2>1, <2>2
<1>8. CreationsOK'
  BY <1>4, <1>5 DEF CreationsOK
<1> QED BY <1>6, <1>7, <1>8 DEF Queueing

\* Every step keeps the order of the lanes, and gives a task only what is its own.
LEMMA QueueingStep ==
  ASSUME LibraryInv, Next
  PROVE  Queueing'
<1> USE DEF LibraryInv
<1>0. Queueing /\ RowsStay
  BY RowsStayStep DEF Queueing
<1>1. CASE Requests
  <2>1. PICK t \in Tasks :
          \/ \E d \in Declared, op \in {"create", "createProject"} : RequestCreate(t, d, op)
          \/ \E u \in Uploads : \/ \E p \in Packets : RequestAppend(t, u, p)
                                \/ RequestComplete(t, u)
                                \/ RequestCancel(t, u)
    BY <1>1 DEF Requests
  <2>2. CASE \E d \in Declared, op \in {"create", "createProject"} : RequestCreate(t, d, op)
    <3>1. PICK d \in Declared, op \in {"create", "createProject"} : RequestCreate(t, d, op)
      BY <2>2
    <3>2. Enqueue(t, op, None, d) /\ UNCHANGED row
      BY <3>1 DEF RequestCreate, Enqueue, database
    <3> QED BY <1>0, <3>2, EnqueueQueueing DEF Operations
  <2>3. ASSUME NEW u \in Uploads, NEW p \in Packets, RequestAppend(t, u, p) PROVE Queueing'
    <3>1. Known(u) /\ Enqueue(t, "append", u, p) /\ UNCHANGED row
      BY <2>3 DEF RequestAppend, Enqueue, database
    <3> QED BY <1>0, <3>1, EnqueueQueueing DEF Operations
  <2>4. ASSUME NEW u \in Uploads, RequestComplete(t, u) \/ RequestCancel(t, u) PROVE Queueing'
    <3>1. PICK op \in {"complete", "cancel"} :
            Known(u) /\ Enqueue(t, op, u, None) /\ UNCHANGED row
      BY <2>4 DEF RequestComplete, RequestCancel, Enqueue, database
    <3> QED BY <1>0, <3>1, EnqueueQueueing DEF Operations
  <2> QED BY <2>1, <2>2, <2>3, <2>4
<1>2. ASSUME NEW t \in Runners, TaskStep(t) PROVE Queueing'
  <2>1. ASSUME Moves(t) PROVE Queueing'
    BY <1>0, <2>1, MovesQueueing
  <2>2. ASSUME Finish(t), mode' = mode, task[t].pc # "idle",
               task[t].pc = "queued" => Head(queue[Lane(t)]) = t
        PROVE  Queueing'
    BY <1>0, <2>2, InTurn, FinishQueueing
  <2>3. ASSUME NEW pc \in Steps \ {"idle", "queued", "admit"}, Goto(t, pc), mode' = mode,
               task[t].pc \notin {"idle", "queued", "admit"}
        PROVE  Queueing'
    BY <1>0, <2>1, <2>3, GotoMoves
  <2>4. ASSUME NEW state, NEW persisted, NEW next, mode' = mode,
               Capture(t, task[t].upload, state, persisted, next),
               task[t].pc \notin {"idle", "queued", "admit"}
        PROVE  Queueing'
    BY <1>0, <2>1, <2>4, CaptureMoves
  <2>5. task[t] \in Locals
    BY DEF TypeOK
  <2>6. CASE Creating(t)
    <3>1. CASE BeginCreate(t)
      <4>1. task[t].pc = "queued" /\ Creates(t) /\ Head(queue[Lane(t)]) = t
        BY <3>1 DEF BeginCreate, AtHead, Creates
      <4>2. /\ task'[t] = [task[t] EXCEPT !.pc = "admit", !.reserved = ReservedBytes]
            /\ \A s \in Runners \ {t} : task'[s] = task[s]
            /\ queue' = queue /\ mode' = mode
        BY <3>1 DEF BeginCreate, TypeOK
      <4>3. /\ task'[t].pc = "admit" /\ task'[t].op = task[t].op
            /\ task'[t].arg = task[t].arg /\ task'[t].upload = task[t].upload
        BY <2>5, <4>2 DEF Locals
      <4> QED BY <1>0, <2>1, <4>1, <4>2, <4>3, InTurn DEF Moves
    <3>2. CASE RefuseCreation(t)
      BY <2>2, <3>2 DEF RefuseCreation, Answer
    <3>3. CASE \E u \in Uploads : AdmitCreation(t, u)
      BY <1>0, <3>3, AdmitQueueing
    <3>4. CASE InsertRow(t)
      BY <2>4, <3>4 DEF InsertRow
    <3>5. CASE BindUpload(t)
      BY <2>2, <3>5 DEF BindUpload
    <3> QED BY <2>6, <3>1, <3>2, <3>3, <3>4, <3>5 DEF Creating
  <2>7. CASE Appending(t)
    <3>1. CASE AnswerAppend(t)
      BY <2>2, <3>1 DEF AnswerAppend, AtHead, Answer
    <3>2. CASE BeginAppend(t)
      BY <1>0, <2>1, <3>2, GotoMoves DEF BeginAppend, AtHead, Creates, Steps
    <3>3. CASE WriteByte(t)
      <4>1. task[t].pc = "write" /\ mode' = mode /\ queue' = queue
        BY <3>3 DEF WriteByte
      <4>2. PICK pc \in {"write", "persist"} :
              /\ task'[t] = [task[t] EXCEPT !.written = @ + 1, !.pc = pc]
              /\ \A s \in Runners \ {t} : task'[s] = task[s]
        BY <3>3 DEF WriteByte, TypeOK
      <4>3. /\ task'[t].pc = pc /\ task'[t].op = task[t].op
            /\ task'[t].arg = task[t].arg /\ task'[t].upload = task[t].upload
        BY <2>5, <4>2 DEF Locals
      <4> QED BY <1>0, <2>1, <4>1, <4>2, <4>3, InTurn DEF Moves
    <3>4. CASE PersistChunk(t)
      BY <2>4, <3>4 DEF PersistChunk
    <3> QED BY <2>7, <3>1, <3>2, <3>3, <3>4 DEF Appending
  <2>8. CASE Committing(t)
    <3>1. CASE AnswerComplete(t)
      BY <2>2, <3>1 DEF AnswerComplete, AtHead, Answer
    <3>2. CASE BeginComplete(t)
      BY <1>0, <2>1, <3>2, CaptureMoves DEF BeginComplete, AtHead, Creates, Mark
    <3>3. CASE HashStaging(t) \/ MarkCommitted(t)
      BY <2>4, <3>3 DEF HashStaging, MarkCommitted, MarkRecoverableError, Mark
    <3>4. CASE RehashStaging(t) \/ VerifyBlob(t) \/ ReuseBlob(t) \/ MoveToBlob(t)
      BY <2>3, <2>4, <3>4 DEF RehashStaging, VerifyBlob, ReuseBlob, MoveToBlob,
         MarkRecoverableError, Mark, Steps
    <3>5. CASE FindBlob(t) \/ AdoptBlob(t)
      <4>1. task[t].pc \in {"find", "adopt"} /\ mode' = mode /\ queue' = queue
        BY <3>5 DEF FindBlob, AdoptBlob
      <4>2. PICK pc \in {"reuse", "move", "verify"}, b \in BOOLEAN :
              /\ task'[t] = [task[t] EXCEPT !.createBlob = b, !.pc = pc]
              /\ \A s \in Runners \ {t} : task'[s] = task[s]
        BY <3>5 DEF FindBlob, AdoptBlob, TypeOK
      <4>3. /\ task'[t].pc = pc /\ task'[t].op = task[t].op
            /\ task'[t].arg = task[t].arg /\ task'[t].upload = task[t].upload
        BY <2>5, <4>2 DEF Locals
      <4> QED BY <1>0, <2>1, <4>1, <4>2, <4>3, InTurn DEF Moves
    <3>6. CASE CreateReference(t)
      <4>1. CASE Conflicts(t) /\ t = Recovery
        BY <3>6, <4>1, HaltQueueing DEF CreateReference, Throw
      <4>2. CASE Conflicts(t) /\ t # Recovery
        BY <2>2, <3>6, <4>2 DEF CreateReference, Throw
      <4>3. CASE ~Conflicts(t)
        BY <2>4, <3>6, <4>3 DEF CreateReference
      <4> QED BY <4>1, <4>2, <4>3
    <3> QED BY <2>8, <3>1, <3>2, <3>3, <3>4, <3>5, <3>6 DEF Committing
  <2>9. CASE Cancelling(t)
    <3>1. CASE AnswerCancel(t)
      BY <2>2, <3>1 DEF AnswerCancel, AtHead, Answer
    <3>2. CASE BeginCancel(t)
      BY <1>0, <2>1, <3>2, CaptureMoves DEF BeginCancel, AtHead, Creates, Mark
    <3>3. CASE RemoveStaging(t)
      BY <2>2, <2>4, <3>3 DEF RemoveStaging
    <3> QED BY <2>9, <3>1, <3>2, <3>3 DEF Cancelling
  <2>10. CASE LandManifest(t)
    <3>1. task[t].next # "idle" => task[t].next \in Steps \ {"idle", "queued", "admit"}
      BY <2>10 DEF LandManifest, PointOK, Point, Active, Steps
    <3> QED BY <2>2, <2>3, <2>10, <3>1 DEF LandManifest
  <2> QED BY <1>2, <2>6, <2>7, <2>8, <2>9, <2>10 DEF TaskStep
<1>3. ASSUME NEW t \in Runners, Fail(t) PROVE Queueing'
  <2>1. CASE t = Recovery
    BY <1>3, <2>1, HaltQueueing DEF Fail, Throw
  <2>2. CASE t # Recovery
    BY <1>0, <1>3, <2>2, InTurn, FinishQueueing DEF Fail, Throw, Runners
  <2> QED BY <2>1, <2>2
<1>4. CASE Stop
  BY <1>4, HaltQueueing DEF Stop
<1>5. CASE Start \/ Serve
  BY <1>0, <1>5 DEF Start, Serve, database, Queueing, LanesOK, ArgumentsOK, CreationsOK,
                    Active, Creates, Lane
<1>6. ASSUME NEW u \in Uploads, Reconcile(u) PROVE Queueing'
  BY <1>0, <1>6, ReconcileQueueing
<1> QED BY <1>1, <1>2, <1>3, <1>4, <1>5, <1>6 DEF Next, Recovering

=============================================================================
