------------------------ MODULE MaterialLibraryProofs ------------------------
(***************************************************************************)
(* LibraryInv holds at every step of MaterialLibrary, for every set of     *)
(* uploads, files and tasks, and with it the safety of the library.        *)
(* MaterialLibraryLanes proves its half about types and queues; here is    *)
(* the half about rows, files and the points the tasks have reached.       *)
(*                                                                         *)
(* On it rest six more parts, most with an invariant of their own: the     *)
(* bytes that were acknowledged (BytesInv), the refinement of              *)
(* UploadLifecycle, the recovery (GoneOK, ResumeOK and TodoOK), the space  *)
(* of the volume (SpaceOK), the refinement of UploadContract (Changes says *)
(* how rows change, WithinSize how much they count), and the end and the   *)
(* order of the requests (TaskChanges says how tasks and lanes change).    *)
(***************************************************************************)
EXTENDS MaterialLibraryLanes

Store == RowsOK /\ BlobsIntact /\ VisibleIsIntact /\ NothingLost

Kept == Store /\ \A t \in Runners : PointOK(t)

\* Where the bytes of an upload in a state must be.
Homed(u, state) ==
  /\ state \in {"transferring", "staged"} => Exists(staging[u])
  /\ state = "hash_verified" =>
       \/ Exists(staging[u]) /\ HashesTo(staging[u], row[u].sha)
       \/ Exists(blobFile[row[u].sha])
  /\ state = "committed" => Exists(blobFile[row[u].sha])

\* Task t has the turn on its upload.
OnTurn(t) ==
  \/ Active(t)
  \/ /\ t \in Tasks /\ task[t].pc = "queued" /\ ~Creates(t)
     /\ Head(queue[Lane(t)]) = t

\* Only t moves, only the upload v is touched, and no blob goes away.
Touches(t, v) ==
  /\ \A s \in Runners \ {t} : task'[s] = task[s]
  /\ \A w \in Uploads \ {v} : row'[w] = row[w] /\ staging'[w] = staging[w]
  /\ blobs \subseteq blobs'
  /\ \A h \in Shas : Exists(blobFile[h]) => Exists(blobFile'[h])

-----------------------------------------------------------------------------
(* Frames *)

LEMMA StoreFrame ==
  ASSUME Store, UNCHANGED <<row, blobs, refs, staging, blobFile>>
  PROVE  Store'
BY DEF Store, RowsOK, BlobsIntact, VisibleIsIntact, NothingLost, HashesTo, Exists

\* A state changes on the way between absent and ready.
LEMMA StateStore ==
  ASSUME TypeOK, Store, NEW u \in Uploads, NEW state \in States \ {"absent", "ready"},
         row[u].state \notin {"absent", "ready"},
         row' = [row EXCEPT ![u].state = state], Homed(u, state),
         UNCHANGED <<blobs, refs, staging, blobFile>>
  PROVE  Store'
<1>1. row[u] \in Rows /\ row' = [row EXCEPT ![u] = [row[u] EXCEPT !.state = state]]
  BY DEF TypeOK
<1>2. /\ row'[u].state = state /\ row'[u].sha = row[u].sha
      /\ \A w \in Uploads \ {u} : row'[w] = row[w]
  BY <1>1 DEF TypeOK, Rows
<1>3. \A w \in Uploads : row'[w].sha = row[w].sha
  BY <1>2
<1>4. RowsOK'
  BY <1>2, <1>3 DEF Store, RowsOK
<1>5. BlobsIntact'
  BY DEF Store, BlobsIntact, HashesTo, Exists
<1>6. VisibleIsIntact'
  <2>1. {w \in Uploads : row'[w].state = "ready"} = {w \in Uploads : row[w].state = "ready"}
    BY <1>2
  <2>2. \A r \in refs : r.upload \in Uploads
    BY DEF TypeOK
  <2> QED BY <1>3, <2>1, <2>2 DEF Store, VisibleIsIntact, HashesTo
<1>7. NothingLost'
  BY <1>2 DEF Store, NothingLost, Homed, Exists, HashesTo
<1> QED BY <1>4, <1>5, <1>6, <1>7 DEF Store

\* Whoever has the turn on an upload has it alone.
LEMMA Alone ==
  ASSUME TypeOK, Queueing, NEW t \in Runners, OnTurn(t), task[t].upload # None,
         NEW s \in Runners \ {t}, Active(s)
  PROVE  task[s].upload # task[t].upload
<1>1. CASE Active(t)
  BY <1>1, Exclusion DEF MutualExclusion
<1>2. CASE /\ t \in Tasks /\ task[t].pc = "queued" /\ ~Creates(t)
           /\ Head(queue[Lane(t)]) = t
  <2>1. s \in Tasks
    BY <1>2 DEF Queueing, LanesOK, Active, Runners
  <2>2. CASE Creates(s)
    BY <1>2, <2>1, <2>2 DEF Queueing, CreationsOK
  <2>3. CASE ~Creates(s)
    <3>1. queue[Lane(t)][1] = t /\ queue[Lane(s)][1] = s
      BY <1>2, <2>1, InTurn DEF Queueing, LanesOK
    <3> QED BY <1>2, <2>3, <3>1 DEF Lane
  <2> QED BY <2>2, <2>3
<1> QED BY <1>1, <1>2 DEF OnTurn

\* What a task does to its own upload is nothing to the others.
LEMMA OthersPoint ==
  ASSUME TypeOK, Queueing, RowsOK, NEW t \in Runners, OnTurn(t), task[t].upload \in Uploads,
         Touches(t, task[t].upload), NEW s \in Runners \ {t}, PointOK(s)
  PROVE  PointOK(s)'
<1>1. task'[s] = task[s] /\ (Active(s)' <=> Active(s)) /\ Point(s)' = Point(s)
  BY DEF Touches, Active, Point
<1>2. CASE ~Active(s)
  BY <1>1, <1>2 DEF PointOK
<1>3. CASE task[s].upload = None
  <2>1. Active(s) => task[s].pc = "admit" /\ Creates(s)
    BY <1>3 DEF Queueing, ArgumentsOK, Active
  <2> QED BY <1>1, <2>1 DEF PointOK, Point, Creates
<1>4. CASE Active(s) /\ task[s].upload # None
  <2> DEFINE v == task[s].upload
  <2>1. v \in Uploads
    BY <1>4, Holding DEF Queueing, ArgumentsOK, Active
  <2>2. row'[v] = row[v] /\ staging'[v] = staging[v]
    BY <1>4, <2>1, Alone DEF Touches
  <2>3. row[v].sha \in Shas \/ row[v].state = "absent"
    BY <2>1 DEF RowsOK
  <2> QED BY <1>1, <1>4, <2>1, <2>2, <2>3
          DEF PointOK, Touches, Creates, Exists, HashesTo
<1> QED BY <1>2, <1>3, <1>4

LEMMA TurnKeeps ==
  ASSUME LibraryInv, NEW t \in Runners, OnTurn(t), task[t].upload \in Uploads,
         Touches(t, task[t].upload), Store', PointOK(t)'
  PROVE  Kept'
<1>1. \A s \in Runners \ {t} : PointOK(s)'
  BY OthersPoint DEF LibraryInv, Queueing
<1> QED BY <1>1 DEF Kept

\* A step that touches neither rows nor files of materials.
LEMMA QuietKeeps ==
  ASSUME LibraryInv, NEW t \in Runners, UNCHANGED <<row, blobs, refs, staging, blobFile>>,
         \A s \in Runners \ {t} : task'[s] = task[s], PointOK(t)'
  PROVE  Kept'
<1>1. Store'
  BY StoreFrame DEF LibraryInv, Store
<1>2. \A s \in Runners \ {t} : PointOK(s)'
  <2> SUFFICES ASSUME NEW s \in Runners \ {t} PROVE PointOK(s)'
    OBVIOUS
  <2>1. PointOK(s) /\ task'[s] = task[s]
    BY DEF LibraryInv
  <2> QED BY <2>1 DEF PointOK, Point, Active, Creates, Exists, HashesTo
<1> QED BY <1>1, <1>2 DEF Kept

LEMMA HaltKeeps ==
  ASSUME LibraryInv, Halt, UNCHANGED <<row, blobs, refs, staging, blobFile>>
  PROVE  Kept'
<1>1. Store'
  BY StoreFrame DEF LibraryInv, Store
<1>2. \A t \in Runners : PointOK(t)'
  BY DEF Halt, IdleTask, PointOK, Active
<1> QED BY <1>1, <1>2 DEF Kept

LEMMA FinishKeeps ==
  ASSUME LibraryInv, NEW t \in Runners, Finish(t),
         UNCHANGED <<row, blobs, refs, staging, blobFile>>
  PROVE  Kept'
<1>1. task'[t] = IdleTask /\ \A s \in Runners \ {t} : task'[s] = task[s]
  BY DEF Finish, LibraryInv, TypeOK
<1>2. PointOK(t)'
  BY <1>1 DEF PointOK, Active, IdleTask
<1> QED BY <1>1, <1>2, QuietKeeps

LEMMA ThrowKeeps ==
  ASSUME LibraryInv, NEW t \in Runners, Throw(t),
         UNCHANGED <<row, blobs, refs, staging, blobFile>>
  PROVE  Kept'
BY FinishKeeps, HaltKeeps DEF Throw

LEMMA CaptureEffect ==
  ASSUME TypeOK, NEW t \in Runners, NEW state \in States,
         NEW persisted \in SUBSET Chunk, NEW next \in Steps,
         Capture(t, task[t].upload, state, persisted, next)
  PROVE  /\ task'[t].pc = "mirror" /\ task'[t].next = next
         /\ task'[t].upload = task[t].upload /\ task'[t].op = task[t].op
         /\ task'[t].createBlob = task[t].createBlob
         /\ \A s \in Runners \ {t} : task'[s] = task[s]
<1>1. task'[t] = [task[t] EXCEPT !.pc = "mirror", !.next = next, !.upload = task[t].upload,
                     !.image = [state |-> state, chunks |-> persisted]]
      /\ \A s \in Runners \ {t} : task'[s] = task[s]
  BY DEF Capture, TypeOK
<1>2. task[t] \in Locals
  BY DEF TypeOK
<1> QED BY <1>1, <1>2 DEF Locals

LEMMA GotoEffect ==
  ASSUME TypeOK, NEW t \in Runners, NEW pc, Goto(t, pc)
  PROVE  /\ task'[t].pc = pc /\ task'[t].next = task[t].next
         /\ task'[t].upload = task[t].upload /\ task'[t].op = task[t].op
         /\ task'[t].createBlob = task[t].createBlob
         /\ \A s \in Runners \ {t} : task'[s] = task[s]
<1>1. task'[t] = [task[t] EXCEPT !.pc = pc] /\ \A s \in Runners \ {t} : task'[s] = task[s]
  BY DEF Goto, TypeOK
<1>2. task[t] \in Locals
  BY DEF TypeOK
<1> QED BY <1>1, <1>2 DEF Locals

\* A state is recorded and the task goes on where that state lets it.
LEMMA MarkKeeps ==
  ASSUME LibraryInv, NEW t \in Runners, OnTurn(t), task[t].upload \in Uploads,
         NEW state \in States \ {"absent", "ready"}, NEW next,
         Mark(t, task[t].upload, state, next),
         row[task[t].upload].state \notin {"absent", "ready"}, Homed(task[t].upload, state),
         \/ next = "idle"
         \/ next = "hash" /\ state = "staged"
         \/ /\ next = "find" /\ state = "hash_verified"
            /\ HashesTo(staging[task[t].upload], ShaOf(t))
         \/ /\ next = "verify" /\ state = "committed"
            /\ task[t].createBlob \/ ShaOf(t) \in blobs
         \/ next = "remove" /\ state = "cancelled"
  PROVE  Kept'
<1> DEFINE u == task[t].upload
<1>1. /\ row' = [row EXCEPT ![u].state = state]
      /\ UNCHANGED <<blobs, refs, staging, blobFile>>
      /\ Capture(t, u, state, chunks[u], next)
  BY DEF Mark, files
<1>2. Store'
  BY <1>1, StateStore DEF LibraryInv, Store
<1>3. /\ row'[u].state = state /\ row'[u].sha = row[u].sha
      /\ \A w \in Uploads \ {u} : row'[w] = row[w]
  <2>1. row[u] \in Rows /\ row' = [row EXCEPT ![u] = [row[u] EXCEPT !.state = state]]
    BY <1>1 DEF LibraryInv, TypeOK
  <2> QED BY <2>1 DEF LibraryInv, TypeOK, Rows
<1>4. /\ task'[t].pc = "mirror" /\ task'[t].next = next
      /\ task'[t].upload = u /\ task'[t].createBlob = task[t].createBlob
      /\ \A s \in Runners \ {t} : task'[s] = task[s]
  <2>1. /\ TypeOK /\ Capture(t, task[t].upload, state, chunks[u], next)
        /\ chunks[u] \in SUBSET Chunk /\ state \in States /\ next \in Steps
    BY <1>1 DEF LibraryInv, TypeOK, Steps
  <2> QED BY <2>1, CaptureEffect
<1>5. Point(t)' = next
  BY <1>4 DEF Point
<1>6. PointOK(t)'
  <2>1. /\ HashesTo(staging[u], row[u].sha) => HashesTo(staging'[u], row'[u].sha)
        /\ ShaOf(t) = row[u].sha
    BY <1>1, <1>3 DEF HashesTo, ShaOf
  <2> QED BY <1>1, <1>3, <1>4, <1>5, <2>1 DEF PointOK, HashesTo
<1>7. Touches(t, u)
  BY <1>1, <1>3, <1>4 DEF Touches
<1> QED BY <1>2, <1>6, <1>7, TurnKeeps

\* An upload on its way can always be given up.
LEMMA ErrorKeeps ==
  ASSUME LibraryInv, NEW t \in Runners, Active(t), task[t].upload \in Uploads,
         MarkRecoverableError(t), row[task[t].upload].state \notin {"absent", "ready"}
  PROVE  Kept'
BY MarkKeeps DEF MarkRecoverableError, OnTurn, Homed, States

-----------------------------------------------------------------------------
(* Requests, creations and chunks *)

LEMMA RequestsKeep ==
  ASSUME LibraryInv, Requests
  PROVE  Kept'
<1>1. PICK t \in Tasks, op \in Operations, u \in Uploads \union {None},
             arg \in Declared \union Packets \union {None} : Enqueue(t, op, u, arg)
  BY DEF Operations, Requests, RequestCreate, RequestAppend, RequestComplete, RequestCancel
<1>2. t \in Runners /\ UNCHANGED <<row, blobs, refs, staging, blobFile>>
  BY <1>1 DEF Enqueue, database, files, Runners
<1>3. task'[t].pc = "queued" /\ \A s \in Runners \ {t} : task'[s] = task[s]
  BY <1>1, <1>2 DEF Enqueue, LibraryInv, TypeOK, IdleTask
<1>4. PointOK(t)'
  BY <1>3 DEF PointOK, Active
<1> QED BY <1>2, <1>3, <1>4, QuietKeeps

LEMMA CreatingKeeps ==
  ASSUME LibraryInv, NEW t \in Runners, Creating(t)
  PROVE  Kept'
<1>0. Queueing /\ TypeOK /\ PointOK(t) /\ task[t] \in Locals /\ Store
  BY DEF Queueing, LibraryInv, TypeOK, Store
<1>1. CASE BeginCreate(t)
  <2>1. /\ task'[t] = [task[t] EXCEPT !.pc = "admit", !.reserved = ReservedBytes]
        /\ \A s \in Runners \ {t} : task'[s] = task[s]
        /\ UNCHANGED <<row, blobs, refs, staging, blobFile>>
    BY <1>0, <1>1 DEF BeginCreate, TypeOK, database, files
  <2>2. task'[t].pc = "admit" /\ task'[t].op = task[t].op
    BY <1>0, <2>1 DEF Locals
  <2>3. PointOK(t)'
    BY <1>1, <2>2 DEF PointOK, Point, Active, BeginCreate, AtHead, Creates
  <2> QED BY <2>1, <2>3, QuietKeeps
<1>2. CASE RefuseCreation(t)
  BY <1>2, FinishKeeps DEF RefuseCreation, Answer, database, files
<1>3. ASSUME NEW u \in Uploads, AdmitCreation(t, u) PROVE Kept'
  <2>1. /\ task'[t] = [task[t] EXCEPT !.pc = "insert", !.upload = u]
        /\ \A s \in Runners \ {t} : task'[s] = task[s]
        /\ row[u].state = "absent" /\ \A s \in Tasks : task[s].upload # u
        /\ staging' = [staging EXCEPT ![u] = EmptyFile]
        /\ UNCHANGED <<row, blobs, refs, blobFile>>
    BY <1>0, <1>3 DEF AdmitCreation, TypeOK, database, Unused
  <2>2. task'[t].pc = "insert" /\ task'[t].op = task[t].op /\ task'[t].upload = u
    BY <1>0, <2>1 DEF Locals
  <2>3. Creates(t) /\ t \in Tasks
    BY <1>0, <1>3 DEF AdmitCreation, PointOK, Point, Active, Queueing, ArgumentsOK,
                      Creates, Runners
  <2>4. /\ staging'[u] = EmptyFile /\ Exists(EmptyFile)
        /\ \A w \in Uploads \ {u} : staging'[w] = staging[w]
    <3>1. EmptyFile \in Contents
      BY DEF EmptyFile, Contents
    <3> QED BY <1>0, <2>1, <3>1, ConstantsOK DEF TypeOK, Exists
  <2>5. PointOK(t)'
    BY <2>1, <2>2, <2>3, <2>4 DEF PointOK, Point, Active, Creates, Exists
  <2>6. ASSUME NEW s \in Runners \ {t} PROVE PointOK(s)'
    <3>1. PointOK(s) /\ task'[s] = task[s]
      BY <2>1 DEF LibraryInv
    <3>2. CASE ~Active(s)
      BY <3>1, <3>2 DEF PointOK, Active
    <3>3. CASE Active(s) /\ task[s].upload = None
      <4>1. task[s].pc = "admit"
        BY <1>0, <3>3 DEF Queueing, ArgumentsOK, Active
      <4> QED BY <3>1, <4>1 DEF PointOK, Point, Creates, Active
    <3>4. CASE Active(s) /\ task[s].upload # None
      <4>1. s \in Tasks
        BY <1>0, <1>3, <2>3, <3>4 DEF Queueing, LanesOK, AdmitCreation, Runners, Active
      <4>2. task[s].upload # u /\ task[s].upload \in Uploads
        BY <1>0, <2>1, <3>4, <4>1 DEF TypeOK, Locals
      <4> QED BY <2>1, <2>4, <3>1, <4>2
              DEF PointOK, Point, Creates, Active, Exists, HashesTo
    <3> QED BY <3>2, <3>3, <3>4
  <2>7. Store'
    BY <1>0, <2>1, <2>4 DEF Store, RowsOK, BlobsIntact, VisibleIsIntact, NothingLost,
                            Exists, HashesTo
  <2> QED BY <2>5, <2>6, <2>7 DEF Kept
<1>4. CASE InsertRow(t)
  <2> DEFINE u == task[t].upload
             next == IF task[t].op = "createProject" THEN "bind" ELSE "idle"
             new == [state |-> "transferring", sha |-> task[t].arg.sha,
                     size |-> task[t].arg.size, received |-> 0, ackEpoch |-> 0]
  <2>1. Active(t) /\ OnTurn(t) /\ u \in Uploads
    BY <1>0, <1>4, Holding DEF InsertRow, Active, OnTurn, Queueing
  <2>2. /\ row[u].state = "absent" /\ Exists(staging[u]) /\ task[t].arg \in Declared
    BY <1>0, <1>4 DEF InsertRow, PointOK, Point, Active, Queueing, ArgumentsOK
  <2>3. /\ row'[u] = new /\ \A w \in Uploads \ {u} : row'[w] = row[w]
        /\ UNCHANGED <<blobs, refs, staging, blobFile>>
    BY <1>0, <1>4, <2>1 DEF InsertRow, TypeOK, files
  <2>4. /\ Capture(t, task[t].upload, "transferring", chunks[task[t].upload], next)
        /\ chunks[u] \in SUBSET Chunk /\ "transferring" \in States /\ next \in Steps
    BY <1>0, <1>4, <2>1 DEF InsertRow, TypeOK, States, Steps
  <2>5. /\ task'[t].pc = "mirror" /\ task'[t].next = next /\ task'[t].upload = u
        /\ \A s \in Runners \ {t} : task'[s] = task[s]
    BY <1>0, <2>4, CaptureEffect
  <2>6. PointOK(t)'
    <3>1. Point(t)' \in {"bind", "idle"} /\ row'[task'[t].upload].state = "transferring"
      BY <2>3, <2>5 DEF Point
    <3> QED BY <2>5, <3>1 DEF PointOK
  <2>7. new.sha \in Shas
    BY <2>2, ConstantsOK
  <2>8. Store'
    <3>1. RowsOK' /\ BlobsIntact' /\ NothingLost'
      BY <1>0, <2>2, <2>3, <2>7 DEF Store, RowsOK, BlobsIntact, NothingLost, Exists, HashesTo
    <3>2. u \notin {r.upload : r \in refs}
      BY <1>0, <2>1, <2>2 DEF Store, VisibleIsIntact
    <3>3. {w \in Uploads : row'[w].state = "ready"} = {w \in Uploads : row[w].state = "ready"}
      BY <2>2, <2>3
    <3>4. \A r \in refs : r.upload \in Uploads \ {u}
      BY <1>0, <3>2 DEF TypeOK
    <3>5. VisibleIsIntact'
      BY <1>0, <2>3, <3>3, <3>4 DEF Store, VisibleIsIntact, HashesTo
    <3> QED BY <3>1, <3>5 DEF Store
  <2>9. Touches(t, u)
    BY <2>3, <2>5 DEF Touches
  <2> QED BY <2>1, <2>6, <2>8, <2>9, TurnKeeps
<1>5. CASE BindUpload(t)
  BY <1>5, FinishKeeps DEF BindUpload, files
<1> QED BY <1>1, <1>2, <1>3, <1>4, <1>5 DEF Creating

LEMMA AppendingKeeps ==
  ASSUME LibraryInv, NEW t \in Runners, Appending(t), TypeOK'
  PROVE  Kept'
<1> DEFINE u == task[t].upload
           p == task[t].arg
<1>0. Queueing /\ TypeOK /\ PointOK(t) /\ task[t] \in Locals /\ Store
  BY DEF Queueing, LibraryInv, TypeOK, Store
<1>1. CASE AnswerAppend(t)
  BY <1>1, FinishKeeps DEF AnswerAppend, Answer, database, files
<1>2. CASE BeginAppend(t)
  <2>1. Goto(t, "write") /\ UNCHANGED <<row, blobs, refs, staging, blobFile>>
    BY <1>2 DEF BeginAppend, database, files
  <2>2. row[u].state = "transferring" /\ task[t].op = "append"
    BY <1>2 DEF BeginAppend, NewChunk, AtHead
  <2>3. /\ task'[t].pc = "write" /\ task'[t].upload = u /\ task'[t].op = task[t].op
        /\ \A s \in Runners \ {t} : task'[s] = task[s]
    BY <1>0, <2>1, GotoEffect
  <2>4. PointOK(t)'
    BY <2>1, <2>2, <2>3 DEF PointOK, Point, Active
  <2> QED BY <2>1, <2>3, <2>4, QuietKeeps
<1>3. CASE WriteByte(t)
  <2>1. /\ Active(t) /\ OnTurn(t) /\ u \in Uploads
        /\ row[u].state = "transferring" /\ task[t].op = "append"
    BY <1>0, <1>3, Holding DEF WriteByte, Active, OnTurn, Queueing, PointOK, Point
  <2>2. PICK pc \in {"write", "persist"} :
          /\ task'[t] = [task[t] EXCEPT !.written = @ + 1, !.pc = pc]
          /\ \A s \in Runners \ {t} : task'[s] = task[s]
    BY <1>0, <1>3 DEF WriteByte, TypeOK
  <2>3. task'[t].pc = pc /\ task'[t].upload = u /\ task'[t].op = task[t].op
    BY <1>0, <2>2 DEF Locals
  <2>4. /\ UNCHANGED <<row, blobs, refs, blobFile>>
        /\ \A w \in Uploads \ {u} : staging'[w] = staging[w]
    BY <1>0, <1>3 DEF WriteByte, TypeOK, database
  <2>5. Exists(staging'[u])
    <3>1. staging[u] \in Contents
      BY <1>0, <2>1 DEF Store, NothingLost, Exists, TypeOK
    <3>2. staging'[u] = [staging[u] EXCEPT ![p.offset + task[t].written] = p.data]
      BY <1>0, <1>3, <2>1 DEF WriteByte, TypeOK
    <3>3. p \in Packets
      BY <1>0, <2>1 DEF Queueing, ArgumentsOK
    <3>4. staging'[u] \in Contents
      BY <3>1, <3>2, <3>3, ConstantsOK DEF Contents
    <3> QED BY <3>4, ConstantsOK DEF Exists
  <2>6. PointOK(t)'
    BY <2>1, <2>2, <2>3, <2>4 DEF PointOK, Point, Active
  <2>7. Store'
    BY <1>0, <2>1, <2>4, <2>5 DEF Store, RowsOK, BlobsIntact, VisibleIsIntact, NothingLost,
                                  Exists, HashesTo
  <2>8. Touches(t, u)
    BY <2>2, <2>4 DEF Touches
  <2> QED BY <2>1, <2>6, <2>7, <2>8, TurnKeeps
<1>4. CASE PersistChunk(t)
  <2>1. /\ Active(t) /\ OnTurn(t) /\ u \in Uploads /\ row[u] \in Rows
        /\ row[u].state = "transferring"
    BY <1>0, <1>4, Holding DEF PersistChunk, Active, OnTurn, Queueing, PointOK, Point, TypeOK
  <2>2. row' = [row EXCEPT ![u] = [row[u] EXCEPT !.ackEpoch = row[u].ackEpoch + 1,
                                                !.received = row[u].received + p.size]]
        /\ UNCHANGED <<blobs, refs, staging, blobFile>>
    BY <1>4 DEF PersistChunk, files
  <2>3. /\ row'[u].state = row[u].state /\ row'[u].sha = row[u].sha
        /\ \A w \in Uploads \ {u} : row'[w] = row[w]
    BY <1>0, <2>1, <2>2 DEF TypeOK, Rows
  <2>4. /\ Capture(t, task[t].upload, row[u].state, chunks'[u], "idle")
        /\ chunks'[u] \in SUBSET Chunk /\ row[u].state \in States /\ "idle" \in Steps
    <3>1. chunks'[u] = chunks[u] \union {ChunkOf(p)}
      BY <1>0, <1>4, <2>1 DEF PersistChunk, TypeOK
    <3>2. chunks'[u] \in SUBSET Chunk
      BY <2>1 DEF TypeOK
    <3>3. row[u].state \in States /\ "idle" \in Steps
      BY <2>1 DEF Rows, Steps
    <3> QED BY <1>4, <3>1, <3>2, <3>3 DEF PersistChunk
  <2>5. /\ task'[t].pc = "mirror" /\ task'[t].next = "idle"
        /\ \A s \in Runners \ {t} : task'[s] = task[s]
    BY <1>0, <2>4, CaptureEffect
  <2>6. PointOK(t)'
    BY <2>5 DEF PointOK, Point
  <2>7. Store'
    <3>1. \A w \in Uploads : row'[w].state = row[w].state /\ row'[w].sha = row[w].sha
      BY <2>3
    <3>2. {w \in Uploads : row'[w].state = "ready"} = {w \in Uploads : row[w].state = "ready"}
      BY <3>1
    <3>3. \A r \in refs : r.upload \in Uploads
      BY <1>0 DEF TypeOK
    <3>4. RowsOK' /\ BlobsIntact' /\ NothingLost'
      BY <1>0, <2>2, <3>1 DEF Store, RowsOK, BlobsIntact, NothingLost, Exists, HashesTo
    <3>5. VisibleIsIntact'
      BY <1>0, <2>2, <3>1, <3>2, <3>3 DEF Store, VisibleIsIntact, HashesTo
    <3> QED BY <3>4, <3>5 DEF Store
  <2>8. Touches(t, u)
    BY <2>2, <2>3, <2>5 DEF Touches
  <2> QED BY <2>1, <2>6, <2>7, <2>8, TurnKeeps
<1> QED BY <1>1, <1>2, <1>3, <1>4 DEF Appending

-----------------------------------------------------------------------------
(* Completions, cancellations and manifests *)

\* A task goes on to a point it may stand at, with nothing else changed.
LEMMA GotoKeeps ==
  ASSUME LibraryInv, NEW t \in Runners, NEW pc \in Steps, Goto(t, pc),
         UNCHANGED <<row, blobs, refs, staging, blobFile>>,
         \/ /\ pc = "find" /\ row[task[t].upload].state = "hash_verified"
            /\ HashesTo(staging[task[t].upload], ShaOf(t))
         \/ /\ pc = "reference" /\ row[task[t].upload].state = "committed"
            /\ task[t].createBlob \/ ShaOf(t) \in blobs
  PROVE  Kept'
<1>1. /\ task'[t].pc = pc /\ task'[t].upload = task[t].upload
      /\ task'[t].createBlob = task[t].createBlob
      /\ \A s \in Runners \ {t} : task'[s] = task[s]
  BY GotoEffect DEF LibraryInv
<1>2. PointOK(t)'
  BY <1>1 DEF PointOK, Point, ShaOf, HashesTo
<1> QED BY <1>1, <1>2, QuietKeeps

LEMMA UploadsOf ==
  ASSUME NEW R, NEW u, NEW h
  PROVE  {r.upload : r \in R \union {[upload |-> u, sha |-> h]}}
           = {r.upload : r \in R} \union {u}
<1> DEFINE ref == [upload |-> u, sha |-> h]
           L == {r.upload : r \in R \union {ref}}
<1>1. ref.upload = u /\ ref \in R \union {ref}
  OBVIOUS
<1>2. ASSUME NEW x \in L PROVE x \in {r.upload : r \in R} \union {u}
  <2>1. PICK r \in R \union {ref} : x = r.upload BY <1>2
  <2> QED BY <1>1, <2>1
<1>3. u \in L
  BY <1>1
<1>4. ASSUME NEW r \in R PROVE r.upload \in L
  OBVIOUS
<1> QED BY <1>2, <1>3, <1>4

LEMMA CommittingKeeps ==
  ASSUME LibraryInv, NEW t \in Runners, Committing(t)
  PROVE  Kept'
<1> DEFINE u == task[t].upload
<1>0. Queueing /\ TypeOK /\ PointOK(t) /\ task[t] \in Locals /\ Store
  BY DEF Queueing, LibraryInv, TypeOK, Store
<1>1. ASSUME task[t].pc \in {"hash", "rehash", "find", "reuse", "move", "commit", "adopt",
                              "verify", "reference"}
      PROVE  /\ Active(t) /\ OnTurn(t) /\ u \in Uploads /\ Point(t) = task[t].pc
             /\ row[u].state \in {"staged", "hash_verified", "committed"}
             /\ ShaOf(t) = row[u].sha /\ ShaOf(t) \in Shas
  <2>1. Active(t) /\ OnTurn(t) /\ u \in Uploads /\ Point(t) = task[t].pc
    BY <1>0, <1>1, Holding DEF Active, OnTurn, Point, Queueing
  <2>2. row[u].state \in {"staged", "hash_verified", "committed"}
    BY <1>0, <1>1, <2>1 DEF PointOK
  <2> QED BY <1>0, <2>1, <2>2 DEF ShaOf, Store, RowsOK
<1>2. CASE AnswerComplete(t)
  BY <1>2, FinishKeeps DEF AnswerComplete, Answer, database, files
<1>3. CASE BeginComplete(t)
  <2>1. OnTurn(t) /\ u \in Uploads /\ row[u].state = "transferring"
    BY <1>3, AtHeadHolds DEF BeginComplete, AtHead, OnTurn, Complete
  <2>2. Homed(u, "staged")
    BY <1>0, <2>1 DEF Homed, Store, NothingLost
  <2> QED BY <1>3, <2>1, <2>2, MarkKeeps DEF BeginComplete, States
<1>4. CASE HashStaging(t)
  <2>1. row[u].state = "staged" /\ Exists(staging[u])
    BY <1>0, <1>1, <1>4 DEF HashStaging, PointOK, Store, NothingLost
  <2>2. CASE HashesTo(staging[u], ShaOf(t))
    <3>1. Homed(u, "hash_verified") /\ Mark(t, u, "hash_verified", "find")
      BY <1>1, <1>4, <2>1, <2>2 DEF Homed, HashStaging
    <3> QED BY <1>1, <1>4, <2>1, <2>2, <3>1, MarkKeeps DEF HashStaging, States
  <2>3. CASE ~HashesTo(staging[u], ShaOf(t))
    BY <1>1, <1>4, <2>1, <2>3, ErrorKeeps DEF HashStaging
  <2> QED BY <2>2, <2>3
<1>5. CASE RehashStaging(t)
  <2>1. row[u].state = "hash_verified"
    BY <1>0, <1>1, <1>5 DEF RehashStaging, PointOK
  <2>2. CASE HashesTo(staging[u], ShaOf(t))
    BY <1>5, <2>1, <2>2, GotoKeeps DEF RehashStaging, database, files, Steps
  <2>3. CASE ~HashesTo(staging[u], ShaOf(t))
    BY <1>1, <1>5, <2>1, <2>3, ErrorKeeps DEF RehashStaging
  <2> QED BY <2>2, <2>3
<1>6. CASE FindBlob(t)
  <2>1. PICK pc \in {"reuse", "move"}, b \in BOOLEAN :
          /\ task'[t] = [task[t] EXCEPT !.createBlob = b, !.pc = pc]
          /\ \A s \in Runners \ {t} : task'[s] = task[s]
          /\ b <=> ShaOf(t) \notin blobs
    BY <1>0, <1>6 DEF FindBlob, TypeOK
  <2>2. task'[t].pc = pc /\ task'[t].upload = u /\ task'[t].createBlob = b
    BY <1>0, <2>1 DEF Locals
  <2>3. UNCHANGED <<row, blobs, refs, staging, blobFile>>
    BY <1>6 DEF FindBlob, database, files
  <2>4. PointOK(t)'
    <3>1. row[u].state = "hash_verified" /\ HashesTo(staging[u], row[u].sha)
      BY <1>0, <1>1, <1>6 DEF FindBlob, PointOK
    <3>2. ShaOf(t) = row[u].sha
      BY DEF ShaOf
    <3> QED BY <2>1, <2>2, <2>3, <3>1, <3>2 DEF PointOK, Point, HashesTo
  <2> QED BY <2>1, <2>3, <2>4, QuietKeeps
<1>7. CASE ReuseBlob(t)
  <2>1. row[u].state = "hash_verified" /\ (task[t].createBlob \/ row[u].sha \in blobs)
    BY <1>0, <1>1, <1>7 DEF ReuseBlob, PointOK
  <2>2. CASE Exists(blobFile[ShaOf(t)])
    <3>1. /\ Goto(t, "commit") /\ UNCHANGED <<row, blobs, refs, blobFile>>
          /\ staging'[u] = None /\ \A w \in Uploads \ {u} : staging'[w] = staging[w]
      BY <1>0, <1>1, <1>7, <2>2 DEF ReuseBlob, TypeOK, database
    <3>2. /\ task'[t].pc = "commit" /\ task'[t].upload = u
          /\ task'[t].createBlob = task[t].createBlob
          /\ \A s \in Runners \ {t} : task'[s] = task[s]
      BY <1>0, <3>1, GotoEffect
    <3>3. Store'
      <4>1. RowsOK' /\ BlobsIntact'
        BY <1>0, <3>1 DEF Store, RowsOK, BlobsIntact, HashesTo, Exists
      <4>2. NothingLost'
        BY <1>0, <1>1, <1>7, <2>1, <2>2, <3>1
           DEF ReuseBlob, Store, NothingLost, HashesTo, Exists
      <4>3. VisibleIsIntact'
        BY <1>0, <3>1 DEF Store, VisibleIsIntact, HashesTo
      <4> QED BY <4>1, <4>2, <4>3 DEF Store
    <3>4. PointOK(t)'
      BY <1>1, <1>7, <2>1, <2>2, <3>1, <3>2 DEF PointOK, Point, Exists, ReuseBlob
    <3>5. Touches(t, u)
      BY <3>1, <3>2 DEF Touches
    <3> QED BY <1>1, <1>7, <3>3, <3>4, <3>5, TurnKeeps DEF ReuseBlob
  <2>3. CASE ~Exists(blobFile[ShaOf(t)])
    BY <1>1, <1>7, <2>1, <2>3, ErrorKeeps DEF ReuseBlob
  <2> QED BY <2>2, <2>3
<1>8. CASE MoveToBlob(t)
  <2>1. row[u].state = "hash_verified" /\ HashesTo(staging[u], row[u].sha)
    BY <1>0, <1>1, <1>8 DEF MoveToBlob, PointOK
  <2>0. task[t].createBlob \/ row[u].sha \in blobs
    BY <1>0, <1>1, <1>8 DEF MoveToBlob, PointOK
  <2>2. CASE Exists(staging[u])
    <3>1. /\ Goto(t, "commit") /\ UNCHANGED <<row, blobs, refs>>
          /\ staging'[u] = None /\ \A w \in Uploads \ {u} : staging'[w] = staging[w]
          /\ blobFile'[ShaOf(t)] = staging[u]
          /\ \A h \in Shas \ {ShaOf(t)} : blobFile'[h] = blobFile[h]
      BY <1>0, <1>1, <1>8, <2>2 DEF MoveToBlob, TypeOK, database
    <3>2. /\ task'[t].pc = "commit" /\ task'[t].upload = u
          /\ task'[t].createBlob = task[t].createBlob
          /\ \A s \in Runners \ {t} : task'[s] = task[s]
      BY <1>0, <3>1, GotoEffect
    <3>3. HashesTo(blobFile'[ShaOf(t)], ShaOf(t)) /\ Exists(blobFile'[ShaOf(t)])
      BY <1>1, <1>8, <2>1, <2>2, <3>1 DEF MoveToBlob, Exists
    <3>4. \A h \in Shas : Exists(blobFile[h]) => Exists(blobFile'[h])
      BY <3>1, <3>3
    <3>5. Store'
      <4>1. RowsOK' /\ BlobsIntact'
        BY <1>0, <1>1, <1>8, <3>1, <3>3, <3>4
           DEF MoveToBlob, Store, RowsOK, BlobsIntact, HashesTo, Exists
      <4>2. NothingLost'
        BY <1>0, <1>1, <1>8, <2>1, <3>1, <3>3, <3>4
           DEF MoveToBlob, Store, RowsOK, NothingLost, HashesTo, Exists
      <4>3. VisibleIsIntact'
        <5>1. \A r \in refs : r.sha \in Shas
          BY <1>0 DEF TypeOK
        <5>2. \A r \in refs : HashesTo(blobFile'[r.sha], r.sha)
          BY <1>0, <3>1, <3>3, <5>1 DEF Store, VisibleIsIntact
        <5> QED BY <1>0, <3>1, <5>2 DEF Store, VisibleIsIntact, HashesTo
      <4> QED BY <4>1, <4>2, <4>3 DEF Store
    <3>6. PointOK(t)'
      BY <1>1, <1>8, <2>0, <2>1, <3>1, <3>2, <3>3
         DEF PointOK, Point, Exists, MoveToBlob
    <3>7. Touches(t, u)
      BY <3>1, <3>2, <3>4 DEF Touches
    <3> QED BY <1>1, <1>8, <3>5, <3>6, <3>7, TurnKeeps DEF MoveToBlob
  <2>3. CASE ~Exists(staging[u])
    BY <1>1, <1>8, <2>1, <2>3, ErrorKeeps DEF MoveToBlob
  <2> QED BY <2>2, <2>3
<1>9. CASE MarkCommitted(t)
  <2>1. /\ row[u].state = "hash_verified" /\ Exists(blobFile[row[u].sha])
        /\ task[t].createBlob \/ row[u].sha \in blobs
    BY <1>0, <1>1, <1>9 DEF MarkCommitted, PointOK
  <2>2. Homed(u, "committed")
    BY <2>1 DEF Homed
  <2> QED BY <1>1, <1>9, <2>1, <2>2, MarkKeeps DEF MarkCommitted, States
<1>10. CASE AdoptBlob(t)
  <2>1. PICK b \in BOOLEAN :
          /\ task'[t] = [task[t] EXCEPT !.createBlob = b, !.pc = "verify"]
          /\ \A s \in Runners \ {t} : task'[s] = task[s]
          /\ b <=> ShaOf(t) \notin blobs
    BY <1>0, <1>10 DEF AdoptBlob, TypeOK
  <2>2. task'[t].pc = "verify" /\ task'[t].upload = u /\ task'[t].createBlob = b
    BY <1>0, <2>1 DEF Locals
  <2>3. UNCHANGED <<row, blobs, refs, staging, blobFile>>
    BY <1>10 DEF AdoptBlob, database, files
  <2>4. PointOK(t)'
    <3>1. row[u].state = "committed"
      BY <1>0, <1>1, <1>10 DEF AdoptBlob, PointOK
    <3>2. ShaOf(t) = row[u].sha
      BY DEF ShaOf
    <3> QED BY <2>1, <2>2, <2>3, <3>1, <3>2 DEF PointOK, Point
  <2> QED BY <2>1, <2>3, <2>4, QuietKeeps
<1>11. CASE VerifyBlob(t)
  <2>1. row[u].state = "committed" /\ (task[t].createBlob \/ row[u].sha \in blobs)
    BY <1>0, <1>1, <1>11 DEF VerifyBlob, PointOK
  <2>2. CASE HashesTo(blobFile[ShaOf(t)], ShaOf(t))
    BY <1>1, <1>11, <2>1, <2>2, GotoKeeps DEF VerifyBlob, database, files, Steps
  <2>3. CASE ~HashesTo(blobFile[ShaOf(t)], ShaOf(t))
    BY <1>1, <1>11, <2>1, <2>3, ErrorKeeps DEF VerifyBlob
  <2> QED BY <2>2, <2>3
<1>12. CASE CreateReference(t)
  <2> DEFINE h == row[u].sha
             ref == [upload |-> u, sha |-> h]
  <2>1. /\ row[u].state = "committed" /\ (task[t].createBlob \/ h \in blobs)
        /\ h \in Shas /\ ShaOf(t) = h /\ u \in Uploads /\ OnTurn(t)
    BY <1>0, <1>1, <1>12 DEF CreateReference, PointOK
  <2>2. CASE Conflicts(t)
    BY <1>12, <2>2, ThrowKeeps DEF CreateReference, files
  <2>3. CASE ~Conflicts(t)
    <3>1. /\ blobs' = blobs \union {h} /\ refs' = refs \union {ref}
          /\ row' = [row EXCEPT ![u] = [row[u] EXCEPT !.state = "ready"]]
          /\ Capture(t, task[t].upload, "ready", chunks[task[t].upload], "idle")
          /\ UNCHANGED <<staging, blobFile>>
      BY <1>12, <2>1, <2>3 DEF CreateReference, files
    <3>2. /\ row'[u].state = "ready" /\ row'[u].sha = h
          /\ \A w \in Uploads \ {u} : row'[w] = row[w]
      BY <1>0, <2>1, <3>1 DEF TypeOK, Rows
    <3>3. chunks[u] \in SUBSET Chunk /\ "ready" \in States /\ "idle" \in Steps
      BY <1>0, <2>1 DEF TypeOK, States, Steps
    <3>4. /\ task'[t].pc = "mirror" /\ task'[t].next = "idle"
          /\ \A s \in Runners \ {t} : task'[s] = task[s]
      BY <1>0, <3>1, <3>3, CaptureEffect
    <3>5. PointOK(t)'
      BY <3>4 DEF PointOK, Point
    <3>6. Exists(blobFile[h]) /\ HashesTo(blobFile[h], h)
      BY <1>0, <2>1 DEF Store, NothingLost, BlobsIntact
    <3>7. RowsOK' /\ BlobsIntact' /\ NothingLost'
      <4>1. RowsOK'
        BY <1>0, <2>1, <3>2 DEF Store, RowsOK
      <4>2. BlobsIntact'
        BY <1>0, <3>1, <3>6 DEF Store, BlobsIntact, HashesTo, Exists
      <4>3. NothingLost'
        BY <1>0, <3>1, <3>2 DEF Store, NothingLost, HashesTo, Exists
      <4> QED BY <4>1, <4>2, <4>3
    <3>8. VisibleIsIntact'
      <4>1. {w \in Uploads : row'[w].state = "ready"}
              = {w \in Uploads : row[w].state = "ready"} \union {u}
        BY <2>1, <3>2
      <4>2. {r.upload : r \in refs'} = {r.upload : r \in refs} \union {u}
        BY <3>1, UploadsOf
      <4>3. \A r \in refs : r.upload \in Uploads \ {u}
        BY <1>0, <2>1 DEF TypeOK, Store, VisibleIsIntact
      <4>4. \A r \in refs' : r.sha = row'[r.upload].sha
        BY <1>0, <3>1, <3>2, <4>3 DEF Store, VisibleIsIntact
      <4>5. \A r \in refs' : r.sha \in blobs' /\ HashesTo(blobFile'[r.sha], r.sha)
        BY <1>0, <3>1, <3>6 DEF Store, VisibleIsIntact
      <4>6. {r.upload : r \in refs'} = {w \in Uploads : row'[w].state = "ready"}
        BY <1>0, <4>1, <4>2 DEF Store, VisibleIsIntact
      <4> QED BY <4>4, <4>5, <4>6 DEF VisibleIsIntact, HashesTo
    <3>9. Touches(t, u)
      BY <3>1, <3>2, <3>4 DEF Touches
    <3> QED BY <2>1, <3>5, <3>7, <3>8, <3>9, TurnKeeps DEF Store
  <2> QED BY <2>2, <2>3
<1> QED BY <1>2, <1>3, <1>4, <1>5, <1>6, <1>7, <1>8, <1>9, <1>10, <1>11, <1>12 DEF Committing

LEMMA CancellingKeeps ==
  ASSUME LibraryInv, NEW t \in Runners, Cancelling(t)
  PROVE  Kept'
<1> DEFINE u == task[t].upload
<1>0. Queueing /\ TypeOK /\ PointOK(t) /\ task[t] \in Locals /\ Store
  BY DEF Queueing, LibraryInv, TypeOK, Store
<1>1. CASE AnswerCancel(t)
  BY <1>1, FinishKeeps DEF AnswerCancel, Answer, database, files
<1>2. CASE BeginCancel(t)
  <2>1. OnTurn(t) /\ u \in Uploads /\ row[u].state = "transferring"
    BY <1>2, AtHeadHolds DEF BeginCancel, AtHead, OnTurn
  <2>2. Homed(u, "cancelled")
    BY DEF Homed
  <2> QED BY <1>2, <2>1, <2>2, MarkKeeps DEF BeginCancel, States
<1>3. CASE RemoveStaging(t)
  <2>1. Active(t) /\ OnTurn(t) /\ u \in Uploads /\ row[u].state = "cancelled"
    BY <1>0, <1>3, Holding DEF RemoveStaging, Active, OnTurn, Queueing, PointOK, Point
  <2>2. /\ UNCHANGED <<row, blobs, refs, blobFile>>
        /\ \A w \in Uploads \ {u} : staging'[w] = staging[w]
    BY <1>0, <1>3, <2>1 DEF RemoveStaging, TypeOK, database
  <2>3. PointOK(t)' /\ \A s \in Runners \ {t} : task'[s] = task[s]
    <3>1. CASE t = Recovery
      <4>1. /\ Capture(t, task[t].upload, row[u].state, chunks[u], "idle")
            /\ chunks[u] \in SUBSET Chunk /\ row[u].state \in States /\ "idle" \in Steps
        BY <1>0, <1>3, <2>1, <3>1 DEF RemoveStaging, TypeOK, Rows, States, Steps
      <4>2. /\ task'[t].pc = "mirror" /\ task'[t].next = "idle"
            /\ \A s \in Runners \ {t} : task'[s] = task[s]
        BY <1>0, <4>1, CaptureEffect
      <4> QED BY <4>2 DEF PointOK, Point
    <3>2. CASE t # Recovery
      <4>1. /\ task'[t] = IdleTask
            /\ \A s \in Runners \ {t} : task'[s] = task[s]
        BY <1>0, <1>3, <3>2 DEF RemoveStaging, Finish, TypeOK
      <4> QED BY <4>1 DEF PointOK, Active, IdleTask
    <3> QED BY <3>1, <3>2
  <2>4. Store'
    BY <1>0, <2>1, <2>2 DEF Store, RowsOK, BlobsIntact, VisibleIsIntact, NothingLost,
                            Exists, HashesTo
  <2>5. Touches(t, u)
    BY <2>2, <2>3 DEF Touches
  <2> QED BY <2>1, <2>3, <2>4, <2>5, TurnKeeps
<1> QED BY <1>1, <1>2, <1>3 DEF Cancelling

LEMMA LandKeeps ==
  ASSUME LibraryInv, NEW t \in Runners, LandManifest(t)
  PROVE  Kept'
<1>0. TypeOK /\ PointOK(t)
  BY DEF LibraryInv
<1>1. UNCHANGED <<row, blobs, refs, staging, blobFile>> /\ task[t].pc = "mirror"
  BY DEF LandManifest, database
<1>2. CASE task[t].next = "idle"
  BY <1>1, <1>2, FinishKeeps DEF LandManifest
<1>3. CASE task[t].next # "idle"
  <2>1. Goto(t, task[t].next)
    BY <1>3 DEF LandManifest
  <2>2. /\ task'[t] = [task[t] EXCEPT !.pc = task[t].next]
        /\ \A s \in Runners \ {t} : task'[s] = task[s]
    BY <1>0, <2>1 DEF Goto, TypeOK
  <2>3. /\ task'[t].pc = task[t].next /\ task'[t].upload = task[t].upload
        /\ task'[t].op = task[t].op /\ task'[t].createBlob = task[t].createBlob
    BY <1>0, <2>2 DEF TypeOK, Locals
  <2>4. Point(t) = task[t].next /\ Active(t)
    BY <1>1 DEF Point, Active
  <2>5. task[t].next \in {"bind", "hash", "find", "verify", "adopt", "remove"}
    BY <1>0, <1>1, <1>3, <2>4 DEF PointOK
  <2>6. Point(t)' = Point(t)
    BY <2>3, <2>4, <2>5 DEF Point
  <2>7. PointOK(t)'
    BY <1>0, <1>1, <2>3, <2>4, <2>5, <2>6 DEF PointOK, Creates, Exists, HashesTo
  <2> QED BY <1>1, <2>2, <2>7, QuietKeeps
<1> QED BY <1>2, <1>3

-----------------------------------------------------------------------------
(* The reconciliation *)

LEMMA ReconcileKeeps ==
  ASSUME LibraryInv, NEW u \in Uploads, Reconcile(u)
  PROVE  Kept'
<1>0. Queueing /\ TypeOK /\ Store /\ Recovery \in Runners /\ row[u] \in Rows
  BY DEF Queueing, LibraryInv, TypeOK, Store, Runners
<1>1. Visit(u) /\ row[u].state # "absent"
  BY DEF Reconcile, ReconcileSettled, ReconcileStaged, ReconcileVerified,
         ReconcileCommitted, ReconcileCancelled
<1>2. task[Recovery] = IdleTask /\ UNCHANGED <<blobs, refs, staging, blobFile>>
  BY <1>0, <1>1 DEF Visit, Queueing, ArgumentsOK, files
<1>3. \A s \in Runners \ {Recovery} : task[s].pc = "idle"
  BY <1>0, <1>1 DEF Visit, Queueing, LanesOK, Runners
<1>4. ASSUME \A s \in Runners \ {Recovery} : task'[s] = task[s],
             PointOK(Recovery)', Store'
      PROVE  Kept'
  <2>1. \A s \in Runners \ {Recovery} : ~Active(s)'
    BY <1>3, <1>4 DEF Active
  <2>2. \A s \in Runners \ {Recovery} : PointOK(s)'
    BY <2>1 DEF PointOK
  <2> QED BY <1>4, <2>2 DEF Kept
<1>5. ASSUME NEW pc \in {"hash", "rehash", "adopt", "remove"}, ResumeAt(u, pc),
             \/ pc = "hash" /\ row[u].state = "staged"
             \/ pc = "rehash" /\ row[u].state = "hash_verified" /\ Exists(staging[u])
             \/ pc = "adopt" /\ row[u].state = "committed"
             \/ pc = "remove" /\ row[u].state = "cancelled"
      PROVE  Kept'
  <2>1. /\ task'[Recovery].pc = pc /\ task'[Recovery].upload = u
        /\ \A s \in Runners \ {Recovery} : task'[s] = task[s]
        /\ row' = row
    BY <1>0, <1>2, <1>5 DEF ResumeAt, TypeOK, IdleTask
  <2>2. PointOK(Recovery)'
    BY <1>2, <1>5, <2>1 DEF PointOK, Point, Exists
  <2>3. Store'
    BY <1>0, <1>2, <2>1, StoreFrame
  <2> QED BY <1>4, <2>1, <2>2, <2>3
<1>6. ASSUME NEW state \in States, NEW next \in {"idle", "adopt"}, SettleAs(u, state, next),
             next = "adopt" => state = "committed", Store'
      PROVE  Kept'
  <2>1. /\ task'[Recovery].pc = "mirror" /\ task'[Recovery].upload = u
        /\ task'[Recovery].next = next
        /\ \A s \in Runners \ {Recovery} : task'[s] = task[s]
    BY <1>0, <1>2, <1>6 DEF SettleAs, TypeOK, IdleTask
  <2>2. row'[u].state = state
    <3>1. row' = [row EXCEPT ![u] = [row[u] EXCEPT !.state = state]]
      BY <1>6 DEF SettleAs
    <3> QED BY <1>0, <3>1 DEF TypeOK, Rows
  <2>3. PointOK(Recovery)'
    BY <1>6, <2>1, <2>2 DEF PointOK, Point
  <2> QED BY <1>4, <1>6, <2>1, <2>3
<1>7. ASSUME NEW state \in {"recoverable_error", "committed"}, NEW next \in {"idle", "adopt"},
             SettleAs(u, state, next), row[u].state # "ready", Homed(u, state)
      PROVE  Store'
  <2>1. row' = [row EXCEPT ![u].state = state]
    BY <1>7 DEF SettleAs
  <2> QED BY <1>0, <1>1, <1>2, <1>7, <2>1, StateStore DEF States
<1>8. CASE ReconcileSettled(u)
  <2>1. CASE row[u].state = "transferring" /\ ~Exists(staging[u])
    <3>1. SettleAs(u, "recoverable_error", "idle") /\ Homed(u, "recoverable_error")
      BY <1>8, <2>1 DEF ReconcileSettled, Homed
    <3>2. Store'
      BY <1>7, <2>1, <3>1
    <3> QED BY <1>6, <3>1, <3>2 DEF States
  <2>2. CASE ~(row[u].state = "transferring" /\ ~Exists(staging[u]))
    <3>1. SettleAs(u, row[u].state, "idle")
      BY <1>8, <2>2 DEF ReconcileSettled
    <3>2. row' = [row EXCEPT ![u] = [row[u] EXCEPT !.state = row[u].state]]
      BY <3>1 DEF SettleAs
    <3>3. [row[u] EXCEPT !.state = row[u].state] = row[u]
      BY <1>0 DEF Rows
    <3>4. row' = row
      BY <1>0, <3>2, <3>3 DEF TypeOK
    <3>5. Store'
      BY <1>0, <1>2, <3>4, StoreFrame
    <3>6. row[u].state \in States
      BY <1>0 DEF Rows
    <3> QED BY <1>6, <3>1, <3>5, <3>6
  <2> QED BY <2>1, <2>2
<1>9. CASE ReconcileVerified(u)
  <2>1. row[u].state = "hash_verified"
    BY <1>9 DEF ReconcileVerified
  <2>2. CASE Exists(staging[u])
    BY <1>5, <1>9, <2>1, <2>2 DEF ReconcileVerified
  <2>3. CASE ~Exists(staging[u]) /\ Exists(blobFile[row[u].sha])
    <3>1. SettleAs(u, "committed", "adopt") /\ Homed(u, "committed")
      BY <1>9, <2>3 DEF ReconcileVerified, Homed
    <3>2. Store'
      BY <1>7, <2>1, <3>1
    <3> QED BY <1>6, <3>1, <3>2 DEF States
  <2>4. CASE ~Exists(staging[u]) /\ ~Exists(blobFile[row[u].sha])
    BY <1>0, <2>1, <2>4 DEF Store, NothingLost
  <2> QED BY <2>2, <2>3, <2>4
<1>10. CASE ReconcileStaged(u) \/ ReconcileCommitted(u) \/ ReconcileCancelled(u)
  BY <1>5, <1>10 DEF ReconcileStaged, ReconcileCommitted, ReconcileCancelled
<1> QED BY <1>8, <1>9, <1>10 DEF Reconcile

-----------------------------------------------------------------------------
(* The invariant *)

LEMMA InitOK ==
  Init => LibraryInv
<1> SUFFICES ASSUME Init PROVE LibraryInv
  OBVIOUS
<1>1. TypeOK
  <2>1. NoRow \in Rows
    BY ConstantsOK DEF NoRow, Rows, States
  <2>2. <<>> \in Seq(Tasks) /\ 0 \in 0 .. MaxFaults
    BY ConstantsOK
  <2> QED BY <2>1, <2>2, IdleTyped DEF Init, TypeOK
<1>2. LanesOK /\ ArgumentsOK /\ CreationsOK
  BY DEF Init, LanesOK, ArgumentsOK, CreationsOK, IdleTask, Creates, Active, Runners
<1>3. \A t \in Runners : PointOK(t)
  BY DEF Init, PointOK, Active, IdleTask
<1>4. RowsOK /\ BlobsIntact /\ NothingLost
  BY DEF Init, RowsOK, BlobsIntact, NothingLost, NoRow, Exists
<1>5. VisibleIsIntact
  BY DEF Init, VisibleIsIntact, NoRow
<1> QED BY <1>1, <1>2, <1>3, <1>4, <1>5 DEF LibraryInv

LEMMA KeptStep ==
  ASSUME LibraryInv, Next
  PROVE  Kept'
<1>1. ASSUME NEW t \in Runners, TaskStep(t) PROVE Kept'
  BY <1>1, TypeStep, CreatingKeeps, AppendingKeeps, CommittingKeeps, CancellingKeeps,
     LandKeeps DEF TaskStep
<1>2. ASSUME NEW t \in Runners, Fail(t) PROVE Kept'
  BY <1>2, ThrowKeeps DEF Fail, database, files
<1>3. CASE Stop
  BY <1>3, HaltKeeps DEF Stop, database, files
<1>4. CASE Start \/ Serve
  <2>1. /\ UNCHANGED <<row, blobs, refs, staging, blobFile>>
        /\ task' = task /\ Recovery \in Runners
    BY <1>4 DEF Start, Serve, database, files, Runners
  <2>2. PointOK(Recovery)'
    BY <2>1 DEF LibraryInv, PointOK, Point, Active, Creates, Exists, HashesTo
  <2> QED BY <2>1, <2>2, QuietKeeps
<1> QED BY <1>1, <1>2, <1>3, <1>4, RequestsKeep, ReconcileKeeps DEF Next, Recovering

LEMMA StutterOK ==
  LibraryInv /\ UNCHANGED vars => LibraryInv'
<1> SUFFICES ASSUME LibraryInv, UNCHANGED vars PROVE LibraryInv'
  OBVIOUS
<1>1. TypeOK'
  BY DEF LibraryInv, TypeOK, vars, database, files
<1>2. LanesOK' /\ ArgumentsOK' /\ CreationsOK'
  BY DEF LibraryInv, vars, database, LanesOK, ArgumentsOK, CreationsOK, Creates, Active, Lane
<1>3. \A t \in Runners : PointOK(t)'
  BY DEF LibraryInv, vars, database, files, PointOK, Point, Active, Creates, Exists, HashesTo
<1>4. Store'
  <2>1. UNCHANGED <<row, blobs, refs, staging, blobFile>> /\ Store
    BY DEF LibraryInv, vars, database, files, Store
  <2> QED BY <2>1, StoreFrame
<1> QED BY <1>1, <1>2, <1>3, <1>4 DEF LibraryInv, Store

\* The inductive invariant of the library: queues, points, rows and files agree at
\* every step, whatever is stopped, refused, failed or interleaved.
THEOREM LibraryInvariant == Spec => []LibraryInv
<1>1. LibraryInv /\ [Next]_vars => LibraryInv'
  <2> SUFFICES ASSUME LibraryInv, [Next]_vars PROVE LibraryInv'
    OBVIOUS
  <2>1. CASE Next
    <3>1. TypeOK' /\ Queueing' /\ Kept'
      BY <2>1, TypeStep, QueueingStep, KeptStep
    <3> QED BY <3>1 DEF LibraryInv, Queueing, Kept, Store
  <2>2. CASE UNCHANGED vars
    BY <2>2, StutterOK
  <2> QED BY <2>1, <2>2
<1> QED BY <1>1, InitOK, PTL DEF Spec

\* Rows, chunks, files, manifests, queues and the state of every request have their
\* types.
THEOREM TypeCorrect == Spec => []TypeOK
BY LibraryInvariant, PTL DEF LibraryInv

\* A material reference always has its blob row and a blob file that holds exactly
\* the bytes of its SHA-256, and exactly the ready uploads have one.
THEOREM VisibleMaterialIsIntact == Spec => []VisibleIsIntact
BY LibraryInvariant, PTL DEF LibraryInv

\* No file stands at a blob path but the whole verified file of that name, and no
\* blob row names a missing file.
THEOREM BlobFilesAreIntact == Spec => []BlobsIntact
BY LibraryInvariant, PTL DEF LibraryInv

\* The bytes of an upload on its way are in staging, or in the blob it names.
THEOREM NoMaterialIsLost == Spec => []NothingLost
BY LibraryInvariant, PTL DEF LibraryInv

\* Creations, requests and the reconciliation never work on the same upload at once.
THEOREM OneTaskPerUpload == Spec => []MutualExclusion
<1>1. LibraryInv => MutualExclusion
  BY Exclusion DEF LibraryInv, Queueing
<1> QED BY <1>1, LibraryInvariant, PTL

-----------------------------------------------------------------------------
(* Chunks, staging files and manifests *)

\* The offsets that stored chunks take up.
Covered(C) == UNION {RangeOf(c) : c \in C}

\* The chunk rows of an upload lie in its file, its row counts them, and staging holds them.
ChunksOK(u) ==
  /\ row[u].state = "absent" => chunks[u] = {}
  /\ IsFiniteSet(chunks[u])
  /\ \A c \in chunks[u] : c.offset + c.size <= row[u].size
  /\ row[u].received = Cardinality(Covered(chunks[u]))
  /\ row[u].ackEpoch = Cardinality(chunks[u])
  /\ Exists(staging[u]) => \A c \in chunks[u] : \A o \in RangeOf(c) : staging[u][o] = c.checksum

\* A chunk being written is still new, and what is written of it is in staging.
WritesOK(t) ==
  LET u == task[t].upload
      p == task[t].arg IN
  /\ task[t].pc = "queued" => task[t].written = 0
  /\ task[t].pc \in {"write", "persist"} =>
       /\ NewChunk(u, p)
       /\ IF task[t].pc = "write" THEN task[t].written < p.size ELSE task[t].written = p.size
       /\ \A o \in p.offset .. p.offset + task[t].written - 1 : staging[u][o] = p.checksum

\* Manifests, on the disk or about to land, are not ahead of SQLite.
Behind(image, u) ==
  image.chunks \subseteq chunks[u] /\ image.state \in Past(row[u].state)

MirrorOK(t) ==
  task[t].pc = "mirror" => Behind(task[t].image, task[t].upload)

BytesInv ==
  /\ \A u \in Uploads : ChunksOK(u)
  /\ \A t \in Runners : WritesOK(t) /\ MirrorOK(t)
  /\ ManifestNeverAhead

-----------------------------------------------------------------------------
(* Frames *)

\* A state is followed by one that includes its past.
Onward(from, to) == Past(from) \subseteq Past(to) /\ to \in Past(to)

LEMMA StatesOnward ==
  /\ \A s \in States \ {"absent"} : Onward(s, s)
  /\ Onward("transferring", "staged") /\ Onward("staged", "hash_verified")
  /\ Onward("hash_verified", "committed") /\ Onward("committed", "ready")
  /\ Onward("transferring", "cancelled")
  /\ \A s \in {"transferring", "staged", "hash_verified", "committed"} :
       Onward(s, "recoverable_error")
  /\ Past("absent") = {}
BY DEF Onward, Past, States

\* A step that leaves rows, chunks, staging files and manifests alone.
LEMMA QuietBytes ==
  ASSUME TypeOK, BytesInv, UNCHANGED <<row, chunks, staging, manifest>>, NEW t \in Runners,
         \A s \in Runners \ {t} : task'[s] = task[s], WritesOK(t)', MirrorOK(t)'
  PROVE  BytesInv'
<1>1. \A u \in Uploads : ChunksOK(u)'
  BY DEF BytesInv, ChunksOK, Exists, RangeOf
<1>2. \A s \in Runners \ {t} : WritesOK(s)' /\ MirrorOK(s)'
  BY DEF BytesInv, WritesOK, MirrorOK, Behind, NewChunk, Fits, RangeOf
<1>3. ManifestNeverAhead'
  BY DEF BytesInv, ManifestNeverAhead, Exists
<1> QED BY <1>1, <1>2, <1>3 DEF BytesInv

LEMMA HaltBytes ==
  ASSUME TypeOK, BytesInv, UNCHANGED <<row, chunks, staging, manifest>>, Halt
  PROVE  BytesInv'
<1>1. \A u \in Uploads : ChunksOK(u)'
  BY DEF BytesInv, ChunksOK, Exists, RangeOf
<1>2. \A s \in Runners : WritesOK(s)' /\ MirrorOK(s)'
  BY DEF Halt, IdleTask, WritesOK, MirrorOK
<1>3. ManifestNeverAhead'
  BY DEF BytesInv, ManifestNeverAhead, Exists
<1> QED BY <1>1, <1>2, <1>3 DEF BytesInv

LEMMA FinishBytes ==
  ASSUME TypeOK, BytesInv, UNCHANGED <<row, chunks, staging, manifest>>,
         NEW t \in Runners, Finish(t)
  PROVE  BytesInv'
<1>1. task'[t] = IdleTask /\ \A s \in Runners \ {t} : task'[s] = task[s]
  BY DEF Finish, TypeOK
<1>2. WritesOK(t)' /\ MirrorOK(t)'
  BY <1>1 DEF IdleTask, WritesOK, MirrorOK
<1> QED BY <1>1, <1>2, QuietBytes

\* Task t works on upload u and on nothing else; the manifests stay.
Works(t, u) ==
  /\ \A s \in Runners \ {t} : task'[s] = task[s]
  /\ \A w \in Uploads \ {u} : row'[w] = row[w] /\ chunks'[w] = chunks[w]
                                  /\ staging'[w] = staging[w]
  /\ manifest' = manifest

\* Nobody else works on upload u.
Apart(t, u) == \A s \in Runners \ {t} : Active(s) => task[s].upload # u

LEMMA TurnApart ==
  ASSUME LibraryInv, NEW t \in Runners, OnTurn(t), task[t].upload \in Uploads
  PROVE  Apart(t, task[t].upload)
BY Alone, ConstantsOK DEF LibraryInv, Queueing, Apart

LEMMA TurnBytes ==
  ASSUME LibraryInv, BytesInv, NEW t \in Runners, NEW u \in Uploads, Apart(t, u),
         Works(t, u), ChunksOK(u)', WritesOK(t)', MirrorOK(t)',
         chunks[u] \subseteq chunks'[u],
         Past(row[u].state) \subseteq Past(row'[u].state)
  PROVE  BytesInv'
<1>1. \A w \in Uploads \ {u} : ChunksOK(w)'
  BY DEF BytesInv, ChunksOK, Works, Exists
<1>2. ASSUME NEW s \in Runners \ {t} PROVE WritesOK(s)' /\ MirrorOK(s)'
  <2>1. task'[s] = task[s] /\ WritesOK(s) /\ MirrorOK(s)
    BY DEF BytesInv, Works
  <2>2. CASE task[s].pc \in {"write", "persist", "mirror"}
    <3>1. Active(s) /\ ~(Creates(s) /\ task[s].pc \in {"queued", "admit"}) /\ task[s].pc # "idle"
      BY <2>2 DEF Active
    <3>2. task[s].upload \in Uploads
      BY <3>1, Holding DEF LibraryInv
    <3>3. task[s].upload # u
      BY <3>1 DEF Apart
    <3> QED BY <2>1, <3>2, <3>3 DEF Works, WritesOK, MirrorOK, Behind, NewChunk, Fits, RangeOf
  <2> QED BY <2>1, <2>2 DEF WritesOK, MirrorOK
<1>3. ManifestNeverAhead'
  <2>1. \A w \in Uploads : /\ chunks[w] \subseteq chunks'[w]
                          /\ Past(row[w].state) \subseteq Past(row'[w].state)
    BY DEF Works
  <2>2. manifest' = manifest
    BY DEF Works
  <2> SUFFICES ASSUME NEW w \in Uploads, Exists(manifest[w])
              PROVE  Behind(manifest[w], w)'
    BY <2>2 DEF ManifestNeverAhead, Behind, Exists
  <2>3. Behind(manifest[w], w)
    BY DEF BytesInv, ManifestNeverAhead, Behind
  <2>4. manifest[w].chunks \subseteq chunks'[w] /\ manifest[w].state \in Past(row'[w].state)
    BY <2>1, <2>3 DEF Behind
  <2> QED BY <2>2, <2>4 DEF Behind
<1> QED BY <1>1, <1>2, <1>3 DEF BytesInv

\* Task t, on its turn, only changes the state of its upload, and maybe drops its staging
\* file.
LEMMA StateBytes ==
  ASSUME LibraryInv, BytesInv, NEW t \in Runners, NEW u \in Uploads, Apart(t, u),
         NEW state, row' = [row EXCEPT ![u].state = state],
         row[u].state # "absent", state # "absent",
         Onward(row[u].state, state),
         UNCHANGED <<chunks, manifest>>,
         \/ UNCHANGED staging
         \/ staging' = [staging EXCEPT ![u] = None],
         \A s \in Runners \ {t} : task'[s] = task[s], WritesOK(t)', MirrorOK(t)'
  PROVE  BytesInv'
<1>1. row' = [row EXCEPT ![u] = [row[u] EXCEPT !.state = state]] /\ row[u] \in Rows
  BY DEF LibraryInv, TypeOK
<1>2. /\ row'[u].state = state /\ row'[u].size = row[u].size
      /\ row'[u].received = row[u].received /\ row'[u].ackEpoch = row[u].ackEpoch
      /\ \A w \in Uploads \ {u} : row'[w] = row[w]
  BY <1>1 DEF LibraryInv, TypeOK, Rows
<1>3. /\ \A w \in Uploads \ {u} : staging'[w] = staging[w]
      /\ staging'[u] \in {staging[u], None}
  BY DEF LibraryInv, TypeOK
<1>4. Works(t, u)
  BY <1>2, <1>3 DEF Works
<1>5. ChunksOK(u)'
  <2>1. ChunksOK(u) /\ chunks'[u] = chunks[u]
    BY DEF BytesInv
  <2> QED BY <1>2, <1>3, <2>1 DEF ChunksOK, Exists
<1> QED BY <1>2, <1>4, <1>5, TurnBytes DEF Onward

LEMMA ImageEffect ==
  ASSUME TypeOK, NEW t \in Runners, NEW u \in Uploads, NEW state, NEW persisted, NEW next,
         Capture(t, u, state, persisted, next)
  PROVE  /\ task'[t].pc = "mirror" /\ task'[t].upload = u
         /\ task'[t].image.state = state /\ task'[t].image.chunks = persisted
         /\ \A s \in Runners \ {t} : task'[s] = task[s]
<1>1. task'[t] = [task[t] EXCEPT !.pc = "mirror", !.next = next, !.upload = u,
                     !.image = [state |-> state, chunks |-> persisted]]
      /\ \A s \in Runners \ {t} : task'[s] = task[s]
  BY DEF Capture, TypeOK
<1>2. task[t] \in Locals
  BY DEF TypeOK
<1> QED BY <1>1, <1>2 DEF Locals

LEMMA MarkBytes ==
  ASSUME LibraryInv, BytesInv, NEW t \in Runners, NEW u \in Uploads, Apart(t, u),
         NEW state \in States \ {"absent"}, NEW next \in Steps, Mark(t, u, state, next),
         row[u].state # "absent", Onward(row[u].state, state)
  PROVE  BytesInv'
<1>1. /\ Capture(t, u, state, chunks[u], next) /\ chunks[u] \in SUBSET Chunk
      /\ row' = [row EXCEPT ![u].state = state] /\ UNCHANGED <<chunks, staging, manifest>>
  BY DEF Mark, files, LibraryInv, TypeOK
<1>2. /\ task'[t].pc = "mirror" /\ task'[t].upload = u
      /\ task'[t].image.state = state
      /\ task'[t].image.chunks = chunks[u]
      /\ \A s \in Runners \ {t} : task'[s] = task[s]
  BY <1>1, ImageEffect DEF LibraryInv
<1>3. row'[u].state = state
  BY <1>1 DEF LibraryInv, TypeOK, Rows
<1>4. WritesOK(t)' /\ MirrorOK(t)'
  BY <1>1, <1>2, <1>3 DEF WritesOK, MirrorOK, Behind, Onward
<1> QED BY <1>1, <1>2, <1>4, StateBytes

LEMMA ThrowBytes ==
  ASSUME LibraryInv, BytesInv, UNCHANGED <<row, chunks, staging, manifest>>,
         NEW t \in Runners, Throw(t)
  PROVE  BytesInv'
BY FinishBytes, HaltBytes DEF Throw, LibraryInv

LEMMA ErrorBytes ==
  ASSUME LibraryInv, BytesInv, NEW t \in Runners, OnTurn(t), task[t].upload \in Uploads,
         MarkRecoverableError(t),
         row[task[t].upload].state \in {"transferring", "staged", "hash_verified", "committed"}
  PROVE  BytesInv'
BY TurnApart, MarkBytes, StatesOnward DEF MarkRecoverableError, States, Steps

-----------------------------------------------------------------------------
(* Requests, creations and chunks *)

LEMMA CoveredFinite ==
  ASSUME TypeOK, NEW u \in Uploads, ChunksOK(u)
  PROVE  Covered(chunks[u]) \subseteq Offsets /\ IsFiniteSet(Covered(chunks[u]))
<1>1. row[u].size \in 0 .. MaxBytes /\ chunks[u] \subseteq Chunk
  BY DEF TypeOK, Rows
<1>2. MaxBytes \in Nat
  BY ConstantsOK
<1>3. ASSUME NEW c \in chunks[u] PROVE RangeOf(c) \subseteq Offsets
  <2>1. c.offset \in Nat /\ c.size \in 1 .. MaxBytes /\ c.offset + c.size <= row[u].size
    BY <1>1 DEF ChunksOK, Chunk
  <2>2. PICK from \in Nat, size \in Nat, all \in Nat :
          from = c.offset /\ size = c.size /\ all = row[u].size
    BY <1>1, <1>2, <2>1
  <2>3. from + size <= all /\ all <= MaxBytes
    BY <1>1, <2>1, <2>2
  <2> QED BY <1>2, <2>2, <2>3 DEF RangeOf, Offsets
<1>4. Covered(chunks[u]) \subseteq Offsets
  BY <1>3 DEF Covered
<1>5. IsFiniteSet(Offsets)
  <2>1. 0 \in Int /\ MaxBytes - 1 \in Int
    BY <1>2
  <2> QED BY <2>1, FS_Interval DEF Offsets
<1>6. IsFiniteSet(Covered(chunks[u]))
  BY <1>4, <1>5, FS_Subset
<1> QED BY <1>4, <1>6

\* A packet that fits lies within the offsets of a file.
LEMMA PacketFits ==
  ASSUME TypeOK, NEW u \in Uploads, NEW p, p.offset \in Nat, p.size \in 1 .. MaxBytes,
         p.offset + p.size <= row[u].size
  PROVE  /\ RangeOf(p) \subseteq Offsets
         /\ IsFiniteSet(RangeOf(p)) /\ Cardinality(RangeOf(p)) = p.size
<1>1. MaxBytes \in Nat /\ row[u].size \in 0 .. MaxBytes
  BY ConstantsOK DEF TypeOK, Rows
<1>2. PICK from \in Nat, size \in Nat, all \in Nat :
        from = p.offset /\ size = p.size /\ all = row[u].size /\ size >= 1
  BY <1>1
<1>3. from + size <= all /\ all <= MaxBytes
  BY <1>1, <1>2
<1>4. RangeOf(p) = from .. from + size - 1
  BY <1>2 DEF RangeOf
<1>5. RangeOf(p) \subseteq Offsets
  <2> SUFFICES ASSUME NEW o \in from .. from + size - 1 PROVE o \in 0 .. MaxBytes - 1
    BY <1>4 DEF Offsets
  <2> QED BY <1>1, <1>2, <1>3
<1>6. from \in Int /\ from + size - 1 \in Int /\ ~(from > from + size - 1)
  BY <1>2
<1>7. /\ IsFiniteSet(from .. from + size - 1)
      /\ Cardinality(from .. from + size - 1) = (from + size - 1) - from + 1
  BY <1>6, FS_Interval
<1> QED BY <1>2, <1>4, <1>5, <1>7

LEMMA RequestsBytes ==
  ASSUME LibraryInv, BytesInv, Requests
  PROVE  BytesInv'
<1>1. PICK t \in Tasks, op \in Operations, u \in Uploads \union {None},
             arg \in Declared \union Packets \union {None} : Enqueue(t, op, u, arg)
  BY DEF Operations, Requests, RequestCreate, RequestAppend, RequestComplete, RequestCancel
<1>2. t \in Runners /\ UNCHANGED <<row, chunks, staging, manifest>>
  BY <1>1 DEF Enqueue, database, files, Runners
<1>3. /\ task'[t].pc = "queued" /\ task'[t].written = 0
      /\ \A s \in Runners \ {t} : task'[s] = task[s]
  BY <1>1, <1>2 DEF Enqueue, LibraryInv, TypeOK, IdleTask
<1>4. WritesOK(t)' /\ MirrorOK(t)'
  BY <1>3 DEF WritesOK, MirrorOK
<1> QED BY <1>2, <1>3, <1>4, QuietBytes DEF LibraryInv

LEMMA CreatingBytes ==
  ASSUME LibraryInv, BytesInv, NEW t \in Runners, Creating(t)
  PROVE  BytesInv'
<1>0. Queueing /\ TypeOK /\ PointOK(t) /\ task[t] \in Locals
  BY DEF Queueing, LibraryInv, TypeOK
<1>1. CASE BeginCreate(t)
  <2>1. /\ task'[t] = [task[t] EXCEPT !.pc = "admit", !.reserved = ReservedBytes]
        /\ \A s \in Runners \ {t} : task'[s] = task[s]
        /\ UNCHANGED <<row, chunks, staging, manifest>>
    BY <1>0, <1>1 DEF BeginCreate, TypeOK, database, files
  <2>2. task'[t].pc = "admit"
    BY <1>0, <2>1 DEF Locals
  <2>3. WritesOK(t)' /\ MirrorOK(t)'
    BY <2>2 DEF WritesOK, MirrorOK
  <2> QED BY <1>0, <2>1, <2>3, QuietBytes
<1>2. CASE RefuseCreation(t)
  BY <1>0, <1>2, FinishBytes DEF RefuseCreation, Answer, database, files
<1>3. ASSUME NEW u \in Uploads, AdmitCreation(t, u) PROVE BytesInv'
  <2>1. /\ task'[t] = [task[t] EXCEPT !.pc = "insert", !.upload = u]
        /\ \A s \in Runners \ {t} : task'[s] = task[s]
        /\ row[u].state = "absent" /\ \A s \in Tasks : task[s].upload # u
        /\ staging' = [staging EXCEPT ![u] = EmptyFile]
        /\ UNCHANGED <<row, chunks, manifest>>
    BY <1>0, <1>3 DEF AdmitCreation, TypeOK, database, Unused
  <2>2. task'[t].pc = "insert"
    BY <1>0, <2>1 DEF Locals
  <2>3. t \in Tasks /\ mode = "serving"
    BY <1>0, <1>3 DEF AdmitCreation, PointOK, Point, Active, Queueing, LanesOK, ArgumentsOK,
                      Creates, Runners
  <2>4. Apart(t, u)
    BY <1>0, <2>1, <2>3 DEF Apart, Active, Queueing, LanesOK, Runners
  <2>5. Works(t, u)
    BY <1>0, <2>1 DEF Works, TypeOK
  <2>6. ChunksOK(u)'
    <3>1. ChunksOK(u) /\ chunks[u] = {}
      BY <2>1 DEF BytesInv, ChunksOK
    <3> QED BY <2>1, <3>1 DEF ChunksOK
  <2>7. WritesOK(t)' /\ MirrorOK(t)'
    BY <2>2 DEF WritesOK, MirrorOK
  <2> QED BY <2>1, <2>4, <2>5, <2>6, <2>7, TurnBytes
<1>4. CASE InsertRow(t)
  <2>0. PICK u \in Uploads : u = task[t].upload
    BY <1>0, <1>4, Holding DEF InsertRow, Queueing
  <2> DEFINE next == IF task[t].op = "createProject" THEN "bind" ELSE "idle"
             new == [state |-> "transferring", sha |-> task[t].arg.sha,
                     size |-> task[t].arg.size, received |-> 0, ackEpoch |-> 0]
  <2>1. Apart(t, u)
    BY <1>4, <2>0, TurnApart DEF InsertRow, Active, OnTurn
  <2>2. row[u].state = "absent" /\ chunks[u] = {}
    BY <1>0, <1>4, <2>0 DEF InsertRow, PointOK, Point, Active, BytesInv, ChunksOK
  <2>3. /\ row'[u] = new /\ \A w \in Uploads \ {u} : row'[w] = row[w]
        /\ UNCHANGED <<chunks, staging, manifest>>
    BY <1>0, <1>4, <2>0 DEF InsertRow, TypeOK, files
  <2>4. Capture(t, u, "transferring", chunks[u], next)
    BY <1>4, <2>0 DEF InsertRow
  <2>5. /\ task'[t].pc = "mirror" /\ task'[t].upload = u
        /\ task'[t].image.state = "transferring" /\ task'[t].image.chunks = {}
        /\ \A s \in Runners \ {t} : task'[s] = task[s]
    BY <1>0, <2>2, <2>4, ImageEffect
  <2>6. ChunksOK(u)'
    <3>1. Covered({}) = {} /\ Cardinality({}) = 0 /\ IsFiniteSet({})
      BY FS_EmptySet DEF Covered
    <3> QED BY <2>2, <2>3, <3>1 DEF ChunksOK
  <2>7. WritesOK(t)' /\ MirrorOK(t)'
    BY <2>3, <2>5, StatesOnward DEF WritesOK, MirrorOK, Behind, Onward, States
  <2>8. Works(t, u)
    BY <2>3, <2>5 DEF Works
  <2> QED BY <2>1, <2>2, <2>3, <2>6, <2>7, <2>8, TurnBytes, StatesOnward
<1>5. CASE BindUpload(t)
  BY <1>0, <1>5, FinishBytes DEF BindUpload, files
<1> QED BY <1>1, <1>2, <1>3, <1>4, <1>5 DEF Creating

\* The chunk that a task works on.
LEMMA ChunkInHand ==
  ASSUME LibraryInv, NEW t \in Runners, task[t].op = "append", task[t].pc # "idle"
  PROVE  /\ task[t].arg \in Packets /\ task[t].upload \in Uploads
         /\ task[t].arg.offset \in Nat /\ task[t].arg.size \in 1 .. MaxBytes
         /\ RangeOf(task[t].arg)
              = task[t].arg.offset .. task[t].arg.offset + task[t].arg.size - 1
<1>1. task[t].arg \in Packets
  BY DEF LibraryInv, ArgumentsOK
<1>2. task[t].upload \in Uploads
  BY Holding DEF LibraryInv, Creates
<1> QED BY <1>1, <1>2, ConstantsOK DEF RangeOf

LEMMA AppendingBytes ==
  ASSUME LibraryInv, BytesInv, NEW t \in Runners, Appending(t)
  PROVE  BytesInv'
<1> DEFINE p == task[t].arg
<1>0. Queueing /\ TypeOK /\ PointOK(t) /\ task[t] \in Locals
  BY DEF Queueing, LibraryInv, TypeOK
<1>1. CASE AnswerAppend(t)
  BY <1>0, <1>1, FinishBytes DEF AnswerAppend, Answer, database, files
<1>2. CASE BeginAppend(t)
  <2>1. Goto(t, "write") /\ UNCHANGED <<row, chunks, staging, manifest>>
    BY <1>2 DEF BeginAppend, database, files
  <2>2. /\ task'[t] = [task[t] EXCEPT !.pc = "write"]
        /\ \A s \in Runners \ {t} : task'[s] = task[s]
    BY <1>0, <2>1 DEF Goto, TypeOK
  <2>3. /\ task'[t].pc = "write" /\ task'[t].upload = task[t].upload /\ task'[t].arg = task[t].arg
        /\ task'[t].written = 0
    BY <1>0, <1>2, <2>2 DEF Locals, BytesInv, WritesOK, BeginAppend, AtHead
  <2>4. NewChunk(task[t].upload, p) /\ p.size \in 1 .. MaxBytes /\ p.offset \in Nat
    BY <1>2, ChunkInHand DEF BeginAppend, AtHead
  <2>5. WritesOK(t)' /\ MirrorOK(t)'
    BY <2>1, <2>3, <2>4 DEF WritesOK, MirrorOK, NewChunk, Fits, RangeOf
  <2> QED BY <1>0, <2>1, <2>2, <2>5, QuietBytes
<1>3. ASSUME task[t].pc \in {"write", "persist"}
      PROVE  /\ Active(t) /\ task[t].op = "append" /\ row[task[t].upload].state = "transferring"
             /\ p \in Packets /\ task[t].upload \in Uploads
             /\ p.offset \in Nat /\ p.size \in 1 .. MaxBytes
             /\ Apart(t, task[t].upload) /\ NewChunk(task[t].upload, p)
             /\ row[task[t].upload].size \in 0 .. MaxBytes
             /\ Exists(staging[task[t].upload]) /\ staging[task[t].upload] \in Contents
  <2>1. Active(t) /\ task[t].op = "append" /\ row[task[t].upload].state = "transferring"
    BY <1>0, <1>3 DEF PointOK, Point, Active
  <2>2. /\ p \in Packets /\ task[t].upload \in Uploads
        /\ p.offset \in Nat /\ p.size \in 1 .. MaxBytes
    BY <1>3, <2>1, ChunkInHand
  <2>3. Apart(t, task[t].upload)
    BY <2>1, <2>2, TurnApart DEF OnTurn
  <2>4. NewChunk(task[t].upload, p)
    BY <1>3 DEF BytesInv, WritesOK
  <2>5. Exists(staging[task[t].upload])
    BY <2>1, <2>2 DEF LibraryInv, NothingLost
  <2>6. staging[task[t].upload] \in Contents /\ row[task[t].upload].size \in 0 .. MaxBytes
    BY <1>0, <2>2, <2>5 DEF TypeOK, Rows, Exists
  <2> QED BY <2>1, <2>2, <2>3, <2>4, <2>5, <2>6
<1>4. CASE WriteByte(t)
  <2>0. PICK u \in Uploads : u = task[t].upload
    BY <1>3, <1>4 DEF WriteByte
  <2> DEFINE at == p.offset + task[t].written
  <2>1. /\ task[t].written \in Nat /\ task[t].written < p.size
        /\ \A o \in p.offset .. at - 1 : staging[u][o] = p.checksum
        /\ NewChunk(u, p) /\ p.offset \in Nat /\ p.size \in 1 .. MaxBytes
    BY <1>0, <1>3, <1>4, <2>0 DEF WriteByte, BytesInv, WritesOK, Locals
  <2>2. at \in Nat /\ at \in RangeOf(p) /\ at \in Offsets
    <3>1. p.offset + p.size <= row[u].size
      BY <2>1 DEF NewChunk, Fits
    <3>2. RangeOf(p) \subseteq Offsets
      BY <1>0, <2>1, <3>1, PacketFits
    <3> HIDE DEF p
    <3>3. at \in Nat /\ at \in RangeOf(p)
      BY <2>1 DEF RangeOf
    <3> QED BY <3>2, <3>3
  <2>3. PICK pc \in {"write", "persist"} :
          /\ task'[t] = [task[t] EXCEPT !.written = task[t].written + 1, !.pc = pc]
          /\ pc = IF task[t].written + 1 = p.size THEN "persist" ELSE "write"
          /\ \A s \in Runners \ {t} : task'[s] = task[s]
    BY <1>0, <1>4 DEF WriteByte, TypeOK
  <2>4. /\ task'[t].pc = pc /\ task'[t].upload = u /\ task'[t].arg = p
        /\ task'[t].written = task[t].written + 1
    BY <1>0, <2>0, <2>3 DEF Locals
  <2>5. /\ UNCHANGED <<row, chunks, manifest>>
        /\ \A w \in Uploads \ {u} : staging'[w] = staging[w]
    BY <1>0, <1>4, <2>0 DEF WriteByte, TypeOK, database
  <2>6. staging'[u] = [staging[u] EXCEPT ![at] = p.data]
    BY <1>0, <1>4, <2>0 DEF WriteByte, TypeOK
  <2>7. /\ staging'[u][at] = p.data
        /\ \A o \in Offsets \ {at} : staging'[u][o] = staging[u][o]
    BY <1>3, <1>4, <2>0, <2>2, <2>6 DEF WriteByte, Contents
  <2>8. ChunksOK(u)'
    <3>1. ASSUME NEW c \in chunks[u], NEW o \in RangeOf(c) PROVE staging'[u][o] = c.checksum
      <4>0. ChunksOK(u) /\ Exists(staging[u])
        BY <1>3, <1>4, <2>0 DEF BytesInv, WriteByte
      <4>1. o \in Offsets /\ staging[u][o] = c.checksum
        <5>1. o \in Covered(chunks[u])
          BY DEF Covered
        <5>2. Covered(chunks[u]) \subseteq Offsets
          BY <1>0, <4>0, CoveredFinite
        <5> QED BY <4>0, <5>1, <5>2 DEF ChunksOK
      <4>2. o # at
        BY <2>1, <2>2, <3>1 DEF NewChunk, Fits
      <4> QED BY <2>7, <4>1, <4>2
    <3>2. ChunksOK(u)
      BY DEF BytesInv
    <3> QED BY <2>5, <3>1, <3>2 DEF ChunksOK
  <2>9. WritesOK(t)' /\ MirrorOK(t)'
    <3>1. NewChunk(task[t].upload, task[t].arg)'
      BY <2>1, <2>4, <2>5 DEF NewChunk, Fits, RangeOf
    <3>2. \A o \in p.offset .. p.offset + (task[t].written + 1) - 1 : staging'[u][o] = p.checksum
      <4> SUFFICES ASSUME NEW o \in p.offset .. at PROVE staging'[u][o] = p.checksum
        BY <2>1
      <4>1. o = at \/ (o \in p.offset .. at - 1 /\ o \in Offsets \ {at})
        <5>1. PICK from \in Nat, end \in Nat : from = p.offset /\ end = at
          BY <2>1, <2>2
        <5>2. MaxBytes \in Nat
          BY ConstantsOK
        <5> QED BY <2>2, <5>1, <5>2 DEF Offsets
      <4>2. p.data = p.checksum
        BY <2>1 DEF NewChunk
      <4> QED BY <2>1, <2>7, <4>1, <4>2
    <3> QED BY <2>1, <2>3, <2>4, <3>1, <3>2 DEF WritesOK, MirrorOK
  <2>10. Works(t, u)
    BY <2>3, <2>5 DEF Works
  <2> QED BY <1>3, <1>4, <2>0, <2>5, <2>8, <2>9, <2>10, TurnBytes DEF WriteByte
<1>5. CASE PersistChunk(t)
  <2>0. PICK u \in Uploads : u = task[t].upload
    BY <1>3, <1>5 DEF PersistChunk
  <2> DEFINE c == ChunkOf(p)
  <2>1. /\ c \in Chunk /\ c \notin chunks[u] /\ RangeOf(c) = RangeOf(p)
        /\ c.offset = p.offset /\ c.size = p.size /\ c.checksum = p.checksum
        /\ p.offset + p.size <= row[u].size
        /\ RangeOf(p) \intersect Covered(chunks[u]) = {}
    BY <1>3, <1>5, <2>0, ConstantsOK
       DEF PersistChunk, ChunkOf, Chunk, RangeOf, NewChunk, Fits, Covered
  <2>2. /\ chunks'[u] = chunks[u] \union {c} /\ UNCHANGED <<staging, manifest>>
        /\ \A w \in Uploads \ {u} : chunks'[w] = chunks[w]
        /\ row' = [row EXCEPT ![u] = [row[u] EXCEPT !.ackEpoch = row[u].ackEpoch + 1,
                                                    !.received = row[u].received + p.size]]
        /\ Capture(t, u, row[u].state, chunks'[u], "idle")
    BY <1>0, <1>5, <2>0 DEF PersistChunk, TypeOK, files
  <2>3. /\ row'[u].state = row[u].state /\ row'[u].size = row[u].size
        /\ row'[u].received = row[u].received + p.size
        /\ row'[u].ackEpoch = row[u].ackEpoch + 1
        /\ \A w \in Uploads \ {u} : row'[w] = row[w]
    BY <1>0, <2>2 DEF TypeOK, Rows
  <2>4. /\ task'[t].pc = "mirror" /\ task'[t].upload = u
        /\ task'[t].image.state = row[u].state /\ task'[t].image.chunks = chunks'[u]
        /\ \A s \in Runners \ {t} : task'[s] = task[s]
    BY <1>0, <2>2, ImageEffect
  <2>5. ChunksOK(u)'
    <3>0. ChunksOK(u)
      BY DEF BytesInv
    <3>1. row'[u].state # "absent"
      BY <1>3, <1>5, <2>0, <2>3 DEF PersistChunk
    <3>2. IsFiniteSet(chunks'[u]) /\ Cardinality(chunks'[u]) = Cardinality(chunks[u]) + 1
      <4>1. IsFiniteSet(chunks[u])
        BY <3>0 DEF ChunksOK
      <4>2. /\ IsFiniteSet(chunks[u] \union {c})
            /\ Cardinality(chunks[u] \union {c}) = Cardinality(chunks[u]) + 1
        BY <2>1, <4>1, FS_AddElement
      <4> QED BY <2>2, <4>2
    <3>3. Cardinality(Covered(chunks'[u])) = Cardinality(Covered(chunks[u])) + p.size
      <4>1. Covered(chunks'[u]) = Covered(chunks[u]) \union RangeOf(p)
        BY <2>1, <2>2 DEF Covered
      <4>2. IsFiniteSet(RangeOf(p)) /\ Cardinality(RangeOf(p)) = p.size
        BY <1>0, <1>3, <1>5, <2>0, <2>1, PacketFits DEF PersistChunk
      <4>3. IsFiniteSet(Covered(chunks[u])) /\ Cardinality(Covered(chunks[u])) \in Nat
        BY <1>0, <3>0, CoveredFinite, FS_CardinalityType
      <4>4. RangeOf(p) \intersect Covered(chunks[u]) = {} /\ Cardinality({}) = 0
        BY <2>1, FS_EmptySet
      <4>5. Cardinality(Covered(chunks[u]) \union RangeOf(p))
              = Cardinality(Covered(chunks[u])) + Cardinality(RangeOf(p))
                - Cardinality(Covered(chunks[u]) \intersect RangeOf(p))
        BY <4>2, <4>3, FS_Union
      <4>6. p.size \in Nat
        BY <1>3, <1>5, ConstantsOK DEF PersistChunk
      <4>7. Covered(chunks[u]) \intersect RangeOf(p) = {}
        BY <4>4
      <4>8. Cardinality(Covered(chunks[u]) \intersect RangeOf(p)) = 0
        BY <4>4, <4>7
      <4>9. Cardinality(Covered(chunks[u]) \union RangeOf(p))
              = Cardinality(Covered(chunks[u])) + p.size
        BY <4>2, <4>3, <4>5, <4>6, <4>8
      <4> QED BY <4>1, <4>9
    <3>4. ASSUME NEW d \in chunks'[u], NEW o \in RangeOf(d) PROVE staging'[u][o] = d.checksum
      <4>1. CASE d \in chunks[u]
        BY <1>3, <1>5, <2>0, <2>2, <3>0, <3>4, <4>1 DEF ChunksOK, PersistChunk
      <4>2. CASE d = c
        BY <1>5, <2>0, <2>1, <2>2, <3>4, <4>2, <1>3 DEF BytesInv, WritesOK, PersistChunk, RangeOf
      <4> QED BY <2>2, <4>1, <4>2
    <3>5. \A d \in chunks'[u] : d.offset + d.size <= row'[u].size
      BY <2>1, <2>2, <2>3, <3>0 DEF ChunksOK
    <3> QED BY <2>3, <3>0, <3>1, <3>2, <3>3, <3>4, <3>5 DEF ChunksOK
  <2>6. WritesOK(t)' /\ MirrorOK(t)'
    BY <1>3, <1>5, <2>0, <2>3, <2>4, StatesOnward
       DEF WritesOK, MirrorOK, Behind, PersistChunk, Onward, States
  <2>7. Works(t, u)
    BY <2>2, <2>3, <2>4 DEF Works
  <2> QED BY <1>3, <1>5, <2>0, <2>2, <2>3, <2>5, <2>6, <2>7, TurnBytes DEF PersistChunk
<1> QED BY <1>1, <1>2, <1>4, <1>5 DEF Appending

-----------------------------------------------------------------------------
(* Commits, cancellations, manifests and the reconciliation *)

\* A step of a task after which it neither writes a chunk nor mirrors its row.
LEMMA MoveBytes ==
  ASSUME TypeOK, BytesInv, UNCHANGED <<row, chunks, staging, manifest>>, NEW t \in Runners,
         \A s \in Runners \ {t} : task'[s] = task[s],
         task'[t].pc \notin {"queued", "write", "persist", "mirror"}
  PROVE  BytesInv'
<1>1. WritesOK(t)' /\ MirrorOK(t)'
  BY DEF WritesOK, MirrorOK
<1> QED BY <1>1, QuietBytes

\* Task t drops the staging file of its upload.
LEMMA DropBytes ==
  ASSUME LibraryInv, BytesInv, NEW t \in Runners, NEW u \in Uploads, Apart(t, u),
         UNCHANGED <<row, chunks, manifest>>, staging' = [staging EXCEPT ![u] = None],
         \A s \in Runners \ {t} : task'[s] = task[s], WritesOK(t)', MirrorOK(t)'
  PROVE  BytesInv'
<1>1. staging'[u] = None /\ \A w \in Uploads \ {u} : staging'[w] = staging[w]
  BY DEF LibraryInv, TypeOK
<1>2. ChunksOK(u)'
  BY <1>1 DEF BytesInv, ChunksOK, Exists
<1>3. Works(t, u)
  BY <1>1 DEF Works
<1> QED BY <1>2, <1>3, TurnBytes

LEMMA GotoBytes ==
  ASSUME TypeOK, NEW t \in Runners, NEW pc, Goto(t, pc)
  PROVE  task'[t].pc = pc /\ \A s \in Runners \ {t} : task'[s] = task[s]
<1>1. task'[t] = [task[t] EXCEPT !.pc = pc] /\ \A s \in Runners \ {t} : task'[s] = task[s]
  BY DEF Goto, TypeOK
<1> QED BY <1>1 DEF TypeOK, Locals

LEMMA CommittingBytes ==
  ASSUME LibraryInv, BytesInv, NEW t \in Runners, Committing(t)
  PROVE  BytesInv'
<1>0. Queueing /\ TypeOK /\ PointOK(t) /\ task[t] \in Locals
  BY DEF Queueing, LibraryInv, TypeOK
<1>1. PICK u : u = task[t].upload
  OBVIOUS
<1>2. ASSUME task[t].pc \in {"hash", "rehash", "find", "reuse", "move", "commit", "adopt",
                              "verify", "reference"}
      PROVE  /\ Active(t) /\ OnTurn(t) /\ u \in Uploads /\ Point(t) = task[t].pc
             /\ row[u].state \in {"staged", "hash_verified", "committed"}
             /\ Apart(t, u)
  <2>1. Active(t) /\ OnTurn(t) /\ u \in Uploads /\ Point(t) = task[t].pc
    BY <1>0, <1>1, <1>2, Holding DEF Active, OnTurn, Point, Queueing
  <2>2. row[u].state \in {"staged", "hash_verified", "committed"}
    BY <1>0, <1>1, <1>2, <2>1 DEF PointOK
  <2> QED BY <1>1, <2>1, <2>2, TurnApart
<1>3. ASSUME task[t].pc \in {"hash", "rehash", "reuse", "move", "verify"},
             MarkRecoverableError(t)
      PROVE  BytesInv'
  BY <1>1, <1>2, <1>3, ErrorBytes
<1>4. CASE AnswerComplete(t)
  BY <1>0, <1>4, FinishBytes DEF AnswerComplete, Answer, database, files
<1>5. CASE BeginComplete(t)
  <2>1. OnTurn(t) /\ u \in Uploads /\ row[u].state = "transferring"
    BY <1>1, <1>5, AtHeadHolds DEF LibraryInv, BeginComplete, AtHead, OnTurn, Complete
  <2>2. Apart(t, u) /\ Mark(t, u, "staged", "hash")
    BY <1>1, <1>5, <2>1, TurnApart DEF BeginComplete
  <2> QED BY <2>1, <2>2, MarkBytes, StatesOnward DEF States, Steps
<1>6. CASE HashStaging(t)
  <2>1. row[u].state = "staged" /\ u \in Uploads /\ Apart(t, u)
    BY <1>0, <1>1, <1>2, <1>6 DEF HashStaging, PointOK
  <2>2. CASE Mark(t, u, "hash_verified", "find")
    BY <2>1, <2>2, MarkBytes, StatesOnward DEF States, Steps
  <2> QED BY <1>1, <1>3, <1>6, <2>2 DEF HashStaging
<1>7. CASE RehashStaging(t)
  <2>1. CASE Goto(t, "find") /\ UNCHANGED <<database, files>>
    BY <1>0, <2>1, GotoBytes, MoveBytes DEF database, files
  <2> QED BY <1>3, <1>7, <2>1 DEF RehashStaging
<1>8. CASE FindBlob(t)
  <2>1. PICK pc \in {"reuse", "move"}, b \in BOOLEAN :
          /\ task'[t] = [task[t] EXCEPT !.createBlob = b, !.pc = pc]
          /\ \A s \in Runners \ {t} : task'[s] = task[s]
    BY <1>0, <1>8 DEF FindBlob, TypeOK
  <2>2. task'[t].pc = pc
    BY <1>0, <2>1 DEF Locals
  <2> QED BY <1>0, <1>8, <2>1, <2>2, MoveBytes DEF FindBlob, database, files
<1>9. CASE ReuseBlob(t) \/ MoveToBlob(t)
  <2>1. u \in Uploads /\ Apart(t, u)
    BY <1>2, <1>9 DEF ReuseBlob, MoveToBlob
  <2>2. CASE /\ staging' = [staging EXCEPT ![u] = None] /\ Goto(t, "commit")
             /\ UNCHANGED <<row, chunks, manifest>>
    <3>1. task'[t].pc = "commit" /\ \A s \in Runners \ {t} : task'[s] = task[s]
      BY <1>0, <2>2, GotoBytes
    <3>2. WritesOK(t)' /\ MirrorOK(t)'
      BY <3>1 DEF WritesOK, MirrorOK
    <3> QED BY <2>1, <2>2, <3>1, <3>2, DropBytes
  <2> QED BY <1>1, <1>3, <1>9, <2>2 DEF ReuseBlob, MoveToBlob, database
<1>10. CASE MarkCommitted(t)
  <2>1. row[u].state = "hash_verified" /\ u \in Uploads /\ Apart(t, u)
    BY <1>0, <1>1, <1>2, <1>10 DEF MarkCommitted, PointOK
  <2>2. Mark(t, u, "committed", "verify")
    BY <1>1, <1>10 DEF MarkCommitted
  <2> QED BY <2>1, <2>2, MarkBytes, StatesOnward DEF States, Steps
<1>11. CASE AdoptBlob(t)
  <2>1. PICK b \in BOOLEAN :
          /\ task'[t] = [task[t] EXCEPT !.createBlob = b, !.pc = "verify"]
          /\ \A s \in Runners \ {t} : task'[s] = task[s]
    BY <1>0, <1>11 DEF AdoptBlob, TypeOK
  <2>2. task'[t].pc = "verify"
    BY <1>0, <2>1 DEF Locals
  <2> QED BY <1>0, <1>11, <2>1, <2>2, MoveBytes DEF AdoptBlob, database, files
<1>12. CASE VerifyBlob(t)
  <2>1. CASE Goto(t, "reference") /\ UNCHANGED <<database, files>>
    BY <1>0, <2>1, GotoBytes, MoveBytes DEF database, files
  <2> QED BY <1>3, <1>12, <2>1 DEF VerifyBlob
<1>13. CASE CreateReference(t)
  <2>1. row[u].state = "committed" /\ u \in Uploads /\ Apart(t, u)
    BY <1>0, <1>1, <1>2, <1>13 DEF CreateReference, PointOK
  <2>2. CASE Conflicts(t)
    BY <1>13, <2>2, ThrowBytes DEF CreateReference, files
  <2>3. CASE ~Conflicts(t)
    <3>1. /\ row' = [row EXCEPT ![u].state = "ready"] /\ Capture(t, u, "ready", chunks[u], "idle")
          /\ UNCHANGED <<chunks, manifest, staging>>
      BY <1>1, <1>13, <2>3 DEF CreateReference, files
    <3>2. /\ task'[t].pc = "mirror" /\ task'[t].upload = u
          /\ task'[t].image.state = "ready" /\ task'[t].image.chunks = chunks[u]
          /\ \A s \in Runners \ {t} : task'[s] = task[s]
      BY <1>0, <2>1, <3>1, ImageEffect
    <3>3. row'[u].state = "ready"
      BY <1>0, <2>1, <3>1 DEF TypeOK, Rows
    <3>4. WritesOK(t)' /\ MirrorOK(t)'
      BY <3>1, <3>2, <3>3, StatesOnward DEF WritesOK, MirrorOK, Behind, Onward
    <3> QED BY <2>1, <3>1, <3>2, <3>4, StateBytes, StatesOnward
  <2> QED BY <2>2, <2>3
<1> QED BY <1>4, <1>5, <1>6, <1>7, <1>8, <1>9, <1>10, <1>11, <1>12, <1>13 DEF Committing

LEMMA CancellingBytes ==
  ASSUME LibraryInv, BytesInv, NEW t \in Runners, Cancelling(t)
  PROVE  BytesInv'
<1>0. Queueing /\ TypeOK /\ PointOK(t) /\ task[t] \in Locals
  BY DEF Queueing, LibraryInv, TypeOK
<1>1. PICK u : u = task[t].upload
  OBVIOUS
<1>2. CASE AnswerCancel(t)
  BY <1>0, <1>2, FinishBytes DEF AnswerCancel, Answer, database, files
<1>3. CASE BeginCancel(t)
  <2>1. OnTurn(t) /\ u \in Uploads /\ row[u].state = "transferring"
    BY <1>1, <1>3, AtHeadHolds DEF LibraryInv, BeginCancel, AtHead, OnTurn
  <2>2. Apart(t, u) /\ Mark(t, u, "cancelled", "remove")
    BY <1>1, <1>3, <2>1, TurnApart DEF BeginCancel
  <2> QED BY <2>1, <2>2, MarkBytes, StatesOnward DEF States, Steps
<1>4. CASE RemoveStaging(t)
  <2>1. Active(t) /\ OnTurn(t) /\ u \in Uploads /\ row[u].state = "cancelled"
    BY <1>0, <1>1, <1>4, Holding
       DEF RemoveStaging, Active, OnTurn, Queueing, PointOK, Point
  <2>2. Apart(t, u) /\ staging' = [staging EXCEPT ![u] = None]
        /\ UNCHANGED <<row, chunks, manifest>>
    BY <1>1, <1>4, <2>1, TurnApart DEF RemoveStaging, database
  <2>3. /\ WritesOK(t)' /\ MirrorOK(t)'
        /\ \A s \in Runners \ {t} : task'[s] = task[s]
    <3>1. CASE t = Recovery
      <4>1. Capture(t, u, row[u].state, chunks[u], "idle")
        BY <1>1, <1>4, <3>1 DEF RemoveStaging
      <4>2. /\ task'[t].pc = "mirror" /\ task'[t].upload = u
            /\ task'[t].image.state = row[u].state /\ task'[t].image.chunks = chunks[u]
            /\ \A s \in Runners \ {t} : task'[s] = task[s]
        BY <1>0, <2>1, <4>1, ImageEffect
      <4> QED BY <2>1, <2>2, <4>2, StatesOnward
              DEF WritesOK, MirrorOK, Behind, Onward, States
    <3>2. CASE t # Recovery
      <4>1. task'[t] = IdleTask /\ \A s \in Runners \ {t} : task'[s] = task[s]
        BY <1>0, <1>4, <3>2 DEF RemoveStaging, Finish, TypeOK
      <4> QED BY <4>1 DEF IdleTask, WritesOK, MirrorOK
    <3> QED BY <3>1, <3>2
  <2> QED BY <2>1, <2>2, <2>3, DropBytes
<1> QED BY <1>2, <1>3, <1>4 DEF Cancelling

LEMMA LandBytes ==
  ASSUME LibraryInv, BytesInv, NEW t \in Runners, LandManifest(t)
  PROVE  BytesInv'
<1>0. TypeOK /\ PointOK(t) /\ UNCHANGED <<row, chunks, staging>> /\ task[t].pc = "mirror"
  BY DEF LibraryInv, LandManifest, database
<1>1. PICK u \in Uploads, image \in {task[t].image} : u = task[t].upload
  <2>1. Active(t)
    BY <1>0 DEF Active
  <2> QED BY <1>0, <2>1, Holding DEF LibraryInv
<1>2. /\ task'[t].pc \notin {"queued", "write", "persist", "mirror"}
      /\ \A s \in Runners \ {t} : task'[s] = task[s]
  <2>1. CASE task[t].next = "idle"
    <3>1. task'[t] = IdleTask /\ \A s \in Runners \ {t} : task'[s] = task[s]
      BY <1>0, <2>1 DEF LandManifest, Finish, TypeOK
    <3> QED BY <3>1 DEF IdleTask
  <2>2. CASE task[t].next # "idle"
    <3>1. Goto(t, task[t].next)
      BY <2>2 DEF LandManifest
    <3>2. task[t].next \in {"bind", "hash", "find", "verify", "adopt", "remove"}
      BY <1>0, <2>2 DEF PointOK, Point, Active
    <3> QED BY <1>0, <3>1, <3>2, GotoBytes
  <2> QED BY <2>1, <2>2
<1>3. WritesOK(t)' /\ MirrorOK(t)'
  BY <1>2 DEF WritesOK, MirrorOK
<1>4. \A s \in Runners \ {t} : WritesOK(s)' /\ MirrorOK(s)'
  BY <1>0, <1>2 DEF BytesInv, WritesOK, MirrorOK, Behind, NewChunk, Fits, RangeOf
<1>5. \A w \in Uploads : ChunksOK(w)'
  BY <1>0 DEF BytesInv, ChunksOK, Exists, RangeOf
<1>6. ManifestNeverAhead'
  <2>1. manifest'[u] = image /\ \A w \in Uploads \ {u} : manifest'[w] = manifest[w]
    BY <1>0, <1>1 DEF LandManifest, TypeOK
  <2>2. Behind(image, u)
    BY <1>0, <1>1 DEF BytesInv, MirrorOK
  <2> QED BY <1>0, <2>1, <2>2 DEF BytesInv, ManifestNeverAhead, Behind, Exists
<1> QED BY <1>3, <1>4, <1>5, <1>6 DEF BytesInv

LEMMA ReconcileBytes ==
  ASSUME LibraryInv, BytesInv, NEW u \in Uploads, Reconcile(u)
  PROVE  BytesInv'
<1>0. Queueing /\ TypeOK /\ Recovery \in Runners /\ row[u] \in Rows
  BY DEF Queueing, LibraryInv, TypeOK, Runners
<1>1. Visit(u) /\ row[u].state # "absent"
  BY DEF Reconcile, ReconcileSettled, ReconcileStaged, ReconcileVerified,
         ReconcileCommitted, ReconcileCancelled
<1>2. task[Recovery] = IdleTask /\ UNCHANGED <<chunks, staging, manifest>>
  BY <1>0, <1>1 DEF Visit, Queueing, ArgumentsOK, files
<1>3. Apart(Recovery, u)
  BY <1>0, <1>1 DEF Visit, Queueing, LanesOK, Runners, Apart, Active
<1>4. ASSUME NEW pc \in {"hash", "rehash", "adopt", "remove"}, ResumeAt(u, pc)
      PROVE  BytesInv'
  <2>1. task'[Recovery].pc = pc /\ \A s \in Runners \ {Recovery} : task'[s] = task[s]
    BY <1>0, <1>2, <1>4 DEF ResumeAt, TypeOK, IdleTask
  <2> QED BY <1>0, <1>2, <1>4, <2>1, MoveBytes DEF ResumeAt
<1>5. ASSUME NEW state \in States \ {"absent"}, NEW next, SettleAs(u, state, next),
             Onward(row[u].state, state)
      PROVE  BytesInv'
  <2>1. /\ task'[Recovery].pc = "mirror" /\ task'[Recovery].upload = u
        /\ task'[Recovery].image.state = state /\ task'[Recovery].image.chunks = chunks[u]
        /\ \A s \in Runners \ {Recovery} : task'[s] = task[s]
    BY <1>0, <1>2, <1>5 DEF SettleAs, TypeOK, IdleTask
  <2>2. row' = [row EXCEPT ![u].state = state]
    BY <1>5 DEF SettleAs
  <2>3. row'[u].state = state
    BY <1>0, <2>2 DEF TypeOK, Rows
  <2>4. WritesOK(Recovery)' /\ MirrorOK(Recovery)'
    BY <1>2, <1>5, <2>1, <2>3 DEF WritesOK, MirrorOK, Behind, Onward
  <2> QED BY <1>0, <1>1, <1>2, <1>3, <1>5, <2>1, <2>2, <2>4, StateBytes
<1>6. row[u].state \in States \ {"absent"}
  BY <1>0, <1>1 DEF Rows
<1>7. CASE ReconcileSettled(u)
  <2>1. CASE row[u].state = "transferring" /\ ~Exists(staging[u])
    BY <1>5, <1>7, <2>1, StatesOnward DEF ReconcileSettled, States
  <2>2. CASE ~(row[u].state = "transferring" /\ ~Exists(staging[u]))
    BY <1>5, <1>6, <1>7, <2>2, StatesOnward DEF ReconcileSettled
  <2> QED BY <2>1, <2>2
<1>8. CASE ReconcileVerified(u)
  <2>1. row[u].state = "hash_verified"
    BY <1>8 DEF ReconcileVerified
  <2>2. CASE Exists(staging[u])
    BY <1>4, <1>8, <2>2 DEF ReconcileVerified
  <2>3. CASE SettleAs(u, "committed", "adopt") \/ SettleAs(u, "recoverable_error", "idle")
    BY <1>5, <2>1, <2>3, StatesOnward DEF States
  <2> QED BY <1>8, <2>2, <2>3 DEF ReconcileVerified
<1>9. CASE ReconcileStaged(u) \/ ReconcileCommitted(u) \/ ReconcileCancelled(u)
  BY <1>4, <1>9 DEF ReconcileStaged, ReconcileCommitted, ReconcileCancelled
<1> QED BY <1>7, <1>8, <1>9 DEF Reconcile

-----------------------------------------------------------------------------
(* The invariant of chunks, files and manifests *)

LEMMA InitBytes ==
  ASSUME Init
  PROVE  BytesInv
<1>1. Covered({}) = {} /\ Cardinality({}) = 0 /\ IsFiniteSet({})
  BY FS_EmptySet DEF Covered
<1>2. ASSUME NEW u \in Uploads PROVE ChunksOK(u)
  <2>1. row[u] = NoRow /\ chunks[u] = {} /\ ~Exists(staging[u])
    BY DEF Init, Exists
  <2> QED BY <1>1, <2>1 DEF ChunksOK, NoRow
<1>3. \A t \in Runners : WritesOK(t) /\ MirrorOK(t)
  BY DEF Init, IdleTask, WritesOK, MirrorOK
<1>4. ManifestNeverAhead
  BY DEF Init, ManifestNeverAhead, Exists
<1> QED BY <1>2, <1>3, <1>4 DEF BytesInv

LEMMA StillBytes ==
  ASSUME BytesInv, UNCHANGED <<row, chunks, staging, manifest, task>>
  PROVE  BytesInv'
<1>1. \A u \in Uploads : ChunksOK(u)'
  BY DEF BytesInv, ChunksOK, Exists, RangeOf
<1>2. \A s \in Runners : WritesOK(s)' /\ MirrorOK(s)'
  BY DEF BytesInv, WritesOK, MirrorOK, Behind, NewChunk, Fits, RangeOf
<1>3. ManifestNeverAhead'
  BY DEF BytesInv, ManifestNeverAhead, Exists
<1> QED BY <1>1, <1>2, <1>3 DEF BytesInv

LEMMA BytesStep ==
  ASSUME LibraryInv, BytesInv, [Next]_vars
  PROVE  BytesInv'
<1>1. ASSUME NEW t \in Runners, TaskStep(t) PROVE BytesInv'
  BY <1>1, CreatingBytes, AppendingBytes, CommittingBytes, CancellingBytes, LandBytes
     DEF TaskStep
<1>2. ASSUME NEW t \in Runners, Fail(t) PROVE BytesInv'
  BY <1>2, ThrowBytes DEF Fail, database, files
<1>3. CASE Stop
  BY <1>3, HaltBytes DEF LibraryInv, Stop, database, files
<1>4. CASE Start \/ Serve \/ UNCHANGED vars
  BY <1>4, StillBytes DEF Start, Serve, vars, database, files
<1> QED BY <1>1, <1>2, <1>3, <1>4, RequestsBytes, ReconcileBytes DEF Next, Recovering

\* The rows of the chunks, the staging files and the manifests agree at every step:
\* chunks are disjoint parts of the declared file, the row counts them, staging holds
\* them, and no manifest, landed or on its way, knows more than the rows.
THEOREM BytesInvariant == Spec => []BytesInv
<1>1. Init => BytesInv
  BY InitBytes
<1>2. LibraryInv /\ BytesInv /\ [Next]_vars => BytesInv'
  BY BytesStep
<1> QED BY <1>1, <1>2, LibraryInvariant, PTL DEF Spec

\* Every acknowledged byte stays in the staging file while the file exists, through
\* later chunks, replays, failed writes, stops and restarts.
THEOREM AcknowledgedStays == Spec => []AcknowledgedBytesIntact
<1>1. BytesInv => AcknowledgedBytesIntact
  BY DEF BytesInv, ChunksOK, AcknowledgedBytesIntact
<1> QED BY <1>1, BytesInvariant, PTL

\* The resume position counts each acknowledged byte once, and the epoch each chunk.
THEOREM PositionsCount == Spec => []ReceivedIsCovered
<1>1. BytesInv => ReceivedIsCovered
  BY DEF BytesInv, ChunksOK, ReceivedIsCovered, Covered
<1> QED BY <1>1, BytesInvariant, PTL

\* No manifest on the disk claims a chunk or a state that SQLite does not have.
THEOREM ManifestsFollow == Spec => []ManifestNeverAhead
<1>1. BytesInv => ManifestNeverAhead
  BY DEF BytesInv
<1> QED BY <1>1, BytesInvariant, PTL

-----------------------------------------------------------------------------
(* The library keeps the promise of UploadLifecycle *)

LEMMA PhaseValues ==
  /\ PhaseOf("absent") = "absent" /\ PhaseOf("transferring") = "receiving"
  /\ \A s \in {"staged", "hash_verified", "committed"} : PhaseOf(s) = "settling"
  /\ PhaseOf("ready") = "visible" /\ PhaseOf("recoverable_error") = "failed"
  /\ PhaseOf("cancelled") = "cancelled"
BY DEF PhaseOf

\* Nothing that the promise speaks about changes.
LEMMA PromiseStutters ==
  ASSUME UNCHANGED <<refs, blobFile>>,
         \A u \in Uploads : /\ PhaseOf(row'[u].state) = PhaseOf(row[u].state)
                            /\ row'[u].sha = row[u].sha
  PROVE  UNCHANGED Promise!vars
BY DEF Promise!vars, HashesTo

\* A row takes another state.
LEMMA PromiseMoves ==
  ASSUME TypeOK, NEW u \in Uploads, NEW state, row' = [row EXCEPT ![u].state = state]
  PROVE  /\ [w \in Uploads |-> PhaseOf(row[w].state)]'
              = [[w \in Uploads |-> PhaseOf(row[w].state)] EXCEPT ![u] = PhaseOf(state)]
         /\ [w \in Uploads |-> row[w].sha]' = [w \in Uploads |-> row[w].sha]
<1>1. /\ row'[u].state = state /\ row'[u].sha = row[u].sha
      /\ \A w \in Uploads \ {u} : row'[w] = row[w]
  BY DEF TypeOK, Rows
<1>2. [w \in Uploads |-> row[w].sha]' = [w \in Uploads |-> row[w].sha]
  BY <1>1
<1>3. \A w \in Uploads :
        PhaseOf(row'[w].state) = IF w = u THEN PhaseOf(state) ELSE PhaseOf(row[w].state)
  BY <1>1
<1> QED BY <1>2, <1>3

LEMMA MovePromise ==
  ASSUME TypeOK, NEW u \in Uploads, NEW state, row' = [row EXCEPT ![u].state = state],
         UNCHANGED <<refs, blobFile>>,
         \/ row[u].state = "transferring" /\ state \in {"staged", "cancelled"}
         \/ /\ row[u].state \in {"staged", "hash_verified", "committed"}
            /\ state \in {"staged", "hash_verified", "committed", "recoverable_error"}
         \/ row[u].state = state
  PROVE  [Promise!Next]_(Promise!vars)
<1>1. [w \in Uploads |-> row[w].sha]' = [w \in Uploads |-> row[w].sha]
  BY PromiseMoves
<1>2. [w \in Uploads |-> PhaseOf(row[w].state)]'
        = [[w \in Uploads |-> PhaseOf(row[w].state)] EXCEPT ![u] = PhaseOf(state)]
  BY PromiseMoves
<1>3. {h \in Shas : HashesTo(blobFile[h], h)}' = {h \in Shas : HashesTo(blobFile[h], h)}
  BY DEF HashesTo
<1>4. CASE row[u].state = "transferring" /\ state = "staged"
  <2>1. Promise!Settle(u)
    BY <1>1, <1>2, <1>3, <1>4, PhaseValues DEF Promise!Settle, Promise!Move
  <2> QED BY <2>1 DEF Promise!Next
<1>5. CASE row[u].state = "transferring" /\ state = "cancelled"
  <2>1. Promise!Cancel(u)
    BY <1>1, <1>2, <1>3, <1>5, PhaseValues DEF Promise!Cancel, Promise!Move
  <2> QED BY <2>1 DEF Promise!Next
<1>6. CASE /\ row[u].state \in {"staged", "hash_verified", "committed"}
           /\ state = "recoverable_error"
  <2>1. Promise!GiveUp(u)
    BY <1>1, <1>2, <1>3, <1>6, PhaseValues DEF Promise!GiveUp, Promise!Move
  <2> QED BY <2>1 DEF Promise!Next
<1>7. CASE PhaseOf(row[u].state) = PhaseOf(state)
  <2>1. UNCHANGED Promise!vars
    BY <1>1, <1>2, <1>3, <1>7 DEF Promise!vars
  <2> QED BY <2>1
<1> QED BY <1>4, <1>5, <1>6, <1>7, PhaseValues

\* No row, blob file or reference changes.
LEMMA QuietPromise ==
  ASSUME UNCHANGED <<row, refs, blobFile>>
  PROVE  [Promise!Next]_(Promise!vars)
BY PromiseStutters

LEMMA CreatingPromise ==
  ASSUME LibraryInv, NEW t \in Runners, Creating(t)
  PROVE  [Promise!Next]_(Promise!vars)
<1>0. TypeOK /\ PointOK(t) /\ Queueing
  BY DEF LibraryInv, Queueing
<1>1. CASE InsertRow(t)
  <2>1. PICK u \in Uploads : u = task[t].upload
    BY <1>0, <1>1, Holding DEF InsertRow, Queueing
  <2>2. row[u].state = "absent" /\ Creates(t)
    BY <1>0, <1>1, <2>1 DEF InsertRow, PointOK, Point, Active
  <2>3. PICK h \in Shas : h = task[t].arg.sha
    BY <1>0, <2>2, ConstantsOK DEF Queueing, ArgumentsOK
  <2>4. /\ row'[u].state = "transferring" /\ row'[u].sha = h
        /\ \A w \in Uploads \ {u} : row'[w] = row[w]
        /\ UNCHANGED <<refs, blobFile>>
    BY <1>0, <1>1, <2>1, <2>3 DEF InsertRow, TypeOK, files
  <2>5. Promise!Register(u, h)
    BY <2>2, <2>4, PhaseValues DEF Promise!Register, HashesTo
  <2> QED BY <2>5 DEF Promise!Next
<1>2. CASE ~InsertRow(t)
  <2>1. UNCHANGED <<row, refs, blobFile>>
    BY <1>2 DEF Creating, BeginCreate, RefuseCreation, AdmitCreation, BindUpload, Answer,
                database, files
  <2> QED BY <2>1, QuietPromise
<1> QED BY <1>1, <1>2

LEMMA AppendingPromise ==
  ASSUME LibraryInv, NEW t \in Runners, Appending(t)
  PROVE  [Promise!Next]_(Promise!vars)
<1>1. CASE PersistChunk(t)
  <2>1. row' = [row EXCEPT ![task[t].upload] =
                  [@ EXCEPT !.ackEpoch = row[task[t].upload].ackEpoch + 1,
                            !.received = row[task[t].upload].received + task[t].arg.size]]
    BY <1>1 DEF PersistChunk
  <2>2. \A w \in Uploads : row'[w].state = row[w].state /\ row'[w].sha = row[w].sha
    BY <2>1 DEF LibraryInv, TypeOK, Rows
  <2>3. UNCHANGED <<refs, blobFile>>
    BY <1>1 DEF PersistChunk, files
  <2> QED BY <2>2, <2>3, PromiseStutters
<1>2. CASE ~PersistChunk(t)
  <2>1. UNCHANGED <<row, refs, blobFile>>
    BY <1>2 DEF Appending, AnswerAppend, BeginAppend, WriteByte, Answer, database, files
  <2> QED BY <2>1, QuietPromise
<1> QED BY <1>1, <1>2

LEMMA CommittingPromise ==
  ASSUME LibraryInv, NEW t \in Runners, Committing(t)
  PROVE  [Promise!Next]_(Promise!vars)
<1>0. Queueing /\ TypeOK /\ PointOK(t) /\ RowsOK
  BY DEF Queueing, LibraryInv
<1>1. PICK u : u = task[t].upload
  OBVIOUS
<1>2. ASSUME task[t].pc \in {"hash", "rehash", "find", "reuse", "move", "commit", "adopt",
                              "verify", "reference"}
      PROVE  /\ u \in Uploads /\ Active(t) /\ Point(t) = task[t].pc
             /\ row[u].state \in {"staged", "hash_verified", "committed"}
             /\ row[u].sha \in Shas /\ ShaOf(t) = row[u].sha
  <2>1. Active(t) /\ u \in Uploads /\ Point(t) = task[t].pc
    BY <1>0, <1>1, <1>2, Holding DEF Active, Point, Queueing
  <2>2. row[u].state \in {"staged", "hash_verified", "committed"}
    BY <1>0, <1>1, <1>2, <2>1 DEF PointOK
  <2> QED BY <1>0, <1>1, <2>1, <2>2 DEF RowsOK, ShaOf
<1>3. ASSUME task[t].pc \in {"hash", "rehash", "reuse", "move", "commit", "verify"},
             NEW state \in {"hash_verified", "committed", "recoverable_error"},
             NEW next, Mark(t, u, state, next)
      PROVE  [Promise!Next]_(Promise!vars)
  BY <1>0, <1>2, <1>3, MovePromise DEF Mark, files
<1>4. CASE AnswerComplete(t) \/ FindBlob(t) \/ AdoptBlob(t)
  <2>1. UNCHANGED <<row, refs, blobFile>>
    BY <1>4 DEF AnswerComplete, FindBlob, AdoptBlob, Answer, database, files
  <2> QED BY <2>1, QuietPromise
<1>5. CASE BeginComplete(t)
  <2>1. u \in Uploads /\ row[u].state = "transferring"
    BY <1>1, <1>5, AtHeadHolds DEF LibraryInv, BeginComplete, AtHead, Complete
  <2> QED BY <1>0, <1>1, <1>5, <2>1, MovePromise DEF BeginComplete, Mark, files
<1>6. CASE HashStaging(t) \/ RehashStaging(t) \/ VerifyBlob(t) \/ MarkCommitted(t)
  <2>1. \/ UNCHANGED <<row, refs, blobFile>>
        \/ \E state \in {"hash_verified", "committed", "recoverable_error"}, next \in Steps :
             Mark(t, u, state, next)
    BY <1>1, <1>6 DEF HashStaging, RehashStaging, VerifyBlob, MarkCommitted,
                      MarkRecoverableError, database, files, Steps
  <2>2. task[t].pc \in {"hash", "rehash", "commit", "verify"}
    BY <1>6 DEF HashStaging, RehashStaging, VerifyBlob, MarkCommitted
  <2> QED BY <1>3, <2>1, <2>2, QuietPromise
<1>7. CASE ReuseBlob(t)
  <2>1. \/ UNCHANGED <<row, refs, blobFile>>
        \/ Mark(t, u, "recoverable_error", "idle")
    BY <1>1, <1>7 DEF ReuseBlob, MarkRecoverableError, database
  <2> QED BY <1>3, <1>7, <2>1, QuietPromise DEF ReuseBlob
<1>8. CASE MoveToBlob(t)
  <2>1. CASE Exists(staging[u])
    <3>1. HashesTo(staging[u], row[u].sha)
      BY <1>0, <1>1, <1>2, <1>8 DEF MoveToBlob, PointOK
    <3>2. /\ blobFile'[row[u].sha] = staging[u]
          /\ \A h \in Shas \ {row[u].sha} : blobFile'[h] = blobFile[h]
          /\ UNCHANGED <<row, refs>>
      BY <1>0, <1>1, <1>2, <1>8, <2>1 DEF MoveToBlob, TypeOK, database
    <3>3. {h \in Shas : HashesTo(blobFile[h], h)}'
            = {h \in Shas : HashesTo(blobFile[h], h)} \union {row[u].sha}
      <4>1. \A h \in Shas : HashesTo(blobFile'[h], h)
                              <=> HashesTo(blobFile[h], h) \/ h = row[u].sha
        BY <1>2, <1>8, <3>1, <3>2 DEF MoveToBlob
      <4> QED BY <1>2, <1>8, <4>1 DEF MoveToBlob, HashesTo
    <3>4. Promise!Keep(u)
      BY <1>2, <1>8, <3>2, <3>3, PhaseValues DEF MoveToBlob, Promise!Keep
    <3> QED BY <1>2, <1>8, <3>4 DEF MoveToBlob, Promise!Next
  <2>2. CASE ~Exists(staging[u])
    BY <1>1, <1>3, <1>8, <2>2 DEF MoveToBlob, MarkRecoverableError
  <2> QED BY <2>1, <2>2
<1>9. CASE CreateReference(t)
  <2>1. CASE Conflicts(t)
    BY <1>9, <2>1, QuietPromise DEF CreateReference, files
  <2>2. CASE ~Conflicts(t)
    <3>1. row' = [row EXCEPT ![u].state = "ready"] /\ blobFile' = blobFile
          /\ refs' = refs \union {[upload |-> u, sha |-> row[u].sha]}
      BY <1>1, <1>2, <1>9, <2>2 DEF CreateReference, files
    <3>2. u \in Uploads /\ row[u].state = "committed" /\ row[u].sha \in Shas
      BY <1>0, <1>1, <1>2, <1>9 DEF CreateReference, PointOK
    <3>3. HashesTo(blobFile[row[u].sha], row[u].sha)
      BY <3>2 DEF LibraryInv, NothingLost, BlobsIntact
    <3>4. /\ [w \in Uploads |-> PhaseOf(row[w].state)]'
               = [[w \in Uploads |-> PhaseOf(row[w].state)] EXCEPT ![u] = "visible"]
          /\ [w \in Uploads |-> row[w].sha]' = [w \in Uploads |-> row[w].sha]
      <4>1. /\ [w \in Uploads |-> PhaseOf(row[w].state)]'
                 = [[w \in Uploads |-> PhaseOf(row[w].state)] EXCEPT ![u] = PhaseOf("ready")]
            /\ [w \in Uploads |-> row[w].sha]' = [w \in Uploads |-> row[w].sha]
        BY <1>0, <3>1, <3>2, PromiseMoves
      <4> QED BY <4>1, PhaseValues
    <3>5. {h \in Shas : HashesTo(blobFile[h], h)}' = {h \in Shas : HashesTo(blobFile[h], h)}
      BY <3>1 DEF HashesTo
    <3>6. Promise!Publish(u)
      BY <3>1, <3>2, <3>3, <3>4, <3>5, PhaseValues DEF Promise!Publish, Promise!Move
    <3> QED BY <3>2, <3>6 DEF Promise!Next
  <2> QED BY <2>1, <2>2
<1> QED BY <1>4, <1>5, <1>6, <1>7, <1>8, <1>9 DEF Committing

LEMMA CancellingPromise ==
  ASSUME LibraryInv, NEW t \in Runners, Cancelling(t)
  PROVE  [Promise!Next]_(Promise!vars)
<1>1. CASE BeginCancel(t)
  <2>1. PICK u \in Uploads : u = task[t].upload /\ row[u].state = "transferring"
    BY <1>1, AtHeadHolds DEF LibraryInv, Queueing, BeginCancel, AtHead
  <2> QED BY <1>1, <2>1, MovePromise DEF LibraryInv, BeginCancel, Mark, files
<1>2. CASE AnswerCancel(t) \/ RemoveStaging(t)
  <2>1. UNCHANGED <<row, refs, blobFile>>
    BY <1>2 DEF AnswerCancel, RemoveStaging, Answer, database, files
  <2> QED BY <2>1, QuietPromise
<1> QED BY <1>1, <1>2 DEF Cancelling

LEMMA ReconcilePromise ==
  ASSUME LibraryInv, NEW u \in Uploads, Reconcile(u)
  PROVE  [Promise!Next]_(Promise!vars)
<1>1. TypeOK /\ UNCHANGED <<refs, blobFile>>
  BY DEF LibraryInv, Reconcile, ReconcileSettled, ReconcileStaged, ReconcileVerified,
         ReconcileCommitted, ReconcileCancelled, Visit, files
<1>2. CASE row' = row
  BY <1>1, <1>2, QuietPromise
<1>3. CASE row' # row
  <2>1. PICK state \in States, next \in Steps :
          /\ SettleAs(u, state, next)
          /\ \/ row[u].state = state
             \/ row[u].state = "hash_verified" /\ state \in {"committed", "recoverable_error"}
    <3>1. ~(row[u].state = "transferring" /\ ~Exists(staging[u])) /\ row[u].state \in States
      BY <1>1 DEF LibraryInv, NothingLost, TypeOK, Rows
    <3> QED BY <1>3, <3>1 DEF Reconcile, ReconcileSettled, ReconcileStaged,
               ReconcileVerified, ReconcileCommitted, ReconcileCancelled, ResumeAt, States, Steps
  <2> QED BY <1>1, <2>1, MovePromise DEF SettleAs
<1> QED BY <1>2, <1>3

\* The library implements UploadLifecycle: whatever its requests, failures and restarts
\* do, an upload moves along its one path, is published only over stored content that has
\* been verified, and stored content stays.
THEOREM LibraryKeepsPromise == Spec => KeepsPromise
<1>1. Init => Promise!Init
  <2> SUFFICES ASSUME Init PROVE Promise!Init
    OBVIOUS
  <2>1. \A u \in Uploads : row[u] = NoRow
    BY DEF Init
  <2>2. {h \in Shas : HashesTo(blobFile[h], h)} = {}
    <3>1. \A h \in Shas : blobFile[h] = None
      BY DEF Init
    <3>2. ASSUME NEW h \in Shas, HashesTo(None, h) PROVE FALSE
      <4>1. [o \in Offsets |-> IF o < FileSize[h] THEN h ELSE Hole] \in Contents
        BY DEF Contents
      <4> QED BY <3>2, <4>1, ConstantsOK DEF HashesTo
    <3> QED BY <3>1, <3>2
  <2> QED BY <2>1, <2>2, PhaseValues DEF Init, NoRow, Promise!Init
<1>2. LibraryInv /\ [Next]_vars => [Promise!Next]_(Promise!vars)
  <2> SUFFICES ASSUME LibraryInv, [Next]_vars PROVE [Promise!Next]_(Promise!vars)
    OBVIOUS
  <2>1. ASSUME NEW t \in Runners, TaskStep(t) PROVE [Promise!Next]_(Promise!vars)
    <3>1. CASE LandManifest(t)
      BY <3>1, QuietPromise DEF LandManifest, database
    <3> QED BY <2>1, <3>1, CreatingPromise, AppendingPromise, CommittingPromise,
               CancellingPromise DEF TaskStep
  <2>2. ASSUME NEW t \in Runners, Fail(t) PROVE [Promise!Next]_(Promise!vars)
    BY <2>2, QuietPromise DEF Fail, database, files
  <2>3. CASE Requests
    BY <2>3, QuietPromise DEF Requests, RequestCreate, RequestAppend, RequestComplete,
       RequestCancel, Enqueue, database, files
  <2>4. CASE Stop \/ Start \/ Serve \/ UNCHANGED vars
    BY <2>4, QuietPromise DEF Stop, Start, Serve, vars, database, files
  <2> QED BY <2>1, <2>2, <2>3, <2>4, ReconcilePromise DEF Next, Recovering
<1> QED BY <1>1, <1>2, LibraryInvariant, PTL DEF Spec, KeepsPromise, Promise!Spec

-----------------------------------------------------------------------------
(* The server begins to serve on settled uploads *)

\* The staging file is gone before an upload is committed, and stays away.
GoneOK ==
  /\ \A u \in Uploads : row[u].state \in {"committed", "ready"} => ~Exists(staging[u])
  /\ \A t \in Runners : task[t].pc = "commit" => ~Exists(staging[task[t].upload])

\* What the reconciliation mirrors is the row itself, and it leaves only settled rows.
ResumeOK ==
  LET u == task[Recovery].upload IN
  task[Recovery].pc # "idle" =>
    /\ Point(Recovery) # "bind"
    /\ task[Recovery].pc = "mirror" =>
         /\ task[Recovery].image = [state |-> row[u].state, chunks |-> chunks[u]]
         /\ task[Recovery].next = "idle" =>
              /\ row[u].state \in Settled
              /\ row[u].state \in {"ready", "cancelled"} => ~Exists(staging[u])

\* An upload that has been visited is reconciled, or is the one at work.
TodoOK ==
  mode = "recovering" =>
    \A u \in Uploads \ todo :
      Reconciled(u) \/ (task[Recovery].pc # "idle" /\ task[Recovery].upload = u)

LEMMA GoneFrame ==
  ASSUME LibraryInv, GoneOK, NEW t \in Runners, \A s \in Runners \ {t} : task'[s] = task[s],
         task'[t].pc = "commit" => ~Exists(staging'[task'[t].upload]),
         \A u \in Uploads : Exists(staging'[u]) =>
           Exists(staging[u]) \/ (row[u].state = "absent" /\ row'[u].state = "absent"),
         \A u \in Uploads : row'[u].state \in {"committed", "ready"} =>
           row[u].state \in {"committed", "ready"} \/ ~Exists(staging[u])
  PROVE  GoneOK'
<1>1. ASSUME NEW s \in Runners \ {t}, task[s].pc = "commit"
      PROVE  ~Exists(staging'[task[s].upload])
  <2>1. row[task[s].upload].state = "hash_verified" /\ task[s].upload \in Uploads
    BY <1>1, Holding DEF LibraryInv, PointOK, Point, Active
  <2> QED BY <1>1, <2>1 DEF GoneOK
<1>2. \A s \in Runners : task'[s].pc = "commit" => ~Exists(staging'[task'[s].upload])
  BY <1>1
<1>3. \A u \in Uploads : row'[u].state \in {"committed", "ready"} => ~Exists(staging'[u])
  BY DEF GoneOK
<1> QED BY <1>2, <1>3 DEF GoneOK, Exists

\* A task goes on, or ends, with rows and staging files as they are.
LEMMA GoneStays ==
  ASSUME LibraryInv, GoneOK, NEW t \in Runners, \A s \in Runners \ {t} : task'[s] = task[s],
         task'[t].pc # "commit", UNCHANGED <<row, staging>>
  PROVE  GoneOK'
BY GoneFrame DEF Exists

LEMMA GoneHalt ==
  ASSUME GoneOK, Halt, UNCHANGED <<row, staging>>
  PROVE  GoneOK'
BY DEF GoneOK, Halt, IdleTask, Exists

LEMMA GoneFinish ==
  ASSUME LibraryInv, GoneOK, NEW t \in Runners, Finish(t), UNCHANGED <<row, staging>>
  PROVE  GoneOK'
<1>1. task'[t] = IdleTask /\ \A s \in Runners \ {t} : task'[s] = task[s]
  BY DEF LibraryInv, TypeOK, Finish
<1> QED BY <1>1, GoneStays DEF IdleTask

LEMMA GoneThrow ==
  ASSUME LibraryInv, GoneOK, NEW t \in Runners, Throw(t), UNCHANGED <<row, staging>>
  PROVE  GoneOK'
BY GoneHalt, GoneFinish DEF Throw

\* A row takes a state that is not committed, or is committed without a staging file.
LEMMA GoneCaptures ==
  ASSUME LibraryInv, GoneOK, NEW t \in Runners, NEW u \in Uploads, NEW state, NEW next,
         row' = [row EXCEPT ![u].state = state], UNCHANGED <<chunks, staging>>,
         Capture(t, u, state, chunks[u], next),
         state \in {"committed", "ready"} => ~Exists(staging[u])
  PROVE  GoneOK'
<1>1. task'[t].pc = "mirror" /\ \A s \in Runners \ {t} : task'[s] = task[s]
  BY ImageEffect DEF LibraryInv
<1>2. row'[u].state = state /\ \A w \in Uploads \ {u} : row'[w] = row[w]
  BY DEF LibraryInv, TypeOK, Rows
<1> QED BY <1>1, <1>2, GoneFrame DEF Exists

LEMMA GoneCreating ==
  ASSUME LibraryInv, GoneOK, NEW t \in Runners, Creating(t)
  PROVE  GoneOK'
<1>0. TypeOK /\ PointOK(t) /\ Queueing
  BY DEF LibraryInv, Queueing
<1>1. CASE BeginCreate(t)
  <2>1. /\ task'[t] = [task[t] EXCEPT !.pc = "admit", !.reserved = ReservedBytes]
        /\ \A s \in Runners \ {t} : task'[s] = task[s]
    BY <1>0, <1>1 DEF BeginCreate, TypeOK
  <2>2. task'[t].pc = "admit"
    BY <1>0, <2>1 DEF TypeOK, Locals
  <2> QED BY <1>1, <2>1, <2>2, GoneStays DEF BeginCreate, database, files
<1>2. CASE RefuseCreation(t)
  BY <1>2, GoneFinish DEF RefuseCreation, Answer, database, files
<1>3. ASSUME NEW u \in Uploads, AdmitCreation(t, u) PROVE GoneOK'
  <2>1. /\ task'[t] = [task[t] EXCEPT !.pc = "insert", !.upload = u]
        /\ \A s \in Runners \ {t} : task'[s] = task[s]
        /\ row[u].state = "absent" /\ row' = row
        /\ \A w \in Uploads \ {u} : staging'[w] = staging[w]
    BY <1>0, <1>3 DEF AdmitCreation, TypeOK, database, Unused
  <2>2. task'[t].pc = "insert"
    BY <1>0, <2>1 DEF TypeOK, Locals
  <2> QED BY <2>1, <2>2, GoneFrame DEF Exists
<1>4. CASE InsertRow(t)
  <2>1. PICK u \in Uploads : u = task[t].upload
    BY <1>0, <1>4, Holding DEF InsertRow, Queueing
  <2>2. row[u].state = "absent"
    BY <1>0, <1>4, <2>1 DEF InsertRow, PointOK, Point, Active
  <2>3. /\ row'[u].state = "transferring" /\ \A w \in Uploads \ {u} : row'[w] = row[w]
        /\ staging' = staging
    BY <1>0, <1>4, <2>1 DEF InsertRow, TypeOK, files
  <2>4. /\ task'[t].pc = "mirror"
        /\ \A s \in Runners \ {t} : task'[s] = task[s]
    BY <1>0, <1>4, <2>1, ImageEffect DEF InsertRow
  <2> QED BY <2>2, <2>3, <2>4, GoneFrame DEF Exists
<1>5. CASE BindUpload(t)
  BY <1>5, GoneFinish DEF BindUpload, files
<1> QED BY <1>1, <1>2, <1>3, <1>4, <1>5 DEF Creating

LEMMA GoneAppending ==
  ASSUME LibraryInv, GoneOK, NEW t \in Runners, Appending(t)
  PROVE  GoneOK'
<1>0. TypeOK /\ PointOK(t) /\ Queueing
  BY DEF LibraryInv, Queueing
<1>1. CASE AnswerAppend(t)
  BY <1>1, GoneFinish DEF AnswerAppend, Answer, database, files
<1>2. CASE BeginAppend(t)
  BY <1>0, <1>2, GotoBytes, GoneStays DEF BeginAppend, database, files
<1>3. CASE WriteByte(t)
  <2>1. PICK pc \in {"write", "persist"} :
          /\ task'[t] = [task[t] EXCEPT !.written = task[t].written + 1, !.pc = pc]
          /\ \A s \in Runners \ {t} : task'[s] = task[s]
    BY <1>0, <1>3 DEF WriteByte, TypeOK
  <2>2. task'[t].pc = pc
    BY <1>0, <2>1 DEF TypeOK, Locals
  <2>3. PICK u \in Uploads : u = task[t].upload /\ row[u].state = "transferring"
    BY <1>0, <1>3, Holding DEF WriteByte, PointOK, Point, Active, Queueing, Creates
  <2>4. /\ row' = row /\ Exists(staging[u])
        /\ \A w \in Uploads \ {u} : staging'[w] = staging[w]
    BY <1>0, <1>3, <2>3 DEF WriteByte, TypeOK, database, LibraryInv, NothingLost
  <2> QED BY <2>1, <2>2, <2>3, <2>4, GoneFrame
<1>4. CASE PersistChunk(t)
  <2>1. PICK u \in Uploads : u = task[t].upload
    BY <1>0, <1>4, Holding DEF PersistChunk, PointOK, Point, Active, Queueing, Creates
  <2>2. /\ task'[t].pc = "mirror" /\ \A s \in Runners \ {t} : task'[s] = task[s]
        /\ staging' = staging
    BY <1>0, <1>4, <2>1, ImageEffect DEF PersistChunk, files
  <2>3. row' = [row EXCEPT ![u] = [@ EXCEPT !.ackEpoch = row[u].ackEpoch + 1,
                                            !.received = row[u].received + task[t].arg.size]]
    BY <1>4, <2>1 DEF PersistChunk
  <2>4. \A w \in Uploads : row'[w].state = row[w].state
    BY <1>0, <2>3 DEF TypeOK, Rows
  <2> QED BY <2>2, <2>4, GoneFrame DEF Exists
<1> QED BY <1>1, <1>2, <1>3, <1>4 DEF Appending

LEMMA GoneCommitting ==
  ASSUME LibraryInv, GoneOK, NEW t \in Runners, Committing(t)
  PROVE  GoneOK'
<1>0. Queueing /\ TypeOK /\ PointOK(t)
  BY DEF Queueing, LibraryInv
<1>1. PICK u : u = task[t].upload
  OBVIOUS
<1>2. ASSUME task[t].pc \in {"hash", "rehash", "find", "reuse", "move", "commit", "adopt",
                              "verify", "reference"}
      PROVE  u \in Uploads /\ Active(t) /\ Point(t) = task[t].pc
  BY <1>0, <1>1, <1>2, Holding DEF Active, Point, Queueing
<1>3. ASSUME u \in Uploads, NEW state, NEW next, Mark(t, u, state, next),
             state \in {"committed", "ready"} => ~Exists(staging[u])
      PROVE  GoneOK'
  BY <1>3, GoneCaptures DEF Mark, files
<1>4. CASE AnswerComplete(t)
  BY <1>4, GoneFinish DEF AnswerComplete, Answer, database, files
<1>5. CASE BeginComplete(t)
  <2>1. u \in Uploads
    BY <1>0, <1>1, <1>5, AtHeadHolds DEF BeginComplete, AtHead, Queueing
  <2> QED BY <1>1, <1>3, <1>5, <2>1 DEF BeginComplete
<1>6. CASE HashStaging(t)
  BY <1>1, <1>2, <1>3, <1>6 DEF HashStaging, MarkRecoverableError
<1>7. CASE RehashStaging(t)
  <2>1. CASE Goto(t, "find") /\ UNCHANGED <<database, files>>
    BY <1>0, <2>1, GotoBytes, GoneStays DEF database, files
  <2> QED BY <1>1, <1>2, <1>3, <1>7, <2>1 DEF RehashStaging, MarkRecoverableError
<1>8. CASE FindBlob(t) \/ AdoptBlob(t)
  <2>1. PICK pc \in {"reuse", "move", "verify"}, b \in BOOLEAN :
          /\ task'[t] = [task[t] EXCEPT !.createBlob = b, !.pc = pc]
          /\ \A s \in Runners \ {t} : task'[s] = task[s]
    BY <1>0, <1>8 DEF FindBlob, AdoptBlob, TypeOK
  <2>2. task'[t].pc = pc
    BY <1>0, <2>1 DEF TypeOK, Locals
  <2> QED BY <1>8, <2>1, <2>2, GoneStays DEF FindBlob, AdoptBlob, database, files
<1>9. CASE ReuseBlob(t) \/ MoveToBlob(t)
  <2>1. u \in Uploads
    BY <1>2, <1>9 DEF ReuseBlob, MoveToBlob
  <2>2. CASE /\ staging' = [staging EXCEPT ![u] = None] /\ Goto(t, "commit")
             /\ row' = row
    <3>1. /\ task'[t] = [task[t] EXCEPT !.pc = "commit"]
          /\ \A s \in Runners \ {t} : task'[s] = task[s]
      BY <1>0, <2>2 DEF Goto, TypeOK
    <3>2. task'[t].upload = u
      BY <1>0, <1>1, <3>1 DEF TypeOK, Locals
    <3>3. staging'[u] = None /\ \A w \in Uploads \ {u} : staging'[w] = staging[w]
      BY <1>0, <2>1, <2>2 DEF TypeOK
    <3> QED BY <2>1, <2>2, <3>1, <3>2, <3>3, GoneFrame DEF Exists
  <2> QED BY <1>1, <1>3, <1>9, <2>1, <2>2
          DEF ReuseBlob, MoveToBlob, MarkRecoverableError, database
<1>10. CASE MarkCommitted(t)
  <2>1. ~Exists(staging[u])
    BY <1>1, <1>10 DEF MarkCommitted, GoneOK
  <2> QED BY <1>1, <1>2, <1>3, <1>10, <2>1 DEF MarkCommitted
<1>11. CASE VerifyBlob(t)
  <2>1. CASE Goto(t, "reference") /\ UNCHANGED <<database, files>>
    BY <1>0, <2>1, GotoBytes, GoneStays DEF database, files
  <2> QED BY <1>1, <1>2, <1>3, <1>11, <2>1 DEF VerifyBlob, MarkRecoverableError
<1>12. CASE CreateReference(t)
  <2>1. u \in Uploads /\ row[u].state = "committed"
    BY <1>0, <1>1, <1>2, <1>12 DEF CreateReference, PointOK
  <2>2. CASE Conflicts(t)
    BY <1>12, <2>2, GoneThrow DEF CreateReference, files
  <2>3. CASE ~Conflicts(t)
    <3>1. /\ row' = [row EXCEPT ![u].state = "ready"] /\ Capture(t, u, "ready", chunks[u], "idle")
          /\ UNCHANGED <<chunks, staging>>
      BY <1>1, <1>12, <2>3 DEF CreateReference, files
    <3> QED BY <2>1, <3>1, GoneCaptures DEF GoneOK
  <2> QED BY <2>2, <2>3
<1> QED BY <1>4, <1>5, <1>6, <1>7, <1>8, <1>9, <1>10, <1>11, <1>12 DEF Committing

LEMMA GoneCancelling ==
  ASSUME LibraryInv, GoneOK, NEW t \in Runners, Cancelling(t)
  PROVE  GoneOK'
<1>0. Queueing /\ TypeOK
  BY DEF Queueing, LibraryInv
<1>1. CASE AnswerCancel(t)
  BY <1>1, GoneFinish DEF AnswerCancel, Answer, database, files
<1>2. CASE BeginCancel(t)
  <2>1. PICK u \in Uploads : u = task[t].upload
    BY <1>0, <1>2, AtHeadHolds DEF BeginCancel, AtHead, Queueing
  <2>2. /\ row' = [row EXCEPT ![u].state = "cancelled"] /\ UNCHANGED <<chunks, staging>>
        /\ Capture(t, u, "cancelled", chunks[u], "remove")
    BY <1>2, <2>1 DEF BeginCancel, Mark, files
  <2> QED BY <2>2, GoneCaptures
<1>3. CASE RemoveStaging(t)
  <2>1. PICK u \in Uploads : u = task[t].upload
    BY <1>0, <1>3, Holding DEF RemoveStaging, Queueing
  <2>2. row' = row /\ staging'[u] = None /\ \A w \in Uploads \ {u} : staging'[w] = staging[w]
    BY <1>0, <1>3, <2>1 DEF RemoveStaging, TypeOK, database
  <2>3. task'[t].pc # "commit" /\ \A s \in Runners \ {t} : task'[s] = task[s]
    <3>1. CASE t = Recovery
      <4>1. Capture(t, u, row[u].state, chunks[u], "idle")
        BY <1>3, <2>1, <3>1 DEF RemoveStaging
      <4>2. /\ task'[t].pc = "mirror" /\ \A s \in Runners \ {t} : task'[s] = task[s]
        BY <1>0, <4>1, ImageEffect
      <4> QED BY <4>2
    <3>2. CASE t # Recovery
      BY <1>0, <1>3, <3>2 DEF RemoveStaging, Finish, TypeOK, IdleTask
    <3> QED BY <3>1, <3>2
  <2> QED BY <2>2, <2>3, GoneFrame DEF Exists
<1> QED BY <1>1, <1>2, <1>3 DEF Cancelling

LEMMA GoneReconcile ==
  ASSUME LibraryInv, GoneOK, NEW u \in Uploads, Reconcile(u)
  PROVE  GoneOK'
<1>0. Queueing /\ TypeOK /\ Recovery \in Runners /\ row[u] \in Rows
  BY DEF Queueing, LibraryInv, TypeOK, Runners
<1>1. Visit(u) /\ staging' = staging
  BY DEF Reconcile, ReconcileSettled, ReconcileStaged, ReconcileVerified,
         ReconcileCommitted, ReconcileCancelled, Visit, files
<1>2. task[Recovery] = IdleTask
  BY <1>0, <1>1 DEF Visit, Queueing, ArgumentsOK
<1>3. ASSUME NEW pc \in {"hash", "rehash", "adopt", "remove"}, ResumeAt(u, pc)
      PROVE  GoneOK'
  <2>1. task'[Recovery].pc = pc /\ \A s \in Runners \ {Recovery} : task'[s] = task[s]
    BY <1>0, <1>2, <1>3 DEF ResumeAt, TypeOK, IdleTask
  <2> QED BY <1>0, <1>1, <1>3, <2>1, GoneStays DEF ResumeAt
<1>4. ASSUME NEW state, NEW next, SettleAs(u, state, next),
             state \in {"committed", "ready"} => state = row[u].state \/ ~Exists(staging[u])
      PROVE  GoneOK'
  <2>1. task'[Recovery].pc = "mirror" /\ \A s \in Runners \ {Recovery} : task'[s] = task[s]
    BY <1>0, <1>2, <1>4 DEF SettleAs, TypeOK, IdleTask
  <2>2. row' = [row EXCEPT ![u].state = state]
    BY <1>4 DEF SettleAs
  <2>3. row'[u].state = state /\ \A w \in Uploads \ {u} : row'[w] = row[w]
    BY <1>0, <2>2 DEF TypeOK, Rows
  <2> QED BY <1>0, <1>1, <1>4, <2>1, <2>3, GoneFrame DEF Exists
<1>5. CASE ReconcileSettled(u)
  BY <1>4, <1>5 DEF ReconcileSettled
<1>6. CASE ReconcileVerified(u)
  BY <1>3, <1>4, <1>6 DEF ReconcileVerified
<1>7. CASE ReconcileStaged(u) \/ ReconcileCommitted(u) \/ ReconcileCancelled(u)
  BY <1>3, <1>7 DEF ReconcileStaged, ReconcileCommitted, ReconcileCancelled
<1> QED BY <1>5, <1>6, <1>7 DEF Reconcile

LEMMA GoneStep ==
  ASSUME LibraryInv, GoneOK, [Next]_vars
  PROVE  GoneOK'
<1>0. TypeOK
  BY DEF LibraryInv
<1>1. ASSUME NEW t \in Runners, LandManifest(t) PROVE GoneOK'
  <2>1. UNCHANGED <<row, staging>>
    BY <1>1 DEF LandManifest, database
  <2>2. CASE task[t].next = "idle"
    BY <1>1, <2>1, <2>2, GoneFinish DEF LandManifest
  <2>3. CASE task[t].next # "idle"
    <3>1. Goto(t, task[t].next) /\ task[t].next # "commit"
      BY <1>1, <2>3 DEF LandManifest, LibraryInv, PointOK, Point, Active
    <3> QED BY <1>0, <2>1, <3>1, GotoBytes, GoneStays
  <2> QED BY <2>2, <2>3
<1>2. ASSUME NEW t \in Runners, Fail(t) PROVE GoneOK'
  BY <1>2, GoneThrow DEF Fail, database, files
<1>3. CASE Stop
  BY <1>3, GoneHalt DEF Stop, database, files
<1>4. CASE Start \/ Serve \/ UNCHANGED vars
  BY <1>4 DEF Start, Serve, vars, database, files, GoneOK, Exists
<1>5. CASE Requests
  <2>1. PICK t \in Tasks, op \in Operations, u \in Uploads \union {None},
             arg \in Declared \union Packets \union {None} : Enqueue(t, op, u, arg)
    BY <1>5 DEF Operations, Requests, RequestCreate, RequestAppend, RequestComplete,
                RequestCancel
  <2>2. t \in Runners /\ UNCHANGED <<row, staging>>
    BY <2>1 DEF Enqueue, database, files, Runners
  <2>3. task'[t].pc = "queued" /\ \A s \in Runners \ {t} : task'[s] = task[s]
    BY <1>0, <2>1, <2>2 DEF Enqueue, TypeOK, IdleTask
  <2> QED BY <2>2, <2>3, GoneStays
<1> QED BY <1>1, <1>2, <1>3, <1>4, <1>5, GoneCreating, GoneAppending, GoneCommitting,
           GoneCancelling, GoneReconcile DEF Next, TaskStep, Recovering

\* Outside the recovery, or with the recovery and the store at rest, nothing is to prove.
LEMMA TodoElsewhere ==
  ASSUME LibraryInv', mode' # "recovering"
  PROVE  TodoOK' /\ ResumeOK'
BY DEF LibraryInv, LanesOK, TodoOK, ResumeOK

LEMMA TodoStays ==
  ASSUME TodoOK, ResumeOK, Recovery \in Runners, task'[Recovery] = task[Recovery],
         UNCHANGED <<mode, todo, row, chunks, staging, manifest>>
  PROVE  TodoOK' /\ ResumeOK'
BY DEF TodoOK, ResumeOK, Reconciled, Point, Exists

\* The reconciliation works on upload u and goes on with it, or leaves it reconciled.
LEMMA TodoWorks ==
  ASSUME TodoOK, UNCHANGED <<mode, todo>>, NEW u \in Uploads,
         task[Recovery].pc # "idle" => task[Recovery].upload = u,
         Reconciled(u)' \/ (task'[Recovery].pc # "idle" /\ task'[Recovery].upload = u),
         \A w \in Uploads \ {u} : /\ row'[w] = row[w] /\ chunks'[w] = chunks[w]
                                  /\ staging'[w] = staging[w] /\ manifest'[w] = manifest[w]
  PROVE  TodoOK'
BY DEF TodoOK, Reconciled, Exists

LEMMA ImageExact ==
  ASSUME TypeOK, NEW t \in Runners, NEW u \in Uploads, NEW state, NEW persisted, NEW next,
         Capture(t, u, state, persisted, next)
  PROVE  /\ task'[t].image = [state |-> state, chunks |-> persisted]
         /\ task'[t].next = next
<1>1. task'[t] = [task[t] EXCEPT !.pc = "mirror", !.next = next, !.upload = u,
                     !.image = [state |-> state, chunks |-> persisted]]
  BY DEF Capture, TypeOK
<1> QED BY <1>1 DEF TypeOK, Locals

\* The reconciliation mirrors the row that its upload has now.
LEMMA TodoCaptures ==
  ASSUME LibraryInv, TodoOK, Recovery \in Runners, UNCHANGED <<mode, todo, chunks, manifest>>,
         NEW u \in Uploads, task[Recovery].pc # "idle" => task[Recovery].upload = u,
         \A w \in Uploads \ {u} : row'[w] = row[w] /\ staging'[w] = staging[w],
         NEW next, Capture(Recovery, u, row'[u].state, chunks[u], next), next # "bind",
         next = "idle" => /\ row'[u].state \in Settled
                          /\ row'[u].state \in {"ready", "cancelled"} => ~Exists(staging'[u])
  PROVE  TodoOK' /\ ResumeOK'
<1>1. /\ task'[Recovery].pc = "mirror" /\ task'[Recovery].upload = u
      /\ task'[Recovery].next = next
      /\ task'[Recovery].image = [state |-> row'[u].state, chunks |-> chunks[u]]
  BY ImageEffect, ImageExact DEF LibraryInv
<1>2. ResumeOK'
  BY <1>1 DEF ResumeOK, Point, Exists
<1> QED BY <1>1, <1>2, TodoWorks

\* The reconciliation goes on with its upload without mirroring it.
LEMMA TodoGoes ==
  ASSUME LibraryInv, TodoOK, Recovery \in Runners, NEW u \in Uploads,
         task[Recovery].pc # "idle" => task[Recovery].upload = u,
         UNCHANGED <<mode, todo, row, chunks, manifest>>,
         \A w \in Uploads \ {u} : staging'[w] = staging[w],
         task'[Recovery].pc \notin {"idle", "mirror", "bind"}, task'[Recovery].upload = u
  PROVE  TodoOK' /\ ResumeOK'
<1>1. ResumeOK'
  BY DEF ResumeOK, Point
<1> QED BY <1>1, TodoWorks

\* No step of a task begins to serve.
LEMMA TasksKeepMode ==
  ASSUME NEW t \in Runners, TaskStep(t) \/ Fail(t)
  PROVE  mode' \in {mode, "down"}
<1>1. CASE Fail(t)
  BY <1>1 DEF Fail, Throw, Halt
<1>2. CASE Creating(t)
  BY <1>2 DEF Creating, BeginCreate, RefuseCreation, AdmitCreation, InsertRow, BindUpload,
     Answer
<1>3. CASE Appending(t)
  BY <1>3 DEF Appending, AnswerAppend, BeginAppend, WriteByte, PersistChunk, Answer
<1>4. CASE Committing(t)
  BY <1>4 DEF Committing, AnswerComplete, BeginComplete, HashStaging, RehashStaging,
     FindBlob, ReuseBlob, MoveToBlob, MarkCommitted, AdoptBlob, VerifyBlob,
     CreateReference, Answer, Mark, MarkRecoverableError, Throw, Halt
<1>5. CASE Cancelling(t)
  BY <1>5 DEF Cancelling, AnswerCancel, BeginCancel, RemoveStaging, Answer, Mark
<1>6. CASE LandManifest(t)
  BY <1>6 DEF LandManifest
<1> QED BY <1>1, <1>2, <1>3, <1>4, <1>5, <1>6 DEF TaskStep

\* The requests of phones run in a server that serves, and the reconciliation does not.
LEMMA RequestsServe ==
  ASSUME LibraryInv, LibraryInv', NEW t \in Tasks, TaskStep(t) \/ Fail(t)
  PROVE  TodoOK' /\ ResumeOK'
<1>1. t \in Runners
  BY DEF Runners
<1>2. task[t].pc # "idle"
  BY DEF TaskStep, Fail, Creating, Appending, Committing, Cancelling, BeginCreate,
         RefuseCreation, AdmitCreation, InsertRow, BindUpload, AnswerAppend, BeginAppend,
         WriteByte, PersistChunk, AnswerComplete, BeginComplete, HashStaging,
         RehashStaging, FindBlob, ReuseBlob, MoveToBlob, MarkCommitted, AdoptBlob,
         VerifyBlob, CreateReference, AnswerCancel, BeginCancel, RemoveStaging,
         LandManifest, AtHead
<1>3. mode = "serving"
  BY <1>2 DEF LibraryInv, LanesOK
<1> QED BY <1>1, <1>3, TasksKeepMode, TodoElsewhere

LEMMA RecoveryCommits ==
  ASSUME LibraryInv, LibraryInv', GoneOK, TodoOK, ResumeOK, Committing(Recovery)
  PROVE  TodoOK' /\ ResumeOK'
<1> DEFINE t == Recovery
<1>0. Queueing /\ TypeOK /\ PointOK(t) /\ t \in Runners /\ task[t] \in Locals
  BY DEF Queueing, LibraryInv, Runners, TypeOK
<1>1. PICK u : u = task[t].upload
  OBVIOUS
<1>2. task[t].pc # "idle" /\ task[t].op = "reconcile"
  BY <1>0 DEF Committing, AnswerComplete, BeginComplete, HashStaging,
     RehashStaging, FindBlob, ReuseBlob, MoveToBlob, MarkCommitted, AdoptBlob,
     VerifyBlob, CreateReference, AtHead, Queueing, ArgumentsOK
<1>3. task[t].pc # "queued" /\ u \in Uploads
  <2>1. u \in Uploads
    BY <1>0, <1>1, <1>2, Holding DEF Queueing, Creates
  <2>2. task[t].pc # "queued"
    BY <1>2 DEF Committing, AnswerComplete, BeginComplete, HashStaging,
       RehashStaging, FindBlob, ReuseBlob, MoveToBlob, MarkCommitted, AdoptBlob,
       VerifyBlob, CreateReference, AtHead
  <2> QED BY <2>1, <2>2
<1>4. ASSUME NEW state, NEW next, row' = [row EXCEPT ![u].state = state],
             Capture(t, u, state, chunks[u], next),
             UNCHANGED <<mode, todo, chunks, manifest, staging>>, next # "bind",
             next = "idle" => \/ state = "recoverable_error"
                              \/ state = "ready" /\ ~Exists(staging[u])
      PROVE  TodoOK' /\ ResumeOK'
  <2>1. row'[u].state = state /\ \A w \in Uploads \ {u} : row'[w] = row[w]
    BY <1>0, <1>3, <1>4 DEF TypeOK, Rows
  <2> QED BY <1>0, <1>1, <1>3, <1>4, <2>1, TodoCaptures DEF Settled
<1>5. ASSUME NEW state, NEW next, Mark(t, u, state, next), next # "bind",
             next = "idle" => state = "recoverable_error"
      PROVE  TodoOK' /\ ResumeOK'
  BY <1>4, <1>5 DEF Mark, files
<1>6. ASSUME NEW pc \in {"find", "commit", "reference"}, Goto(t, pc),
             UNCHANGED <<mode, todo, row, chunks, manifest>>,
             \A w \in Uploads \ {u} : staging'[w] = staging[w]
      PROVE  TodoOK' /\ ResumeOK'
  <2>1. task'[t] = [task[t] EXCEPT !.pc = pc]
    BY <1>0, <1>6 DEF Goto, TypeOK
  <2>2. task'[t].pc = pc /\ task'[t].upload = u
    BY <1>0, <1>1, <2>1 DEF Locals
  <2> QED BY <1>0, <1>1, <1>3, <1>6, <2>2, TodoGoes
<1>7. CASE AnswerComplete(t) \/ BeginComplete(t)
  BY <1>3, <1>7 DEF AnswerComplete, BeginComplete, AtHead
<1>8. CASE HashStaging(t) \/ MarkCommitted(t)
  BY <1>1, <1>5, <1>8 DEF HashStaging, MarkCommitted, MarkRecoverableError
<1>9. CASE RehashStaging(t) \/ VerifyBlob(t)
  BY <1>1, <1>5, <1>6, <1>9
     DEF RehashStaging, VerifyBlob, MarkRecoverableError, database, files
<1>10. CASE FindBlob(t) \/ AdoptBlob(t)
  <2>1. PICK pc \in {"reuse", "move", "verify"}, b \in BOOLEAN :
          task'[t] = [task[t] EXCEPT !.createBlob = b, !.pc = pc]
    BY <1>0, <1>10 DEF FindBlob, AdoptBlob, TypeOK
  <2>2. task'[t].pc = pc /\ task'[t].upload = u
    BY <1>0, <1>1, <2>1 DEF Locals
  <2> QED BY <1>0, <1>1, <1>3, <1>10, <2>2, TodoGoes DEF FindBlob, AdoptBlob, database, files
<1>11. CASE ReuseBlob(t) \/ MoveToBlob(t)
  <2>1. CASE /\ staging' = [staging EXCEPT ![u] = None] /\ Goto(t, "commit")
             /\ UNCHANGED <<mode, todo, row, chunks, manifest>>
    <3>1. \A w \in Uploads \ {u} : staging'[w] = staging[w]
      BY <1>0, <2>1 DEF TypeOK
    <3> QED BY <1>6, <2>1, <3>1
  <2> QED BY <1>1, <1>5, <1>11, <2>1
          DEF ReuseBlob, MoveToBlob, MarkRecoverableError, database
<1>12. CASE CreateReference(t)
  <2>1. CASE Conflicts(t)
    BY <1>12, <2>1, TodoElsewhere DEF CreateReference, Throw, Halt
  <2>2. CASE ~Conflicts(t)
    <3>1. /\ row' = [row EXCEPT ![u].state = "ready"] /\ Capture(t, u, "ready", chunks[u], "idle")
          /\ UNCHANGED <<mode, todo, chunks, manifest, staging>>
      BY <1>1, <1>12, <2>2 DEF CreateReference, files
    <3>2. row[u].state = "committed"
      BY <1>0, <1>1, <1>12 DEF CreateReference, PointOK, Point, Active
    <3> QED BY <1>3, <1>4, <3>1, <3>2 DEF GoneOK
  <2> QED BY <2>1, <2>2
<1> QED BY <1>7, <1>8, <1>9, <1>10, <1>11, <1>12 DEF Committing

LEMMA RecoverySteps ==
  ASSUME LibraryInv, LibraryInv', GoneOK, TodoOK, ResumeOK, TaskStep(Recovery)
  PROVE  TodoOK' /\ ResumeOK'
<1> DEFINE t == Recovery
<1>0. Queueing /\ TypeOK /\ PointOK(t) /\ t \in Runners /\ task[t] \in Locals
  BY DEF Queueing, LibraryInv, Runners, TypeOK
<1>1. PICK u : u = task[t].upload
  OBVIOUS
<1>2. task[t].pc # "idle" => task[t].op = "reconcile" /\ u \in Uploads /\ ~Creates(t)
  BY <1>0, <1>1, Holding DEF Queueing, ArgumentsOK, Creates
<1>3. ~Creating(t)
  <2>1. ~BeginCreate(t)
    BY <1>2 DEF BeginCreate, AtHead
  <2>2. task[t].pc \notin {"admit", "insert", "bind"}
    BY <1>0, <1>2 DEF PointOK, Point, Active, ResumeOK
  <2> QED BY <2>1, <2>2 DEF Creating, RefuseCreation, AdmitCreation, InsertRow, BindUpload
<1>4. ~Appending(t)
  BY <1>0, <1>2 DEF Appending, AnswerAppend, BeginAppend, WriteByte, PersistChunk, AtHead,
     PointOK, Point, Active
<1>5. CASE Cancelling(t)
  <2>1. RemoveStaging(t)
    BY <1>2, <1>5 DEF Cancelling, AnswerCancel, BeginCancel, AtHead
  <2>2. u \in Uploads /\ row[u].state = "cancelled"
    BY <1>0, <1>1, <1>2, <2>1 DEF RemoveStaging, PointOK, Point, Active
  <2>3. /\ staging'[u] = None /\ \A w \in Uploads \ {u} : staging'[w] = staging[w]
        /\ UNCHANGED <<mode, todo, row, chunks, manifest>>
        /\ Capture(t, u, row'[u].state, chunks[u], "idle")
    BY <1>0, <1>1, <2>1, <2>2 DEF RemoveStaging, TypeOK, database
  <2> QED BY <1>0, <1>1, <2>2, <2>3, TodoCaptures DEF Settled, Exists
<1>6. CASE LandManifest(t)
  <2>1. /\ UNCHANGED <<mode, todo, row, chunks, staging>> /\ task[t].pc = "mirror"
        /\ manifest' = [manifest EXCEPT ![u] = task[t].image]
    BY <1>1, <1>6 DEF LandManifest, database
  <2>2. u \in Uploads /\ task[t].image = [state |-> row[u].state, chunks |-> chunks[u]]
    BY <1>1, <1>2, <2>1 DEF ResumeOK
  <2>3. /\ manifest'[u] = [state |-> row[u].state, chunks |-> chunks[u]]
        /\ \A w \in Uploads \ {u} : manifest'[w] = manifest[w]
    BY <1>0, <2>1, <2>2 DEF TypeOK
  <2>4. CASE task[t].next = "idle"
    <3>1. task'[t] = IdleTask
      BY <1>0, <1>6, <2>4 DEF LandManifest, Finish, TypeOK
    <3>2. Reconciled(u)'
      BY <1>1, <2>1, <2>3, <2>4 DEF ResumeOK, Reconciled, Exists
    <3>3. TodoOK'
      BY <1>1, <2>1, <2>2, <2>3, <3>2, TodoWorks
    <3> QED BY <3>1, <3>3 DEF ResumeOK, IdleTask
  <2>5. CASE task[t].next # "idle"
    <3>1. task[t].next \in {"hash", "find", "verify", "adopt", "remove"}
      BY <1>0, <2>1, <2>5 DEF PointOK, Point, Active, ResumeOK
    <3>2. task'[t] = [task[t] EXCEPT !.pc = task[t].next]
      BY <1>0, <1>6, <2>5 DEF LandManifest, Goto, TypeOK
    <3>3. task'[t].pc = task[t].next /\ task'[t].upload = u
      BY <1>0, <1>1, <3>2 DEF Locals
    <3>4. ResumeOK'
      BY <3>1, <3>3 DEF ResumeOK, Point
    <3>5. TodoOK'
      BY <1>1, <2>1, <2>2, <2>3, <3>1, <3>3, TodoWorks
    <3> QED BY <3>4, <3>5
  <2> QED BY <2>4, <2>5
<1> QED BY <1>3, <1>4, <1>5, <1>6, RecoveryCommits DEF TaskStep

LEMMA ReconcileTodo ==
  ASSUME LibraryInv, GoneOK, TodoOK, NEW u \in Uploads, Reconcile(u)
  PROVE  TodoOK' /\ ResumeOK'
<1>0. Queueing /\ TypeOK /\ Recovery \in Runners /\ row[u] \in Rows
  BY DEF Queueing, LibraryInv, TypeOK, Runners
<1>1. Visit(u) /\ row[u].state # "absent"
  BY DEF Reconcile, ReconcileSettled, ReconcileStaged, ReconcileVerified,
         ReconcileCommitted, ReconcileCancelled
<1>2. /\ task[Recovery] = IdleTask /\ mode' = mode /\ todo' = todo \ {u}
      /\ UNCHANGED <<chunks, staging, manifest>>
  BY <1>0, <1>1 DEF Visit, Queueing, ArgumentsOK, files
<1>3. ASSUME task'[Recovery].pc # "idle", task'[Recovery].upload = u,
             \A w \in Uploads \ {u} : row'[w] = row[w]
      PROVE  TodoOK'
  BY <1>2, <1>3 DEF TodoOK, Reconciled, IdleTask, Exists
<1>4. ASSUME NEW pc \in {"hash", "rehash", "adopt", "remove"}, ResumeAt(u, pc)
      PROVE  TodoOK' /\ ResumeOK'
  <2>1. task'[Recovery].pc = pc /\ task'[Recovery].upload = u /\ row' = row
    BY <1>0, <1>2, <1>4 DEF ResumeAt, TypeOK, IdleTask
  <2> QED BY <1>3, <2>1 DEF ResumeOK, Point
<1>5. ASSUME NEW state, NEW next \in {"idle", "adopt"}, SettleAs(u, state, next),
             next = "idle" => state \in Settled /\ (state \in {"ready", "cancelled"} =>
                                                      ~Exists(staging[u]))
      PROVE  TodoOK' /\ ResumeOK'
  <2>1. /\ task'[Recovery].pc = "mirror" /\ task'[Recovery].upload = u
        /\ task'[Recovery].next = next
        /\ task'[Recovery].image = [state |-> state, chunks |-> chunks[u]]
    BY <1>0, <1>2, <1>5 DEF SettleAs, TypeOK, IdleTask
  <2>2. row' = [row EXCEPT ![u].state = state]
    BY <1>5 DEF SettleAs
  <2>3. row'[u].state = state /\ \A w \in Uploads \ {u} : row'[w] = row[w]
    BY <1>0, <2>2 DEF TypeOK, Rows
  <2>4. ResumeOK'
    BY <1>2, <1>5, <2>1, <2>3 DEF ResumeOK, Point, Exists
  <2> QED BY <1>3, <2>1, <2>3, <2>4
<1>6. CASE ReconcileSettled(u)
  BY <1>5, <1>6 DEF ReconcileSettled, Settled, GoneOK
<1>7. CASE ReconcileVerified(u)
  BY <1>4, <1>5, <1>7 DEF ReconcileVerified, Settled
<1>8. CASE ReconcileStaged(u) \/ ReconcileCommitted(u) \/ ReconcileCancelled(u)
  BY <1>4, <1>8 DEF ReconcileStaged, ReconcileCommitted, ReconcileCancelled
<1> QED BY <1>6, <1>7, <1>8 DEF Reconcile

LEMMA TodoStep ==
  ASSUME LibraryInv, LibraryInv', GoneOK, TodoOK, ResumeOK, [Next]_vars
  PROVE  TodoOK' /\ ResumeOK'
<1>0. Recovery \in Runners
  BY DEF Runners
<1>1. ASSUME NEW t \in Runners, TaskStep(t) PROVE TodoOK' /\ ResumeOK'
  BY <1>1, RequestsServe, RecoverySteps DEF Runners
<1>2. ASSUME NEW t \in Runners, Fail(t) PROVE TodoOK' /\ ResumeOK'
  <2>1. CASE t = Recovery
    BY <1>2, <2>1, TodoElsewhere DEF Fail, Throw, Halt
  <2> QED BY <1>2, <2>1, RequestsServe DEF Runners
<1>3. CASE Stop \/ Serve
  BY <1>3, TodoElsewhere DEF Stop, Halt, Serve
<1>4. CASE UNCHANGED vars
  BY <1>0, <1>4, TodoStays DEF vars, database, files
<1>5. CASE Requests
  BY <1>5, TodoElsewhere DEF Requests, RequestCreate, RequestAppend, RequestComplete,
     RequestCancel, Enqueue
<1>6. CASE Start
  <2>1. /\ \A u \in Uploads \ todo' : row[u].state = "absent"
        /\ UNCHANGED <<row, chunks, staging, manifest, task>>
        /\ task[Recovery].pc = "idle"
    BY <1>6 DEF Start, database, files, LibraryInv, LanesOK
  <2> QED BY <2>1 DEF TodoOK, ResumeOK, Reconciled, Settled
<1> QED BY <1>1, <1>2, <1>3, <1>4, <1>5, <1>6, ReconcileTodo DEF Next, Recovering

\* Whenever the server begins to serve, every upload is settled, its manifest mirrors its
\* row, and no staging file is left of an upload that is done with it: whatever the stops,
\* failures and restarts before were.
THEOREM ServesOnlyReconciled == Spec => ServesReconciled
<1>1. Init => GoneOK /\ TodoOK /\ ResumeOK
  <2> SUFFICES ASSUME Init PROVE GoneOK /\ TodoOK /\ ResumeOK
    OBVIOUS
  <2>1. /\ \A u \in Uploads : row[u] = NoRow
        /\ \A t \in Runners : task[t] = IdleTask
        /\ Recovery \in Runners /\ mode = "down"
    BY DEF Init, Runners
  <2> QED BY <2>1 DEF GoneOK, TodoOK, ResumeOK, NoRow, IdleTask
<1>2. LibraryInv /\ GoneOK /\ [Next]_vars => GoneOK'
  BY GoneStep
<1>3. LibraryInv /\ LibraryInv' /\ GoneOK /\ TodoOK /\ ResumeOK /\ [Next]_vars
        => TodoOK' /\ ResumeOK'
  BY TodoStep
<1>4. LibraryInv /\ LibraryInv' /\ TodoOK /\ [Next]_vars
        => [mode = "recovering" /\ mode' = "serving" => \A u \in Uploads : Reconciled(u)]_vars
  <2> SUFFICES ASSUME LibraryInv, LibraryInv', TodoOK, Next, mode = "recovering",
                      mode' = "serving"
               PROVE  \A u \in Uploads : Reconciled(u)
    OBVIOUS
  <2>1. Serve
    <3>1. ASSUME NEW t \in Runners, TaskStep(t) \/ Fail(t) PROVE FALSE
      BY <3>1, TasksKeepMode
    <3> QED BY <3>1 DEF Next, Recovering, Start, Stop, Halt, Reconcile, ReconcileSettled,
           ReconcileStaged, ReconcileVerified, ReconcileCommitted, ReconcileCancelled, Visit,
           Requests, RequestCreate, RequestAppend, RequestComplete, RequestCancel, Enqueue
  <2> QED BY <2>1 DEF Serve, TodoOK
<1> QED BY <1>1, <1>2, <1>3, <1>4, LibraryInvariant, PTL DEF Spec, ServesReconciled

-----------------------------------------------------------------------------
(* The space of the volume *)

\* The bytes of transferring uploads, and those of them that staging does not hold yet.
Promised ==
  {p \in Uploads \X Offsets : row[p[1]].state = "transferring" /\ p[2] < row[p[1]].size}
Missing ==
  {p \in Uploads \X Offsets :
     /\ row[p[1]].state = "transferring" /\ p[2] < row[p[1]].size
     /\ Exists(staging[p[1]]) => staging[p[1]][p[2]] = Hole}

\* What is missing fits, also together with the upload of a creation that was admitted;
\* and a reservation that was read still covers what is missing.
SpaceOK ==
  /\ Cardinality(Missing) <= AvailableBytes
  /\ \A t \in Runners :
       /\ task[t].pc = "admit" => Cardinality(Promised) <= task[t].reserved
       /\ task[t].pc = "insert" => Cardinality(Missing) + task[t].arg.size <= AvailableBytes

LEMMA OffsetsFinite == IsFiniteSet(Offsets)
<1>1. 0 \in Int /\ MaxBytes - 1 \in Int
  BY ConstantsOK
<1> QED BY <1>1, FS_Interval DEF Offsets

LEMMA PairsFinite ==
  ASSUME NEW S, IsFiniteSet(S), NEW P \in SUBSET (S \X Offsets)
  PROVE  IsFiniteSet(P) /\ Cardinality(P) \in Nat
<1>1. IsFiniteSet(S \X Offsets)
  BY OffsetsFinite, FS_Product
<1>2. IsFiniteSet(P)
  BY <1>1, FS_Subset
<1> QED BY <1>2, FS_CardinalityType

LEMMA SpaceTyped ==
  /\ IsFiniteSet(Missing) /\ Cardinality(Missing) \in Nat
  /\ IsFiniteSet(Promised) /\ Cardinality(Promised) \in Nat
  /\ Missing \subseteq Promised
  /\ IsFiniteSet(BytesIn(Uploads, staging)) /\ Cardinality(BytesIn(Uploads, staging)) \in Nat
  /\ IsFiniteSet(BytesIn(Shas, blobFile)) /\ Cardinality(BytesIn(Shas, blobFile)) \in Nat
  /\ AvailableBytes \in Int
<1>1. IsFiniteSet(Uploads) /\ IsFiniteSet(Shas) /\ Capacity \in Nat
  BY ConstantsOK
<1>2. Missing \in SUBSET (Uploads \X Offsets) /\ Promised \in SUBSET (Uploads \X Offsets)
  BY DEF Missing, Promised
<1>3. /\ IsFiniteSet(Missing) /\ Cardinality(Missing) \in Nat
      /\ IsFiniteSet(Promised) /\ Cardinality(Promised) \in Nat
  BY <1>1, <1>2, PairsFinite
<1>4. Missing \subseteq Promised
  BY DEF Missing, Promised
<1>5. /\ BytesIn(Uploads, staging) \in SUBSET (Uploads \X Offsets)
      /\ BytesIn(Shas, blobFile) \in SUBSET (Shas \X Offsets)
  BY DEF BytesIn
<1>6. /\ IsFiniteSet(BytesIn(Uploads, staging)) /\ Cardinality(BytesIn(Uploads, staging)) \in Nat
      /\ IsFiniteSet(BytesIn(Shas, blobFile)) /\ Cardinality(BytesIn(Shas, blobFile)) \in Nat
  BY <1>1, <1>5, PairsFinite
<1>7. AvailableBytes \in Int
  BY <1>1, <1>6 DEF AvailableBytes
<1> QED BY <1>3, <1>4, <1>6, <1>7

\* Two sets of pairs with the same pairs.
LEMMA SamePairs ==
  ASSUME NEW S, NEW T, NEW P, NEW Q, P \subseteq S \X T, Q \subseteq S \X T,
         \A s \in S, x \in T : <<s, x>> \in P <=> <<s, x>> \in Q
  PROVE  P = Q
<1>1. ASSUME NEW e PROVE e \in P <=> e \in Q
  <2>1. CASE e \in S \X T
    <3>1. PICK s \in S, x \in T : e = <<s, x>>
      BY <2>1
    <3> QED BY <3>1
  <2>2. CASE e \notin S \X T
    BY <2>2
  <2> QED BY <2>1, <2>2
<1> QED BY <1>1

LEMMA SpaceStays ==
  ASSUME UNCHANGED <<staging, blobFile>>
  PROVE  AvailableBytes' = AvailableBytes
BY DEF AvailableBytes, BytesIn, Exists

\* A staging file goes away.
LEMMA SpaceFreed ==
  ASSUME TypeOK, NEW u \in Uploads, staging' = [staging EXCEPT ![u] = None],
         blobFile' = blobFile
  PROVE  AvailableBytes' >= AvailableBytes /\ AvailableBytes' \in Int
<1>1. BytesIn(Uploads, staging)' \subseteq BytesIn(Uploads, staging)
  BY DEF TypeOK, BytesIn, Exists
<1>2. Cardinality(BytesIn(Uploads, staging)') <= Cardinality(BytesIn(Uploads, staging))
  BY <1>1, SpaceTyped, FS_Subset
<1>3. BytesIn(Shas, blobFile)' = BytesIn(Shas, blobFile)
  BY DEF BytesIn, Exists
<1>4. Cardinality(BytesIn(Uploads, staging)') \in Nat
  <2>1. IsFiniteSet(BytesIn(Uploads, staging)')
    BY <1>1, SpaceTyped, FS_Subset
  <2> QED BY <2>1, FS_CardinalityType
<1> QED BY <1>2, <1>3, <1>4, SpaceTyped, ConstantsOK DEF AvailableBytes

LEMMA InsertSize ==
  ASSUME LibraryInv, NEW t \in Runners, task[t].pc \in {"admit", "insert"}
  PROVE  /\ Creates(t) /\ t \in Tasks /\ task[t].arg.size \in Nat
         /\ task[t].arg.sha \in Shas /\ task[t].arg.size \in 0 .. MaxBytes
<1>1. Creates(t) /\ t # Recovery
  BY DEF LibraryInv, PointOK, Point, Active, ArgumentsOK, Creates
<1> QED BY <1>1, ConstantsOK DEF LibraryInv, ArgumentsOK, Runners

\* Nothing is promised that was not, and no space goes.
LEMMA SpaceFrame ==
  ASSUME SpaceOK, NEW t \in Runners, \A s \in Runners \ {t} : task'[s] = task[s],
         task'[t].pc \notin {"admit", "insert"},
         AvailableBytes' >= AvailableBytes, AvailableBytes' \in Int,
         \A u \in Uploads : row'[u].state = "transferring" =>
           /\ row[u].state = "transferring" /\ row'[u].size = row[u].size
           /\ staging'[u] = staging[u],
         LibraryInv
  PROVE  SpaceOK'
<1>1. Missing' \subseteq Missing /\ Promised' \subseteq Promised
  <2>1. ASSUME NEW u \in Uploads, NEW o \in Offsets, <<u, o>> \in Missing'
        PROVE  <<u, o>> \in Missing
    BY <2>1 DEF Missing, Exists
  <2>2. ASSUME NEW u \in Uploads, NEW o \in Offsets, <<u, o>> \in Promised'
        PROVE  <<u, o>> \in Promised
    BY <2>2 DEF Promised
  <2>3. Missing' \subseteq Uploads \X Offsets /\ Promised' \subseteq Uploads \X Offsets
    BY DEF Missing, Promised
  <2> QED BY <2>1, <2>2, <2>3
<1>2. /\ IsFiniteSet(Missing') /\ Cardinality(Missing') <= Cardinality(Missing)
      /\ IsFiniteSet(Promised') /\ Cardinality(Promised') <= Cardinality(Promised)
  BY <1>1, SpaceTyped, FS_Subset
<1>3. Cardinality(Missing') \in Nat /\ Cardinality(Promised') \in Nat
  BY <1>2, FS_CardinalityType
<1>4. Cardinality(Missing') <= AvailableBytes'
  BY <1>2, <1>3, SpaceTyped DEF SpaceOK
<1>5. ASSUME NEW s \in Runners \ {t}, task[s].pc = "admit"
      PROVE  Cardinality(Promised') <= task[s].reserved
  <2>1. task[s].reserved \in Nat
    BY DEF LibraryInv, TypeOK, Locals
  <2> QED BY <1>2, <1>3, <1>5, <2>1, SpaceTyped DEF SpaceOK
<1>6. ASSUME NEW s \in Runners \ {t}, task[s].pc = "insert"
      PROVE  Cardinality(Missing') + task[s].arg.size <= AvailableBytes'
  <2>1. task[s].arg.size \in Nat
    BY <1>6, InsertSize
  <2> QED BY <1>2, <1>3, <1>6, <2>1, SpaceTyped DEF SpaceOK
<1> QED BY <1>4, <1>5, <1>6 DEF SpaceOK

\* Rows, staging files and blob files stay, and so does the space.
LEMMA SpaceQuiet ==
  ASSUME LibraryInv, SpaceOK, NEW t \in Runners, \A s \in Runners \ {t} : task'[s] = task[s],
         task'[t].pc \notin {"admit", "insert"}, UNCHANGED <<row, staging, blobFile>>
  PROVE  SpaceOK'
BY SpaceStays, SpaceTyped, SpaceFrame

LEMMA SpaceFinish ==
  ASSUME LibraryInv, SpaceOK, NEW t \in Runners, Finish(t), UNCHANGED <<row, staging, blobFile>>
  PROVE  SpaceOK'
<1>1. task'[t] = IdleTask /\ \A s \in Runners \ {t} : task'[s] = task[s]
  BY DEF LibraryInv, TypeOK, Finish
<1> QED BY <1>1, SpaceQuiet DEF IdleTask

LEMMA SpaceHalt ==
  ASSUME SpaceOK, Halt, UNCHANGED <<row, staging, blobFile>>
  PROVE  SpaceOK'
<1>1. Missing' = Missing
  BY DEF Missing, Exists
<1> QED BY <1>1, SpaceStays DEF SpaceOK, Halt, IdleTask

LEMMA SpaceThrow ==
  ASSUME LibraryInv, SpaceOK, NEW t \in Runners, Throw(t), UNCHANGED <<row, staging, blobFile>>
  PROVE  SpaceOK'
BY SpaceHalt, SpaceFinish DEF Throw

\* A row keeps its state or leaves transferring, and its task goes on to its manifest.
LEMMA SpaceMoves ==
  ASSUME LibraryInv, SpaceOK, NEW t \in Runners, \A s \in Runners \ {t} : task'[s] = task[s],
         task'[t].pc = "mirror", NEW u \in Uploads, NEW state,
         row' = [row EXCEPT ![u].state = state],
         state \in {row[u].state} \/ state # "transferring",
         UNCHANGED <<staging, blobFile>>
  PROVE  SpaceOK'
<1>1. /\ row'[u].state = state /\ row'[u].size = row[u].size
      /\ \A w \in Uploads \ {u} : row'[w] = row[w]
  BY DEF LibraryInv, TypeOK, Rows
<1> QED BY <1>1, SpaceStays, SpaceTyped, SpaceFrame

LEMMA SpaceCaptures ==
  ASSUME LibraryInv, SpaceOK, NEW t \in Runners, NEW u \in Uploads, NEW state, NEW next,
         row' = [row EXCEPT ![u].state = state], state # "transferring",
         Capture(t, u, state, chunks[u], next), UNCHANGED <<staging, blobFile>>
  PROVE  SpaceOK'
<1>1. task'[t].pc = "mirror" /\ \A s \in Runners \ {t} : task'[s] = task[s]
  BY ImageEffect DEF LibraryInv
<1> QED BY <1>1, SpaceMoves

\* Creations take their turns.
LEMMA OneCreation ==
  ASSUME LibraryInv, NEW s \in Runners, NEW t \in Runners, task[s].pc \in {"admit", "insert"},
         Creates(t), Active(t) \/ AtHead(t, "create") \/ AtHead(t, "createProject")
  PROVE  s = t
<1>1. s \in Tasks /\ Creates(s) /\ Active(s)
  BY InsertSize DEF Active
<1>2. t \in Tasks /\ task[t].pc # "idle"
  BY DEF AtHead, Active, LibraryInv, LanesOK, ArgumentsOK, Creates, Runners
<1>3. Lane(s) = Creation /\ Lane(t) = Creation
  BY <1>1 DEF Lane
<1>4. Head(queue[Lane(s)]) = s
  BY <1>1, Holding, ConstantsOK DEF LibraryInv, Active
<1>5. Head(queue[Lane(t)]) = t
  BY <1>2, Holding, ConstantsOK DEF LibraryInv, Active, AtHead
<1> QED BY <1>3, <1>4, <1>5

LEMMA SpaceCreating ==
  ASSUME LibraryInv, SpaceOK, NEW t \in Runners, Creating(t)
  PROVE  SpaceOK'
<1>0. TypeOK /\ PointOK(t) /\ Queueing
  BY DEF LibraryInv, Queueing
<1>1. CASE BeginCreate(t)
  <2>1. /\ task'[t] = [task[t] EXCEPT !.pc = "admit", !.reserved = ReservedBytes]
        /\ \A s \in Runners \ {t} : task'[s] = task[s]
    BY <1>0, <1>1 DEF BeginCreate, TypeOK
  <2>2. task'[t].pc = "admit" /\ task'[t].reserved = Cardinality(Promised)
    BY <1>0, <2>1 DEF TypeOK, Locals, ReservedBytes, Promised
  <2>3. /\ Missing' = Missing /\ Promised' = Promised /\ AvailableBytes' = AvailableBytes
    <3>1. UNCHANGED <<row, staging, blobFile>>
      BY <1>1 DEF BeginCreate, database, files
    <3>2. Missing' = Missing /\ Promised' = Promised
      BY <3>1 DEF Missing, Promised, Exists
    <3> QED BY <3>1, <3>2, SpaceStays
  <2>4. ASSUME NEW s \in Runners
        PROVE  /\ task'[s].pc = "admit" => Cardinality(Promised) <= task'[s].reserved
               /\ task'[s].pc = "insert"
                    => Cardinality(Missing) + task'[s].arg.size <= AvailableBytes
    <3>1. CASE s = t
      BY <2>2, <3>1, SpaceTyped
    <3>2. CASE s # t
      <4>1. task'[s] = task[s]
        BY <2>1, <3>2
      <4> QED BY <4>1 DEF SpaceOK
    <3> QED BY <3>1, <3>2
  <2>5. Cardinality(Missing) <= AvailableBytes
    BY DEF SpaceOK
  <2>6. Cardinality(Missing') <= AvailableBytes'
    BY <2>3, <2>5
  <2>7. ASSUME NEW s \in Runners
        PROVE  /\ task'[s].pc = "admit" => Cardinality(Promised') <= task'[s].reserved
               /\ task'[s].pc = "insert"
                    => Cardinality(Missing') + task'[s].arg.size <= AvailableBytes'
    BY <2>3, <2>4
  <2> QED BY <2>6, <2>7 DEF SpaceOK
<1>2. CASE RefuseCreation(t)
  BY <1>2, SpaceFinish DEF RefuseCreation, Answer, database, files
<1>3. ASSUME NEW u \in Uploads, AdmitCreation(t, u) PROVE SpaceOK'
  <2>1. /\ task'[t] = [task[t] EXCEPT !.pc = "insert", !.upload = u]
        /\ \A s \in Runners \ {t} : task'[s] = task[s]
        /\ row[u].state = "absent" /\ staging[u] = None /\ row' = row
        /\ staging'[u] = EmptyFile /\ \A w \in Uploads \ {u} : staging'[w] = staging[w]
        /\ blobFile' = blobFile
    BY <1>0, <1>3 DEF AdmitCreation, TypeOK, database, Unused
  <2>2. task'[t].pc = "insert" /\ task'[t].arg = task[t].arg
    BY <1>0, <2>1 DEF TypeOK, Locals
  <2>3. Missing' = Missing
    <3>1. ASSUME NEW w \in Uploads, NEW o \in Offsets
          PROVE  <<w, o>> \in Missing' <=> <<w, o>> \in Missing
      BY <2>1 DEF Missing, Exists
    <3>2. Missing' \subseteq Uploads \X Offsets /\ Missing \subseteq Uploads \X Offsets
      BY DEF Missing
    <3> QED BY <3>1, <3>2
  <2>4. Promised' = Promised
    BY <2>1 DEF Promised
  <2>5. AvailableBytes' = AvailableBytes
    <3>1. ASSUME NEW w \in Uploads, NEW o \in Offsets
          PROVE  <<w, o>> \in BytesIn(Uploads, staging)'
                   <=> <<w, o>> \in BytesIn(Uploads, staging)
      BY <2>1 DEF BytesIn, Exists, EmptyFile
    <3>2. /\ BytesIn(Uploads, staging)' \subseteq Uploads \X Offsets
          /\ BytesIn(Uploads, staging) \subseteq Uploads \X Offsets
      BY DEF BytesIn
    <3>3. BytesIn(Uploads, staging)' = BytesIn(Uploads, staging)
      BY <3>1, <3>2
    <3>4. BytesIn(Shas, blobFile)' = BytesIn(Shas, blobFile)
      BY <2>1 DEF BytesIn
    <3> QED BY <3>3, <3>4 DEF AvailableBytes
  <2>6. Cardinality(Missing) + task[t].arg.size <= AvailableBytes
    <3>1. Cardinality(Promised) <= task[t].reserved /\ task[t].reserved \in Nat
      BY <1>0, <1>3 DEF AdmitCreation, SpaceOK, TypeOK, Locals
    <3>2. Cardinality(Missing) <= Cardinality(Promised)
      BY SpaceTyped, FS_Subset
    <3>3. task[t].arg.size \in Nat /\ AvailableBytes - task[t].reserved >= task[t].arg.size
      BY <1>3, InsertSize DEF AdmitCreation, Admits
    <3> QED BY <3>1, <3>2, <3>3, SpaceTyped
  <2> QED BY <2>1, <2>2, <2>3, <2>4, <2>5, <2>6 DEF SpaceOK
<1>4. CASE InsertRow(t)
  <2>1. PICK u \in Uploads : u = task[t].upload
    BY <1>0, <1>4, Holding DEF InsertRow, Queueing
  <2>2. PICK size \in 0 .. MaxBytes : size = task[t].arg.size
    BY <1>4, InsertSize DEF InsertRow
  <2>3. /\ row'[u].size = size
        /\ \A w \in Uploads \ {u} : row'[w] = row[w]
        /\ UNCHANGED <<staging, blobFile>>
    BY <1>0, <1>4, <2>1, <2>2 DEF InsertRow, TypeOK, files
  <2>4. task'[t].pc = "mirror" /\ \A s \in Runners \ {t} : task'[s] = task[s]
    BY <1>0, <1>4, <2>1, ImageEffect DEF InsertRow
  <2>5. \A s \in Runners \ {t} : task[s].pc \notin {"admit", "insert"}
    BY <1>4, InsertSize, OneCreation DEF InsertRow, Active
  <2>6. Cardinality(Missing') <= Cardinality(Missing) + size /\ Cardinality(Missing') \in Nat
    <3>0. size \in Nat /\ 0 \in Int /\ size - 1 \in Int
      BY ConstantsOK
    <3>1. Missing' \subseteq Missing \union ({u} \X (0 .. size - 1))
      <4>1. ASSUME NEW w \in Uploads, NEW o \in Offsets, <<w, o>> \in Missing'
            PROVE  <<w, o>> \in Missing \union ({u} \X (0 .. size - 1))
        <5>1. CASE w # u
          BY <2>3, <4>1, <5>1 DEF Missing, Exists
        <5>2. CASE w = u
          <6>1. o < size /\ o \in Nat
            BY <2>3, <4>1, <5>2, ConstantsOK DEF Missing, Offsets
          <6> QED BY <3>0, <5>2, <6>1
        <5> QED BY <5>1, <5>2
      <4>2. Missing' \subseteq Uploads \X Offsets
        BY DEF Missing
      <4> QED BY <4>1, <4>2
    <3>2. IsFiniteSet(0 .. size - 1) /\ Cardinality(0 .. size - 1) = size
      BY <3>0, FS_Interval
    <3>3. IsFiniteSet({u}) /\ Cardinality({u}) = 1
      BY FS_Singleton
    <3>4. /\ IsFiniteSet({u} \X (0 .. size - 1))
          /\ Cardinality({u} \X (0 .. size - 1)) = 1 * size
      BY <3>2, <3>3, FS_Product
    <3>5. /\ IsFiniteSet(Missing \union ({u} \X (0 .. size - 1)))
          /\ Cardinality(Missing \union ({u} \X (0 .. size - 1)))
               = Cardinality(Missing) + Cardinality({u} \X (0 .. size - 1))
                 - Cardinality(Missing \intersect ({u} \X (0 .. size - 1)))
      BY <3>4, SpaceTyped, FS_Union
    <3>6. Cardinality(Missing \intersect ({u} \X (0 .. size - 1))) \in Nat
      BY SpaceTyped, FS_Intersection, FS_CardinalityType
    <3>7. /\ Cardinality(Missing') <= Cardinality(Missing \union ({u} \X (0 .. size - 1)))
          /\ IsFiniteSet(Missing')
      BY <3>1, <3>5, FS_Subset
    <3>8. Cardinality(Missing') \in Nat
      BY <3>7, FS_CardinalityType
    <3> QED BY <3>0, <3>4, <3>5, <3>6, <3>7, <3>8, SpaceTyped
  <2>7. Cardinality(Missing) + size <= AvailableBytes
    BY <1>4, <2>2 DEF InsertRow, SpaceOK
  <2>8. Cardinality(Missing') <= AvailableBytes'
    <3>1. AvailableBytes' = AvailableBytes /\ size \in Nat
      BY <2>3, SpaceStays, ConstantsOK
    <3> QED BY <2>6, <2>7, <3>1, SpaceTyped
  <2> QED BY <2>4, <2>5, <2>8 DEF SpaceOK
<1>5. CASE BindUpload(t)
  BY <1>5, SpaceFinish DEF BindUpload, files
<1> QED BY <1>1, <1>2, <1>3, <1>4, <1>5 DEF Creating

\* A byte is written: what was missing is now in its file.
LEMMA SpaceWriting ==
  ASSUME LibraryInv, BytesInv, SpaceOK, NEW t \in Runners, WriteByte(t)
  PROVE  SpaceOK'
<1>0. TypeOK /\ PointOK(t) /\ Queueing
  BY DEF LibraryInv, Queueing
<1>1. PICK u \in Uploads, p \in Packets : u = task[t].upload /\ p = task[t].arg
  BY ChunkInHand DEF WriteByte, LibraryInv, PointOK, Point, Active
<1>2. /\ row[u].state = "transferring" /\ Exists(staging[u]) /\ staging[u] \in Contents
      /\ row' = row /\ blobFile' = blobFile
  BY <1>0, <1>1 DEF WriteByte, PointOK, Point, Active, database, LibraryInv, NothingLost,
                    TypeOK, Exists
<1>3. /\ p.offset \in Nat /\ p.size \in 1 .. MaxBytes /\ p.data \in Shas
      /\ NewChunk(u, p) /\ task[t].written \in Nat /\ task[t].written < p.size
  BY <1>0, <1>1, ConstantsOK DEF WriteByte, BytesInv, WritesOK, TypeOK, Locals
<1>4. PICK at \in Offsets : at = p.offset + task[t].written
  <2>1. RangeOf(p) \subseteq Offsets
    BY <1>0, <1>3, PacketFits DEF NewChunk, Fits
  <2>2. p.offset + task[t].written \in RangeOf(p)
    BY <1>3 DEF RangeOf
  <2> QED BY <2>1, <2>2
<1>5. /\ staging'[u] = [staging[u] EXCEPT ![at] = p.data]
      /\ \A w \in Uploads \ {u} : staging'[w] = staging[w]
  BY <1>0, <1>1, <1>4 DEF WriteByte, TypeOK
<1>6. PICK pc \in {"write", "persist"} :
        /\ task'[t] = [task[t] EXCEPT !.written = task[t].written + 1, !.pc = pc]
        /\ \A s \in Runners \ {t} : task'[s] = task[s]
  BY <1>0 DEF WriteByte, TypeOK
<1>7. task'[t].pc = pc
  BY <1>0, <1>6 DEF TypeOK, Locals
<1>8. at < row[u].size
  <2>1. p.offset + p.size <= row[u].size /\ row[u].size \in Nat
    BY <1>0, <1>3, ConstantsOK DEF NewChunk, Fits, TypeOK, Rows
  <2> QED BY <1>3, <1>4, <2>1
<1>9. /\ staging'[u] # None /\ staging'[u][at] = p.data /\ p.data # Hole
      /\ \A o \in Offsets \ {at} : staging'[u][o] = staging[u][o]
  <2>1. staging'[u] \in Contents
    BY <1>2, <1>3, <1>5 DEF Contents
  <2> QED BY <1>2, <1>3, <1>4, <1>5, <2>1, ConstantsOK DEF Contents
<1>10. ASSUME NEW w \in Uploads, NEW o \in Offsets
       PROVE  /\ <<w, o>> \in Missing' <=> <<w, o>> \in Missing \ {<<u, at>>}
              /\ <<w, o>> \in BytesIn(Uploads, staging)'
                   <=> <<w, o>> \in BytesIn(Uploads, staging) \union {<<u, at>>}
  <2>1. CASE w # u
    <3>1. staging'[w] = staging[w] /\ row'[w] = row[w] /\ <<w, o>> # <<u, at>>
      BY <1>2, <1>5, <2>1
    <3> QED BY <3>1 DEF Missing, BytesIn, Exists
  <2>2. CASE w = u /\ o # at
    <3>1. /\ staging'[w][o] = staging[w][o] /\ row'[w] = row[w] /\ <<w, o>> # <<u, at>>
          /\ staging'[w] # None /\ staging[w] # None
      BY <1>2, <1>9, <2>2 DEF Exists
    <3> QED BY <3>1 DEF Missing, BytesIn, Exists
  <2>3. CASE w = u /\ o = at
    <3>1. staging'[w][o] # Hole /\ staging'[w] # None /\ <<w, o>> = <<u, at>>
      BY <1>9, <2>3
    <3> QED BY <3>1 DEF Missing, BytesIn, Exists
  <2> QED BY <2>1, <2>2, <2>3
<1>11. /\ Missing' \subseteq Uploads \X Offsets /\ Missing \subseteq Uploads \X Offsets
       /\ BytesIn(Uploads, staging) \subseteq Uploads \X Offsets
       /\ BytesIn(Uploads, staging)' \subseteq Uploads \X Offsets
  BY DEF Missing, BytesIn
<1>12. /\ Missing' = Missing \ {<<u, at>>}
       /\ BytesIn(Uploads, staging)' = BytesIn(Uploads, staging) \union {<<u, at>>}
  <2>1. /\ Missing \ {<<u, at>>} \subseteq Uploads \X Offsets
        /\ BytesIn(Uploads, staging) \union {<<u, at>>} \subseteq Uploads \X Offsets
    BY <1>11
  <2> QED BY <1>10, <1>11, <2>1, SamePairs
<1>13. <<u, at>> \in Missing <=> <<u, at>> \notin BytesIn(Uploads, staging)
  BY <1>2, <1>8 DEF Missing, BytesIn, Exists
<1>14. Cardinality(Missing') =
         IF <<u, at>> \in Missing THEN Cardinality(Missing) - 1 ELSE Cardinality(Missing)
  BY <1>12, SpaceTyped, FS_RemoveElement
<1>15. Cardinality(BytesIn(Uploads, staging)') =
         IF <<u, at>> \in BytesIn(Uploads, staging) THEN Cardinality(BytesIn(Uploads, staging))
         ELSE Cardinality(BytesIn(Uploads, staging)) + 1
  BY <1>12, SpaceTyped, FS_AddElement
<1>16. BytesIn(Shas, blobFile)' = BytesIn(Shas, blobFile)
  BY <1>2 DEF BytesIn
<1>17. \/ Cardinality(Missing') = Cardinality(Missing) /\ AvailableBytes' = AvailableBytes
       \/ /\ Cardinality(Missing') = Cardinality(Missing) - 1
          /\ AvailableBytes' = AvailableBytes - 1
  <2>1. Capacity \in Int
    BY ConstantsOK
  <2> QED BY <1>13, <1>14, <1>15, <1>16, <2>1, SpaceTyped DEF AvailableBytes
<1>18. Promised' = Promised
  BY <1>2 DEF Promised
<1>19. Cardinality(Missing') <= AvailableBytes'
  BY <1>17, SpaceTyped DEF SpaceOK
<1>20. ASSUME NEW s \in Runners \ {t}, task[s].pc = "insert"
       PROVE  Cardinality(Missing') + task[s].arg.size <= AvailableBytes'
  <2>1. task[s].arg.size \in Nat
    BY <1>20, InsertSize
  <2> QED BY <1>17, <1>20, <2>1, SpaceTyped DEF SpaceOK
<1> QED BY <1>6, <1>7, <1>18, <1>19, <1>20 DEF SpaceOK

LEMMA SpaceAppending ==
  ASSUME LibraryInv, BytesInv, SpaceOK, NEW t \in Runners, Appending(t)
  PROVE  SpaceOK'
<1>0. TypeOK /\ PointOK(t) /\ Queueing
  BY DEF LibraryInv, Queueing
<1>1. CASE AnswerAppend(t)
  BY <1>1, SpaceFinish DEF AnswerAppend, Answer, database, files
<1>2. CASE BeginAppend(t)
  BY <1>0, <1>2, GotoBytes, SpaceQuiet DEF BeginAppend, database, files
<1>3. CASE PersistChunk(t)
  <2>1. PICK u \in Uploads : u = task[t].upload
    BY <1>0, <1>3, Holding DEF PersistChunk, PointOK, Point, Active, Queueing, Creates
  <2>2. /\ task'[t].pc = "mirror" /\ \A s \in Runners \ {t} : task'[s] = task[s]
        /\ UNCHANGED <<staging, blobFile>>
    BY <1>0, <1>3, <2>1, ImageEffect DEF PersistChunk, files
  <2>3. row' = [row EXCEPT ![u] = [@ EXCEPT !.ackEpoch = row[u].ackEpoch + 1,
                                            !.received = row[u].received + task[t].arg.size]]
    BY <1>3, <2>1 DEF PersistChunk
  <2>4. \A w \in Uploads : row'[w].state = row[w].state /\ row'[w].size = row[w].size
    BY <1>0, <2>3 DEF TypeOK, Rows
  <2> QED BY <2>2, <2>4, SpaceStays, SpaceTyped, SpaceFrame
<1> QED BY <1>1, <1>2, <1>3, SpaceWriting DEF Appending

\* A staging file becomes a blob file, in place of one that may be there.
LEMMA SpaceMoved ==
  ASSUME TypeOK, NEW u \in Uploads, NEW h \in Shas,
         staging' = [staging EXCEPT ![u] = None],
         blobFile' = [blobFile EXCEPT ![h] = staging[u]], Exists(staging[u])
  PROVE  AvailableBytes' >= AvailableBytes /\ AvailableBytes' \in Int
<1> DEFINE X == {o \in Offsets : staging[u][o] # Hole}
           BU == BytesIn(Uploads, staging)
           BS == BytesIn(Shas, blobFile)
<1>1. /\ staging'[u] = None /\ \A w \in Uploads \ {u} : staging'[w] = staging[w]
      /\ blobFile'[h] = staging[u] /\ \A g \in Shas \ {h} : blobFile'[g] = blobFile[g]
  BY DEF TypeOK
<1>2. BytesIn(Uploads, staging)' = BU \ ({u} \X X)
  <2>1. ASSUME NEW w \in Uploads, NEW o \in Offsets
        PROVE  <<w, o>> \in BytesIn(Uploads, staging)' <=> <<w, o>> \in BU \ ({u} \X X)
    BY <1>1 DEF BytesIn, Exists
  <2>2. BytesIn(Uploads, staging)' \subseteq Uploads \X Offsets /\ BU \subseteq Uploads \X Offsets
    BY DEF BytesIn
  <2>3. PICK B, R : B = BytesIn(Uploads, staging)' /\ R = BU \ ({u} \X X)
    OBVIOUS
  <2>4. R \subseteq BU
    BY <2>3
  <2>5. B \subseteq Uploads \X Offsets /\ R \subseteq Uploads \X Offsets
    BY <2>2, <2>3, <2>4
  <2>6. ASSUME NEW w \in Uploads, NEW o \in Offsets PROVE <<w, o>> \in B <=> <<w, o>> \in R
    BY <2>1, <2>3
  <2>7. B = R
    BY <2>5, <2>6, SamePairs
  <2> QED BY <2>3, <2>7
<1>3. BytesIn(Shas, blobFile)' \subseteq BS \union ({h} \X X)
  <2>1. ASSUME NEW g \in Shas, NEW o \in Offsets, <<g, o>> \in BytesIn(Shas, blobFile)'
        PROVE  <<g, o>> \in BS \union ({h} \X X)
    BY <1>1, <2>1 DEF BytesIn, Exists
  <2>2. BytesIn(Shas, blobFile)' \subseteq Shas \X Offsets
    BY DEF BytesIn
  <2>3. PICK B, R : B = BytesIn(Shas, blobFile)' /\ R = BS \union ({h} \X X)
    OBVIOUS
  <2>4. ASSUME NEW e \in B PROVE e \in R
    <3>1. B \subseteq Shas \X Offsets
      BY <2>2, <2>3, Zenon
    <3>2. PICK g \in Shas, o \in Offsets : e = <<g, o>>
      BY <2>4, <3>1
    <3> QED BY <2>1, <2>3, <2>4, <3>2
  <2>5. B \subseteq R
    BY <2>4
  <2> QED BY <2>3, <2>5
<1>4. {u} \X X \subseteq BU
  BY DEF BytesIn
<1>5. IsFiniteSet(X) /\ Cardinality(X) \in Nat
  BY OffsetsFinite, FS_Subset, FS_CardinalityType
<1>6. /\ IsFiniteSet({u} \X X) /\ Cardinality({u} \X X) = Cardinality(X)
      /\ IsFiniteSet({h} \X X) /\ Cardinality({h} \X X) = Cardinality(X)
  <2>1. /\ IsFiniteSet({u}) /\ Cardinality({u}) = 1
        /\ IsFiniteSet({h}) /\ Cardinality({h}) = 1
    BY FS_Singleton
  <2>2. /\ IsFiniteSet({u} \X X) /\ Cardinality({u} \X X) = 1 * Cardinality(X)
        /\ IsFiniteSet({h} \X X) /\ Cardinality({h} \X X) = 1 * Cardinality(X)
    BY <1>5, <2>1, FS_Product
  <2> QED BY <1>5, <2>2
<1> HIDE DEF X, BU, BS
<1>7. /\ IsFiniteSet(BU) /\ Cardinality(BU) \in Nat
      /\ IsFiniteSet(BS) /\ Cardinality(BS) \in Nat
  BY SpaceTyped DEF BU, BS
<1>8. Cardinality(BU \ ({u} \X X)) = Cardinality(BU) - Cardinality(X)
  <2>1. Cardinality(BU \ ({u} \X X)) = Cardinality(BU) - Cardinality(BU \intersect ({u} \X X))
    BY <1>7, FS_Difference
  <2>2. BU \intersect ({u} \X X) = {u} \X X
    BY <1>4
  <2> QED BY <1>6, <2>1, <2>2
<1>9. Cardinality(BytesIn(Shas, blobFile)') <= Cardinality(BS) + Cardinality(X)
      /\ Cardinality(BytesIn(Shas, blobFile)') \in Nat
  <2>1. /\ IsFiniteSet(BS \union ({h} \X X))
        /\ Cardinality(BS \union ({h} \X X))
             = Cardinality(BS) + Cardinality({h} \X X) - Cardinality(BS \intersect ({h} \X X))
    BY <1>6, <1>7, FS_Union
  <2>2. Cardinality(BS \intersect ({h} \X X)) \in Nat
    BY <1>7, FS_Intersection, FS_CardinalityType
  <2>3. /\ IsFiniteSet(BytesIn(Shas, blobFile)')
        /\ Cardinality(BytesIn(Shas, blobFile)') <= Cardinality(BS \union ({h} \X X))
    BY <1>3, <2>1, FS_Subset
  <2>4. Cardinality(BytesIn(Shas, blobFile)') \in Nat
    BY <2>3, FS_CardinalityType
  <2> QED BY <1>5, <1>6, <1>7, <2>1, <2>2, <2>3, <2>4
<1>10. /\ AvailableBytes = Capacity - Cardinality(BU) - Cardinality(BS)
       /\ AvailableBytes' = Capacity - (Cardinality(BU) - Cardinality(X))
                              - Cardinality(BytesIn(Shas, blobFile)')
  BY <1>2, <1>8 DEF AvailableBytes, BU, BS
<1>11. Capacity \in Nat
  BY ConstantsOK
<1> QED BY <1>5, <1>7, <1>9, <1>10, <1>11

LEMMA SpaceCommitting ==
  ASSUME LibraryInv, SpaceOK, NEW t \in Runners, Committing(t)
  PROVE  SpaceOK'
<1>0. Queueing /\ TypeOK /\ PointOK(t)
  BY DEF Queueing, LibraryInv
<1>1. PICK u : u = task[t].upload
  OBVIOUS
<1>2. ASSUME task[t].pc \in {"hash", "rehash", "find", "reuse", "move", "commit", "adopt",
                              "verify", "reference"}
      PROVE  /\ u \in Uploads /\ Active(t) /\ Point(t) = task[t].pc
             /\ row[u].state \in {"staged", "hash_verified", "committed"}
             /\ ShaOf(t) = row[u].sha /\ row[u].sha \in Shas
  <2>1. Active(t) /\ u \in Uploads /\ Point(t) = task[t].pc
    BY <1>0, <1>1, <1>2, Holding DEF Active, Point, Queueing
  <2>2. row[u].state \in {"staged", "hash_verified", "committed"}
    BY <1>0, <1>1, <1>2, <2>1 DEF PointOK
  <2> QED BY <1>1, <2>1, <2>2 DEF LibraryInv, RowsOK, ShaOf
<1>3. ASSUME u \in Uploads, NEW state, state # "transferring", NEW next, Mark(t, u, state, next)
      PROVE  SpaceOK'
  BY <1>3, SpaceCaptures DEF Mark, files
<1>4. CASE AnswerComplete(t)
  BY <1>4, SpaceFinish DEF AnswerComplete, Answer, database, files
<1>5. CASE BeginComplete(t)
  <2>1. u \in Uploads
    BY <1>0, <1>1, <1>5, AtHeadHolds DEF BeginComplete, AtHead, Queueing
  <2> QED BY <1>1, <1>3, <1>5, <2>1 DEF BeginComplete
<1>6. CASE HashStaging(t)
  BY <1>1, <1>2, <1>3, <1>6 DEF HashStaging, MarkRecoverableError
<1>7. CASE RehashStaging(t) \/ VerifyBlob(t)
  <2>1. ASSUME NEW pc \in {"find", "reference"}, Goto(t, pc), UNCHANGED <<database, files>>
        PROVE  SpaceOK'
    BY <1>0, <2>1, GotoBytes, SpaceQuiet DEF database, files
  <2> QED BY <1>1, <1>2, <1>3, <1>7, <2>1 DEF RehashStaging, VerifyBlob, MarkRecoverableError
<1>8. CASE FindBlob(t) \/ AdoptBlob(t)
  <2>1. PICK pc \in {"reuse", "move", "verify"}, b \in BOOLEAN :
          /\ task'[t] = [task[t] EXCEPT !.createBlob = b, !.pc = pc]
          /\ \A s \in Runners \ {t} : task'[s] = task[s]
    BY <1>0, <1>8 DEF FindBlob, AdoptBlob, TypeOK
  <2>2. task'[t].pc = pc
    BY <1>0, <2>1 DEF TypeOK, Locals
  <2> QED BY <1>8, <2>1, <2>2, SpaceQuiet DEF FindBlob, AdoptBlob, database, files
<1>9. CASE ReuseBlob(t) \/ MoveToBlob(t)
  <2>1. /\ u \in Uploads /\ row[u].state = "hash_verified"
        /\ ShaOf(t) = row[u].sha /\ row[u].sha \in Shas
    BY <1>0, <1>1, <1>2, <1>9 DEF ReuseBlob, MoveToBlob, PointOK
  <2>2. CASE /\ staging' = [staging EXCEPT ![u] = None] /\ Goto(t, "commit") /\ row' = row
             /\ \/ blobFile' = blobFile
                \/ /\ blobFile' = [blobFile EXCEPT ![row[u].sha] = staging[u]]
                   /\ Exists(staging[u])
    <3>1. task'[t].pc = "commit" /\ \A s \in Runners \ {t} : task'[s] = task[s]
      BY <1>0, <2>2, GotoBytes
    <3>2. AvailableBytes' >= AvailableBytes /\ AvailableBytes' \in Int
      <4>1. CASE blobFile' = blobFile
        BY <1>0, <2>1, <2>2, <4>1, SpaceFreed
      <4>2. CASE blobFile' = [blobFile EXCEPT ![row[u].sha] = staging[u]] /\ Exists(staging[u])
        <5>1. PICK h \in Shas : h = row[u].sha
          BY <2>1
        <5> QED BY <1>0, <2>1, <2>2, <4>2, <5>1, SpaceMoved
      <4> QED BY <2>2, <4>1, <4>2
    <3>3. \A w \in Uploads \ {u} : staging'[w] = staging[w]
      BY <1>0, <2>2 DEF TypeOK
    <3> QED BY <2>1, <2>2, <3>1, <3>2, <3>3, SpaceFrame
  <2> QED BY <1>1, <1>3, <1>9, <2>1, <2>2
          DEF ReuseBlob, MoveToBlob, MarkRecoverableError, database
<1>10. CASE MarkCommitted(t)
  BY <1>1, <1>2, <1>3, <1>10 DEF MarkCommitted
<1>11. CASE CreateReference(t)
  <2>1. u \in Uploads
    BY <1>2, <1>11 DEF CreateReference
  <2>2. CASE Conflicts(t)
    BY <1>11, <2>2, SpaceThrow DEF CreateReference, files
  <2>3. CASE ~Conflicts(t)
    <3>1. /\ row' = [row EXCEPT ![u].state = "ready"] /\ Capture(t, u, "ready", chunks[u], "idle")
          /\ UNCHANGED <<staging, blobFile>>
      BY <1>1, <1>11, <2>3 DEF CreateReference, files
    <3> QED BY <2>1, <3>1, SpaceCaptures
  <2> QED BY <2>2, <2>3
<1> QED BY <1>4, <1>5, <1>6, <1>7, <1>8, <1>9, <1>10, <1>11 DEF Committing

LEMMA SpaceCancelling ==
  ASSUME LibraryInv, SpaceOK, NEW t \in Runners, Cancelling(t)
  PROVE  SpaceOK'
<1>0. Queueing /\ TypeOK /\ PointOK(t)
  BY DEF Queueing, LibraryInv
<1>1. CASE AnswerCancel(t)
  BY <1>1, SpaceFinish DEF AnswerCancel, Answer, database, files
<1>2. CASE BeginCancel(t)
  <2>1. PICK u \in Uploads : u = task[t].upload
    BY <1>0, <1>2, AtHeadHolds DEF BeginCancel, AtHead, Queueing
  <2>2. /\ row' = [row EXCEPT ![u].state = "cancelled"] /\ UNCHANGED <<staging, blobFile>>
        /\ Capture(t, u, "cancelled", chunks[u], "remove")
    BY <1>2, <2>1 DEF BeginCancel, Mark, files
  <2> QED BY <2>2, SpaceCaptures
<1>3. CASE RemoveStaging(t)
  <2>1. PICK u \in Uploads : u = task[t].upload /\ row[u].state = "cancelled"
    BY <1>0, <1>3, Holding DEF RemoveStaging, Queueing, PointOK, Point, Active
  <2>2. /\ row' = row /\ blobFile' = blobFile /\ staging' = [staging EXCEPT ![u] = None]
        /\ \A w \in Uploads \ {u} : staging'[w] = staging[w]
    BY <1>0, <1>3, <2>1 DEF RemoveStaging, TypeOK, database
  <2>3. /\ task'[t].pc \notin {"admit", "insert"}
        /\ \A s \in Runners \ {t} : task'[s] = task[s]
    <3>1. CASE t = Recovery
      <4>1. Capture(t, u, row[u].state, chunks[u], "idle")
        BY <1>3, <2>1, <3>1 DEF RemoveStaging
      <4>2. /\ task'[t].pc = "mirror" /\ \A s \in Runners \ {t} : task'[s] = task[s]
        BY <1>0, <4>1, ImageEffect
      <4> QED BY <4>2
    <3>2. CASE t # Recovery
      BY <1>0, <1>3, <3>2 DEF RemoveStaging, Finish, TypeOK, IdleTask
    <3> QED BY <3>1, <3>2
  <2>4. AvailableBytes' >= AvailableBytes /\ AvailableBytes' \in Int
    BY <1>0, <2>2, SpaceFreed
  <2> QED BY <2>1, <2>2, <2>3, <2>4, SpaceFrame
<1> QED BY <1>1, <1>2, <1>3 DEF Cancelling

LEMMA SpaceReconcile ==
  ASSUME LibraryInv, SpaceOK, NEW u \in Uploads, Reconcile(u)
  PROVE  SpaceOK'
<1>0. Queueing /\ TypeOK /\ Recovery \in Runners
  BY DEF Queueing, LibraryInv, TypeOK, Runners
<1>1. Visit(u) /\ UNCHANGED <<staging, blobFile>>
  BY DEF Reconcile, ReconcileSettled, ReconcileStaged, ReconcileVerified,
         ReconcileCommitted, ReconcileCancelled, Visit, files
<1>2. task[Recovery] = IdleTask
  BY <1>0, <1>1 DEF Visit, Queueing, ArgumentsOK
<1>3. ASSUME NEW pc \in {"hash", "rehash", "adopt", "remove"}, ResumeAt(u, pc)
      PROVE  SpaceOK'
  <2>1. task'[Recovery].pc = pc /\ \A s \in Runners \ {Recovery} : task'[s] = task[s]
    BY <1>0, <1>2, <1>3 DEF ResumeAt, TypeOK, IdleTask
  <2> QED BY <1>0, <1>1, <1>3, <2>1, SpaceQuiet DEF ResumeAt
<1>4. ASSUME NEW state, NEW next, SettleAs(u, state, next),
             state \in {row[u].state} \/ state # "transferring"
      PROVE  SpaceOK'
  <2>1. task'[Recovery].pc = "mirror" /\ \A s \in Runners \ {Recovery} : task'[s] = task[s]
    BY <1>0, <1>2, <1>4 DEF SettleAs, TypeOK, IdleTask
  <2> QED BY <1>0, <1>1, <1>4, <2>1, SpaceMoves DEF SettleAs
<1>5. CASE ReconcileSettled(u)
  BY <1>4, <1>5 DEF ReconcileSettled
<1>6. CASE ReconcileVerified(u)
  BY <1>3, <1>4, <1>6 DEF ReconcileVerified
<1>7. CASE ReconcileStaged(u) \/ ReconcileCommitted(u) \/ ReconcileCancelled(u)
  BY <1>3, <1>7 DEF ReconcileStaged, ReconcileCommitted, ReconcileCancelled
<1> QED BY <1>5, <1>6, <1>7 DEF Reconcile

LEMMA SpaceStep ==
  ASSUME LibraryInv, BytesInv, SpaceOK, [Next]_vars
  PROVE  SpaceOK'
<1>0. TypeOK
  BY DEF LibraryInv
<1>1. ASSUME NEW t \in Runners, LandManifest(t) PROVE SpaceOK'
  <2>1. UNCHANGED <<row, staging, blobFile>>
    BY <1>1 DEF LandManifest, database
  <2>2. CASE task[t].next = "idle"
    BY <1>1, <2>1, <2>2, SpaceFinish DEF LandManifest
  <2>3. CASE task[t].next # "idle"
    <3>1. Goto(t, task[t].next) /\ task[t].next \notin {"admit", "insert"}
      BY <1>1, <2>3 DEF LandManifest, LibraryInv, PointOK, Point, Active
    <3> QED BY <1>0, <2>1, <3>1, GotoBytes, SpaceQuiet
  <2> QED BY <2>2, <2>3
<1>2. ASSUME NEW t \in Runners, Fail(t) PROVE SpaceOK'
  BY <1>2, SpaceThrow DEF Fail, database, files
<1>3. CASE Stop
  BY <1>3, SpaceHalt DEF Stop, database, files
<1>4. CASE Start \/ Serve \/ UNCHANGED vars
  <2>1. UNCHANGED <<row, staging, blobFile, task>>
    BY <1>4 DEF Start, Serve, vars, database, files
  <2>2. Missing' = Missing /\ Promised' = Promised
    BY <2>1 DEF Missing, Promised, Exists
  <2> QED BY <2>1, <2>2, SpaceStays DEF SpaceOK
<1>5. CASE Requests
  <2>1. PICK t \in Tasks, op \in Operations, u \in Uploads \union {None},
             arg \in Declared \union Packets \union {None} : Enqueue(t, op, u, arg)
    BY <1>5 DEF Operations, Requests, RequestCreate, RequestAppend, RequestComplete,
                RequestCancel
  <2>2. t \in Runners /\ UNCHANGED <<row, staging, blobFile>>
    BY <2>1 DEF Enqueue, database, files, Runners
  <2>3. task'[t].pc = "queued" /\ \A s \in Runners \ {t} : task'[s] = task[s]
    BY <1>0, <2>1, <2>2 DEF Enqueue, TypeOK, IdleTask
  <2> QED BY <2>2, <2>3, SpaceQuiet
<1> QED BY <1>1, <1>2, <1>3, <1>4, <1>5, SpaceCreating, SpaceAppending, SpaceCommitting,
           SpaceCancelling, SpaceReconcile DEF Next, TaskStep, Recovering

\* The volume always holds what the admitted uploads have still to send, whatever
\* creations, chunks, commits, cancellations and restarts interleave.
THEOREM NeverOvercommitted == Spec => []NoOvercommit
<1>1. Init => SpaceOK
  <2> SUFFICES ASSUME Init PROVE SpaceOK
    OBVIOUS
  <2>1. Missing = {} /\ BytesIn(Uploads, staging) = {} /\ BytesIn(Shas, blobFile) = {}
    <3>1. /\ \A u \in Uploads : row[u].state = "absent" /\ staging[u] = None
          /\ \A h \in Shas : blobFile[h] = None
      BY DEF Init, NoRow
    <3> QED BY <3>1 DEF Missing, BytesIn, Exists
  <2>2. Cardinality({}) = 0 /\ Capacity \in Nat
    BY FS_EmptySet, ConstantsOK
  <2>3. Cardinality(Missing) <= AvailableBytes
    BY <2>1, <2>2 DEF AvailableBytes
  <2> QED BY <2>3 DEF SpaceOK, Init, IdleTask
<1>2. LibraryInv /\ BytesInv /\ SpaceOK /\ [Next]_vars => SpaceOK'
  BY SpaceStep
<1>3. SpaceOK => NoOvercommit
  BY DEF SpaceOK, Missing, NoOvercommit
<1> QED BY <1>1, <1>2, <1>3, LibraryInvariant, BytesInvariant, PTL DEF Spec

-----------------------------------------------------------------------------
(* Rows and chunks only move forward *)

\* The three ways in which a row changes: it is inserted, it takes a chunk, or it takes
\* the next state of its path.
Registers(u) ==
  /\ row[u].state = "absent" /\ chunks' = chunks
  /\ \E h \in Shas, n \in 1 .. MaxBytes :
       row' = [row EXCEPT ![u] = [state |-> "transferring", sha |-> h, size |-> n,
                                  received |-> 0, ackEpoch |-> 0]]

Grows(u) ==
  /\ row[u].state = "transferring"
  /\ \E c \in Chunk :
       /\ chunks' = [chunks EXCEPT ![u] = chunks[u] \union {c}]
       /\ row' = [row EXCEPT ![u] = [row[u] EXCEPT !.ackEpoch = row[u].ackEpoch + 1,
                                                   !.received = row[u].received + c.size]]

Legal(u, state) ==
  \/ Complete(u) /\ state = "staged"
  \/ row[u].state = "transferring" /\ state = "cancelled"
  \/ /\ row[u].state \in {"staged", "hash_verified", "committed"}
     /\ state \in {"hash_verified", "committed", "recoverable_error"}
  \/ row[u].state = "committed" /\ state = "ready"
  \/ row[u].state \in States \ {"absent"} /\ state = row[u].state

Turns(u) ==
  /\ chunks' = chunks
  /\ \E state \in States : Legal(u, state) /\ row' = [row EXCEPT ![u].state = state]

Changes == UNCHANGED <<row, chunks>> \/ \E u \in Uploads : Registers(u) \/ Grows(u) \/ Turns(u)

LEMMA CommittingChanges ==
  ASSUME LibraryInv, NEW t \in Runners, Committing(t)
  PROVE  Changes
<1>0. Queueing /\ TypeOK /\ PointOK(t)
  BY DEF Queueing, LibraryInv
<1>1. PICK u : u = task[t].upload
  OBVIOUS
<1>2. ASSUME task[t].pc \in {"hash", "rehash", "find", "reuse", "move", "commit", "adopt",
                              "verify", "reference"}
      PROVE  u \in Uploads /\ row[u].state \in {"staged", "hash_verified", "committed"}
  <2>1. Active(t) /\ u \in Uploads /\ Point(t) = task[t].pc
    BY <1>0, <1>1, <1>2, Holding DEF Active, Point, Queueing
  <2> QED BY <1>0, <1>1, <1>2, <2>1 DEF PointOK
<1>3. ASSUME NEW state \in {"hash_verified", "committed", "recoverable_error"},
             NEW next, Mark(t, u, state, next),
             u \in Uploads, row[u].state \in {"staged", "hash_verified", "committed"}
      PROVE  Changes
  BY <1>3 DEF Mark, Changes, Turns, Legal, States
<1>4. CASE AnswerComplete(t) \/ FindBlob(t) \/ AdoptBlob(t)
  BY <1>4 DEF AnswerComplete, FindBlob, AdoptBlob, Answer, database, Changes
<1>5. CASE BeginComplete(t)
  <2>1. u \in Uploads /\ Complete(u)
    BY <1>1, <1>5, AtHeadHolds DEF BeginComplete
  <2> QED BY <1>1, <1>5, <2>1 DEF BeginComplete, Mark, Changes, Turns, Legal, States
<1>6. CASE HashStaging(t) \/ RehashStaging(t) \/ VerifyBlob(t) \/ MarkCommitted(t)
           \/ ReuseBlob(t) \/ MoveToBlob(t)
  <2>1. \/ UNCHANGED <<row, chunks>>
        \/ \E state \in {"hash_verified", "committed", "recoverable_error"}, next \in Steps :
             Mark(t, u, state, next)
    BY <1>1, <1>6 DEF HashStaging, RehashStaging, VerifyBlob, MarkCommitted, ReuseBlob,
       MoveToBlob, MarkRecoverableError, database, Steps
  <2>2. task[t].pc \in {"hash", "rehash", "commit", "verify", "reuse", "move"}
    BY <1>6 DEF HashStaging, RehashStaging, VerifyBlob, MarkCommitted, ReuseBlob, MoveToBlob
  <2> QED BY <1>2, <1>3, <2>1, <2>2 DEF Changes
<1>7. CASE CreateReference(t)
  <2>1. CASE Conflicts(t)
    BY <1>7, <2>1 DEF CreateReference, Changes
  <2>2. CASE ~Conflicts(t)
    <3>1. u \in Uploads /\ row[u].state = "committed"
      BY <1>0, <1>1, <1>2, <1>7 DEF CreateReference, PointOK, Active, Point
    <3> QED BY <1>1, <1>7, <2>2, <3>1 DEF CreateReference, Changes, Turns, Legal, States
  <2> QED BY <2>1, <2>2
<1> QED BY <1>4, <1>5, <1>6, <1>7 DEF Committing

LEMMA ReconcileChanges ==
  ASSUME LibraryInv, NEW u \in Uploads, Reconcile(u)
  PROVE  Changes
<1>1. /\ row[u].state \in States \ {"absent"} /\ chunks' = chunks
      /\ ~(row[u].state = "transferring" /\ ~Exists(staging[u]))
  BY DEF LibraryInv, NothingLost, TypeOK, Rows, Visit, Reconcile, ReconcileSettled,
     ReconcileStaged, ReconcileVerified, ReconcileCommitted, ReconcileCancelled
<1>2. CASE ReconcileVerified(u)
  <2>1. row[u].state = "hash_verified"
    BY <1>2 DEF ReconcileVerified
  <2>2. \/ row' = row
        \/ \E state \in {"committed", "recoverable_error"} :
             row' = [row EXCEPT ![u].state = state]
    BY <1>2 DEF ReconcileVerified, ResumeAt, SettleAs
  <2> QED BY <1>1, <2>1, <2>2 DEF Changes, Turns, Legal, States
<1>3. CASE ReconcileSettled(u)
  <2>1. row' = [row EXCEPT ![u].state = row[u].state]
    BY <1>1, <1>3 DEF ReconcileSettled, SettleAs
  <2> QED BY <1>1, <2>1 DEF Changes, Turns, Legal
<1>4. CASE ReconcileStaged(u) \/ ReconcileCommitted(u) \/ ReconcileCancelled(u)
  BY <1>1, <1>4 DEF ReconcileStaged, ReconcileCommitted, ReconcileCancelled, ResumeAt, Changes
<1> QED BY <1>2, <1>3, <1>4 DEF Reconcile

LEMMA RowsChange ==
  ASSUME LibraryInv, [Next]_vars
  PROVE  Changes
<1>0. Queueing /\ TypeOK
  BY DEF Queueing, LibraryInv
<1>1. ASSUME NEW t \in Runners, Creating(t) PROVE Changes
  <2>1. CASE InsertRow(t)
    <3>1. PICK u \in Uploads : u = task[t].upload
      BY <1>0, <2>1, Holding DEF InsertRow, Queueing
    <3>2. row[u].state = "absent" /\ Creates(t)
      BY <2>1, <3>1 DEF LibraryInv, InsertRow, PointOK, Point, Active
    <3>3. task[t].arg.sha \in Shas /\ task[t].arg.size \in 1 .. MaxBytes
      BY <3>2, ConstantsOK DEF LibraryInv, ArgumentsOK
    <3> QED BY <2>1, <3>1, <3>2, <3>3 DEF InsertRow, Changes, Registers
  <2>2. CASE ~InsertRow(t)
    BY <1>1, <2>2 DEF Creating, BeginCreate, RefuseCreation, AdmitCreation, BindUpload, Answer,
       database, Changes
  <2> QED BY <2>1, <2>2
<1>2. ASSUME NEW t \in Runners, Appending(t) PROVE Changes
  <2>1. CASE PersistChunk(t)
    <3>1. task[t].op = "append" /\ row[task[t].upload].state = "transferring"
      BY <2>1 DEF LibraryInv, PersistChunk, PointOK, Point, Active
    <3>2. task[t].arg \in Packets /\ task[t].upload \in Uploads
      BY <2>1, <3>1, ChunkInHand DEF PersistChunk
    <3>3. ChunkOf(task[t].arg) \in Chunk /\ ChunkOf(task[t].arg).size = task[t].arg.size
      BY <3>2, ConstantsOK DEF ChunkOf, Chunk
    <3> QED BY <2>1, <3>1, <3>2, <3>3 DEF PersistChunk, Changes, Grows
  <2>2. CASE ~PersistChunk(t)
    BY <1>2, <2>2 DEF Appending, AnswerAppend, BeginAppend, WriteByte, Answer, database, Changes
  <2> QED BY <2>1, <2>2
<1>3. ASSUME NEW t \in Runners, Cancelling(t) PROVE Changes
  <2>1. CASE BeginCancel(t)
    <3>1. task[t].upload \in Uploads /\ row[task[t].upload].state = "transferring"
      BY <2>1, AtHeadHolds DEF BeginCancel
    <3> QED BY <2>1, <3>1 DEF BeginCancel, Mark, Changes, Turns, Legal, States
  <2>2. CASE AnswerCancel(t) \/ RemoveStaging(t)
    BY <2>2 DEF AnswerCancel, RemoveStaging, Answer, database, Changes
  <2> QED BY <1>3, <2>1, <2>2 DEF Cancelling
<1>4. ASSUME NEW t \in Runners, LandManifest(t) \/ Fail(t) PROVE Changes
  BY <1>4 DEF LandManifest, Fail, database, Changes
<1>5. CASE Requests
  BY <1>5 DEF Requests, RequestCreate, RequestAppend, RequestComplete, RequestCancel, Enqueue,
     database, Changes
<1>6. CASE Stop \/ Start \/ Serve \/ UNCHANGED vars
  BY <1>6 DEF Stop, Start, Serve, vars, database, Changes
<1> QED
  BY <1>1, <1>2, <1>3, <1>4, <1>5, <1>6, CommittingChanges, ReconcileChanges
     DEF Next, TaskStep, Recovering

\* What is received of an upload is a part of it.
WithinSize ==
  \A u \in Uploads : /\ row[u].received \in Nat /\ row[u].size \in Nat /\ row[u].ackEpoch \in Nat
                     /\ row[u].received <= row[u].size
                     /\ row[u].state = "absent" => row[u].received = 0 /\ row[u].ackEpoch = 0

LEMMA ReceivedFits ==
  ASSUME LibraryInv, BytesInv
  PROVE  WithinSize
<1> SUFFICES ASSUME NEW u \in Uploads
             PROVE  /\ row[u].received \in Nat /\ row[u].size \in Nat /\ row[u].ackEpoch \in Nat
                    /\ row[u].received <= row[u].size
                    /\ row[u].state = "absent" => row[u].received = 0 /\ row[u].ackEpoch = 0
  BY DEF WithinSize
<1> DEFINE C == Covered(chunks[u])
<1>1. /\ ChunksOK(u) /\ row[u].size \in Nat /\ row[u].received \in Nat /\ row[u].ackEpoch \in Nat
      /\ chunks[u] \subseteq Chunk
  BY ConstantsOK DEF LibraryInv, BytesInv, TypeOK, Rows
<1>2. PICK n \in Nat : n = row[u].size
  BY <1>1
<1>3. C \in SUBSET (0 .. n - 1)
  <2>1. ASSUME NEW c \in chunks[u] PROVE RangeOf(c) \subseteq 0 .. n - 1
    <3>1. c.offset \in Nat /\ c.size \in Nat /\ c.offset + c.size <= n
      BY <1>1, <1>2, ConstantsOK DEF ChunksOK, Chunk
    <3> QED BY <3>1 DEF RangeOf
  <2> QED BY <2>1 DEF Covered
<1>4. IsFiniteSet(0 .. n - 1) /\ Cardinality(0 .. n - 1) = n
  <2>1. 0 \in Int /\ n - 1 \in Int
    OBVIOUS
  <2>2. /\ IsFiniteSet(0 .. n - 1)
        /\ Cardinality(0 .. n - 1) = IF 0 > n - 1 THEN 0 ELSE n - 1 - 0 + 1
    BY <2>1, FS_Interval
  <2>3. CASE n = 0
    BY <2>2, <2>3
  <2>4. CASE n > 0
    BY <2>2, <2>4
  <2> QED BY <2>3, <2>4
<1>5. Cardinality(C) <= n
  BY <1>3, <1>4, FS_Subset
<1>6. chunks[u] = {} => Cardinality(C) = 0
  BY FS_EmptySet DEF Covered
<1>7. row[u].received = Cardinality(C) /\ row[u].ackEpoch = Cardinality(chunks[u])
  BY <1>1 DEF ChunksOK
<1>8. row[u].state = "absent" => chunks[u] = {}
  BY <1>1 DEF ChunksOK
<1> QED BY <1>1, <1>2, <1>5, <1>6, <1>7, <1>8, FS_EmptySet

\* A row moves as UploadContract says.
LEMMA ContractMoves ==
  ASSUME LibraryInv, WithinSize, WithinSize', NEW u \in Uploads, Changes
  PROVE  [Contract(u)!Next]_(Contract(u)!vars)
<1>0. /\ row \in [Uploads -> Rows] /\ row[u] \in Rows
      /\ row[u].received \in Nat /\ row[u].size \in Nat /\ row[u].received <= row[u].size
      /\ row[u].state = "absent" => row[u].received = 0
      /\ row'[u].received <= row'[u].size
  BY DEF LibraryInv, TypeOK, WithinSize
<1>1. CASE row'[u] = row[u]
  BY <1>1 DEF Contract!vars
<1>2. CASE row'[u] # row[u]
  <2>1. Registers(u) \/ Grows(u) \/ Turns(u)
    BY <1>0, <1>2 DEF Changes, Registers, Grows, Turns
  <2>2. CASE Registers(u)
    <3>1. /\ row'[u].state = "transferring" /\ row'[u].received = 0
          /\ row'[u].size \in 1 .. MaxBytes
      BY <1>0, <2>2 DEF Registers
    <3>2. Contract(u)!Register
      BY <1>0, <2>2, <3>1, PhaseValues DEF Registers, Contract!Register
    <3> QED BY <3>2 DEF Contract!Next
  <2>3. CASE Grows(u)
    <3>1. PICK c \in Chunk :
            /\ row'[u] = [row[u] EXCEPT !.ackEpoch = row[u].ackEpoch + 1,
                                        !.received = row[u].received + c.size]
      BY <1>0, <2>3 DEF Grows
    <3>2. /\ row'[u].state = row[u].state /\ row'[u].size = row[u].size
          /\ row'[u].received = row[u].received + c.size
      BY <1>0, <3>1 DEF Rows
    <3>3. c.size \in Nat /\ c.size > 0
      BY ConstantsOK DEF Chunk
    <3>4. Contract(u)!Receive
      BY <1>0, <2>3, <3>2, <3>3, PhaseValues DEF Grows, Contract!Receive
    <3> QED BY <3>4 DEF Contract!Next
  <2>4. CASE Turns(u)
    <3>1. PICK state \in States : Legal(u, state) /\ row' = [row EXCEPT ![u].state = state]
      BY <2>4 DEF Turns
    <3>2. /\ row'[u].state = state /\ row'[u].size = row[u].size
          /\ row'[u].received = row[u].received
      BY <1>0, <3>1 DEF Rows
    <3>3. CASE Complete(u) /\ state = "staged"
      <4>1. Contract(u)!Settle
        BY <3>2, <3>3, PhaseValues DEF Complete, Contract!Settle
      <4> QED BY <4>1 DEF Contract!Next
    <3>4. CASE row[u].state = "transferring" /\ state = "cancelled"
      <4>1. Contract(u)!Cancel
        BY <3>2, <3>4, PhaseValues DEF Contract!Cancel
      <4> QED BY <4>1 DEF Contract!Next
    <3>5. CASE /\ row[u].state \in {"staged", "hash_verified", "committed"}
               /\ state \in {"ready", "recoverable_error"}
      <4>1. Contract(u)!End
        BY <3>2, <3>5, PhaseValues DEF Contract!End
      <4> QED BY <4>1 DEF Contract!Next
    <3>6. CASE PhaseOf(state) = PhaseOf(row[u].state)
      BY <3>2, <3>6 DEF Contract!vars
    <3> QED BY <3>1, <3>3, <3>4, <3>5, <3>6, PhaseValues DEF Legal
  <2> QED BY <2>1, <2>2, <2>3, <2>4
<1> QED BY <1>1, <1>2

\* Every upload of the library is an implementation of UploadContract, whatever requests,
\* failures and restarts do: what a phone was told is received stays received, and an
\* upload is settled only when all its declared bytes are.
THEOREM LibraryKeepsContract == Spec => KeepsContract
<1>1. ASSUME NEW u \in Uploads PROVE Spec => Contract(u)!Spec
  <2>1. Init => Contract(u)!Init
    BY PhaseValues DEF Init, NoRow, Contract!Init
  <2>2. LibraryInv /\ BytesInv => WithinSize
    BY ReceivedFits
  <2>3. LibraryInv /\ WithinSize /\ WithinSize' /\ [Next]_vars
          => [Contract(u)!Next]_(Contract(u)!vars)
    BY RowsChange, ContractMoves
  <2> QED BY <2>1, <2>2, <2>3, LibraryInvariant, BytesInvariant, PTL
          DEF Spec, Contract!Spec, Contract!Init, Contract!Next, Contract!vars
<1> QED BY <1>1 DEF KeepsContract

\* Bindings, blobs and references only ever join the tables.
LEMMA TablesGrow ==
  ASSUME [Next]_vars
  PROVE  bound \subseteq bound' /\ blobs \subseteq blobs' /\ refs \subseteq refs'
<1>1. ASSUME NEW t \in Runners, BindUpload(t)
      PROVE  bound \subseteq bound' /\ UNCHANGED <<blobs, refs>>
  BY <1>1 DEF BindUpload
<1>2. ASSUME NEW t \in Runners, CreateReference(t)
      PROVE  bound' = bound /\ blobs \subseteq blobs' /\ refs \subseteq refs'
  BY <1>2 DEF CreateReference
<1>3. ASSUME NEW t \in Runners, TaskStep(t), ~BindUpload(t), ~CreateReference(t)
      PROVE  UNCHANGED <<bound, blobs, refs>>
  <2>1. CASE Creating(t)
    BY <1>3, <2>1 DEF Creating, BeginCreate, RefuseCreation, AdmitCreation, InsertRow, Answer,
       database
  <2>2. CASE Appending(t)
    BY <2>2 DEF Appending, AnswerAppend, BeginAppend, WriteByte, PersistChunk, Answer, database
  <2>3. CASE Committing(t)
    BY <1>3, <2>3 DEF Committing, AnswerComplete, BeginComplete, HashStaging, RehashStaging,
       FindBlob, ReuseBlob, MoveToBlob, MarkCommitted, AdoptBlob, VerifyBlob, Answer, Mark,
       MarkRecoverableError, database
  <2>4. CASE Cancelling(t) \/ LandManifest(t)
    BY <2>4 DEF Cancelling, AnswerCancel, BeginCancel, RemoveStaging, LandManifest, Answer, Mark,
       database
  <2> QED BY <1>3, <2>1, <2>2, <2>3, <2>4 DEF TaskStep
<1>4. ASSUME NEW t \in Runners, Fail(t) PROVE UNCHANGED <<bound, blobs, refs>>
  BY <1>4 DEF Fail, database
<1>5. CASE Requests
  BY <1>5 DEF Requests, RequestCreate, RequestAppend, RequestComplete, RequestCancel, Enqueue,
     database
<1>6. CASE Stop \/ Start \/ Serve \/ UNCHANGED vars
  BY <1>6 DEF Stop, Start, Serve, vars, database
<1>7. ASSUME NEW u \in Uploads, Reconcile(u) PROVE UNCHANGED <<bound, blobs, refs>>
  BY <1>7 DEF Reconcile, ReconcileSettled, ReconcileStaged, ReconcileVerified,
     ReconcileCommitted, ReconcileCancelled, Visit
<1> QED BY <1>1, <1>2, <1>3, <1>4, <1>5, <1>6, <1>7 DEF Next, Recovering

\* Nothing is retracted: no failure, restart or cancellation takes back a chunk, a
\* binding, a blob or a reference, or makes an upload another one.
THEOREM NothingIsRetracted == Spec => NothingRetracted
<1>1. LibraryInv /\ WithinSize /\ [Next]_vars =>
        \A u \in Uploads :
          /\ chunks[u] \subseteq chunks'[u] /\ row[u].ackEpoch <= row'[u].ackEpoch
          /\ row[u].state # "absent" => row'[u].state # "absent" /\ row'[u].sha = row[u].sha
  <2> SUFFICES ASSUME LibraryInv, WithinSize, [Next]_vars, NEW u \in Uploads
               PROVE  /\ chunks[u] \subseteq chunks'[u] /\ row[u].ackEpoch <= row'[u].ackEpoch
                      /\ row[u].state # "absent" =>
                           row'[u].state # "absent" /\ row'[u].sha = row[u].sha
    OBVIOUS
  <2>0. /\ row \in [Uploads -> Rows] /\ row[u] \in Rows /\ row[u].ackEpoch \in Nat
        /\ chunks \in [Uploads -> SUBSET Chunk]
    BY DEF LibraryInv, TypeOK, Rows
  <2>1. CASE row'[u] = row[u] /\ chunks'[u] = chunks[u]
    BY <2>0, <2>1
  <2>2. CASE Registers(u)
    <3>1. row'[u].ackEpoch = 0 /\ row[u].ackEpoch = 0 /\ chunks' = chunks
      BY <2>0, <2>2 DEF Registers, WithinSize
    <3> QED BY <2>2, <3>1 DEF Registers
  <2>3. CASE Grows(u)
    <3>1. PICK c \in Chunk :
            /\ chunks'[u] = chunks[u] \union {c}
            /\ row'[u] = [row[u] EXCEPT !.ackEpoch = row[u].ackEpoch + 1,
                                        !.received = row[u].received + c.size]
      BY <2>0, <2>3 DEF Grows
    <3>2. /\ row'[u].state = row[u].state /\ row'[u].sha = row[u].sha
          /\ row'[u].ackEpoch = row[u].ackEpoch + 1
      BY <2>0, <3>1 DEF Rows
    <3> QED BY <2>0, <3>1, <3>2
  <2>4. CASE Turns(u)
    <3>1. PICK state \in States : Legal(u, state) /\ row' = [row EXCEPT ![u].state = state]
      BY <2>4 DEF Turns
    <3>2. /\ row'[u].state = state /\ row'[u].sha = row[u].sha
          /\ row'[u].ackEpoch = row[u].ackEpoch
      BY <2>0, <3>1 DEF Rows
    <3> QED BY <2>0, <2>4, <3>1, <3>2 DEF Turns, Legal
  <2> QED BY <2>0, <2>1, <2>2, <2>3, <2>4, RowsChange DEF Changes, Registers, Grows, Turns
<1>2. LibraryInv /\ BytesInv => WithinSize
  BY ReceivedFits
<1>3. [Next]_vars => bound \subseteq bound' /\ blobs \subseteq blobs' /\ refs \subseteq refs'
  BY TablesGrow
<1> QED BY <1>1, <1>2, <1>3, LibraryInvariant, BytesInvariant, PTL DEF Spec, NothingRetracted

-----------------------------------------------------------------------------
(* Requests run down, in the order of their arrival *)

\* Only t moves, and no lane.
Alters(t) ==
  (\A s \in Runners \ {t} : task'[s] = task[s]) /\ queue' = queue

\* Task t goes on to its next step.
Advances(t) ==
  /\ Alters(t)
  /\ task[t].pc # "idle" /\ task'[t].pc \notin {"idle", "queued"}
  /\ Lane(t)' = Lane(t)
  /\ StepsLeft(t)' \in Nat \ {0} /\ StepsLeft(t)' < StepsLeft(t)

\* Task t is settled.
Settles(t) ==
  /\ task[t].pc # "idle" /\ StepsLeft(t) > 0 /\ Finish(t)
  /\ t \in Tasks => queue[Lane(t)][1] = t

Arrives(t, lane) ==
  /\ task[t].pc = "idle" /\ task'[t].pc = "queued" /\ Lane(t)' = lane /\ lane \in Lanes
  /\ \A s \in Runners \ {t} : task'[s] = task[s]
  /\ queue' = [queue EXCEPT ![lane] = Append(@, t)]

Resumes == Alters(Recovery) /\ task[Recovery].pc = "idle" /\ task'[Recovery].pc # "queued"

TaskChanges ==
  \/ \E t \in Tasks : \E lane \in Lanes : Arrives(t, lane)
  \/ Halt
  \/ \E t \in Runners : Advances(t) \/ Settles(t)
  \/ Resumes
  \/ UNCHANGED <<task, queue>>

\* The steps left at each point, as a table.
LEMMA StepTable ==
  /\ \A pc \in {"bind", "persist", "reference", "remove"} : StepsFrom(pc) = 2
  /\ StepsFrom("idle") = 0 /\ StepsFrom("verify") = 3 /\ StepsFrom("adopt") = 4
  /\ StepsFrom("insert") = 4 /\ StepsFrom("admit") = 5 /\ StepsFrom("commit") = 5
  /\ StepsFrom("reuse") = 6 /\ StepsFrom("move") = 6 /\ StepsFrom("find") = 7
  /\ StepsFrom("rehash") = 8 /\ StepsFrom("hash") = 9 /\ StepsFrom("queued") = 11 + MaxBytes
BY DEF StepsFrom

\* What is left of a task in each state it can be in.
LEMMA LeftOf ==
  ASSUME LibraryInv, BytesInv, NEW t \in Runners
  PROVE  /\ task[t].pc = "mirror" =>
              /\ task[t].next \in {"idle", "bind", "hash", "find", "verify", "adopt", "remove"}
              /\ StepsLeft(t) = StepsFrom(task[t].next) + 1
         /\ task[t].pc = "write" => /\ task[t].arg.size \in Nat /\ task[t].written \in Nat
                                    /\ task[t].written < task[t].arg.size
                                    /\ StepsLeft(t) = 2 + task[t].arg.size - task[t].written
         /\ task[t].pc \notin {"mirror", "write"} => StepsLeft(t) = StepsFrom(task[t].pc)
         /\ task[t].pc # "idle" => StepsLeft(t) > 0
<1>0. task[t] \in Locals /\ PointOK(t) /\ WritesOK(t) /\ MaxBytes \in Nat
  BY ConstantsOK DEF LibraryInv, TypeOK, BytesInv
<1>1. task[t].pc = "mirror" =>
        /\ task[t].next \in {"idle", "bind", "hash", "find", "verify", "adopt", "remove"}
        /\ StepsLeft(t) = StepsFrom(task[t].next) + 1
  BY <1>0 DEF PointOK, Point, Active, StepsLeft
<1>2. task[t].pc = "write" => /\ task[t].arg.size \in Nat /\ task[t].written \in Nat
                              /\ task[t].written < task[t].arg.size
                              /\ StepsLeft(t) = 2 + task[t].arg.size - task[t].written
  <2> SUFFICES ASSUME task[t].pc = "write"
               PROVE  /\ task[t].arg.size \in Nat /\ task[t].written \in Nat
                      /\ task[t].written < task[t].arg.size
                      /\ StepsLeft(t) = 2 + task[t].arg.size - task[t].written
    OBVIOUS
  <2>1. task[t].op = "append"
    BY <1>0 DEF PointOK, Point, Active
  <2> QED BY <1>0, <2>1, ChunkInHand DEF Locals, WritesOK, StepsLeft
<1>3. task[t].pc \notin {"mirror", "write"} => StepsLeft(t) = StepsFrom(task[t].pc)
  BY DEF StepsLeft
<1>4. task[t].pc # "idle" => StepsLeft(t) > 0
  <2>1. CASE task[t].pc = "mirror"
    BY <1>1, <2>1, StepTable
  <2>2. CASE task[t].pc = "write"
    BY <1>2, <2>2
  <2>3. CASE task[t].pc \notin {"mirror", "write", "idle"}
    BY <1>0, <1>3, <2>3, StepTable DEF Locals, Steps
  <2> QED BY <2>1, <2>2, <2>3
<1> QED BY <1>1, <1>2, <1>3, <1>4

\* The three ways in which a task goes on: by a jump, by a manifest, and to its end.
LEMMA JumpAdvances ==
  ASSUME LibraryInv, BytesInv, NEW t \in Runners, task[t].pc # "idle",
         NEW pc \in {"bind", "persist", "reference", "remove", "verify", "adopt", "insert",
                     "admit", "commit", "reuse", "move", "find", "rehash", "hash"},
         task'[t].pc = pc, Lane(t)' = Lane(t), Alters(t), StepsFrom(pc) < StepsLeft(t)
  PROVE  Advances(t)
<1>1. StepsLeft(t)' = StepsFrom(pc)
  BY DEF StepsLeft
<1>2. StepsFrom(pc) \in Nat \ {0}
  BY StepTable
<1> QED BY <1>1, <1>2 DEF Advances

LEMMA GotoAdvances ==
  ASSUME LibraryInv, BytesInv, NEW t \in Runners, task[t].pc # "idle",
         NEW pc \in {"bind", "reference", "remove", "verify", "adopt", "commit", "find", "hash"},
         Goto(t, pc), StepsFrom(pc) < StepsLeft(t)
  PROVE  Advances(t)
<1>1. /\ task'[t].pc = pc /\ task'[t].upload = task[t].upload /\ task'[t].op = task[t].op
      /\ Alters(t)
  BY GotoEffect DEF LibraryInv, Goto, Alters
<1>2. Lane(t)' = Lane(t)
  BY <1>1 DEF Lane, Creates
<1> QED BY <1>1, <1>2, JumpAdvances

LEMMA CaptureAdvances ==
  ASSUME LibraryInv, BytesInv, NEW t \in Runners, task[t].pc # "idle",
         NEW state, NEW persisted,
         NEW next \in {"idle", "bind", "hash", "find", "verify", "adopt", "remove"},
         Capture(t, task[t].upload, state, persisted, next), StepsFrom(next) + 1 < StepsLeft(t)
  PROVE  Advances(t)
<1>1. /\ task'[t] = [task[t] EXCEPT !.pc = "mirror", !.next = next, !.upload = task[t].upload,
                                    !.image = [state |-> state, chunks |-> persisted]]
      /\ Alters(t)
  BY DEF Capture, LibraryInv, TypeOK, Alters
<1>2. task[t] \in Locals
  BY DEF LibraryInv, TypeOK
<1>3. /\ task'[t].pc = "mirror" /\ task'[t].next = next
      /\ task'[t].upload = task[t].upload /\ task'[t].op = task[t].op
  BY <1>1, <1>2 DEF Locals
<1>4. Lane(t)' = Lane(t)
  BY <1>3 DEF Lane, Creates
<1>5. StepsLeft(t)' = StepsFrom(next) + 1
  BY <1>3 DEF StepsLeft
<1>6. StepsFrom(next) \in Nat
  BY StepTable
<1> QED BY <1>1, <1>3, <1>4, <1>5, <1>6 DEF Advances

LEMMA FinishSettles ==
  ASSUME LibraryInv, BytesInv, NEW t \in Runners, task[t].pc # "idle", Finish(t),
         task[t].pc = "queued" => Head(queue[Lane(t)]) = t
  PROVE  Settles(t)
<1>1. StepsLeft(t) > 0
  BY LeftOf
<1>2. t \in Tasks => queue[Lane(t)][1] = t
  BY InTurn DEF LibraryInv, Queueing
<1> QED BY <1>1, <1>2 DEF Settles

LEMMA CreatingGoesOn ==
  ASSUME LibraryInv, BytesInv, NEW t \in Runners, Creating(t)
  PROVE  Advances(t) \/ Settles(t)
<1>0. /\ task[t] \in Locals /\ PointOK(t) /\ MaxBytes \in Nat
      /\ (task[t].pc \notin {"mirror", "write"} => StepsLeft(t) = StepsFrom(task[t].pc))
  BY LeftOf, ConstantsOK DEF LibraryInv, TypeOK
<1>1. CASE BeginCreate(t)
  <2>1. task[t].pc = "queued"
    BY <1>1 DEF BeginCreate, AtHead
  <2>2. /\ task'[t] = [task[t] EXCEPT !.pc = "admit", !.reserved = ReservedBytes]
        /\ Alters(t)
    BY <1>1 DEF BeginCreate, LibraryInv, TypeOK, Alters
  <2>3. task'[t].pc = "admit" /\ task'[t].op = task[t].op /\ task'[t].upload = task[t].upload
    BY <1>0, <2>2 DEF Locals
  <2>4. StepsFrom("admit") < StepsLeft(t) /\ Lane(t)' = Lane(t)
    BY <1>0, <2>1, <2>3, StepTable DEF Lane, Creates
  <2> QED BY <2>1, <2>2, <2>3, <2>4, JumpAdvances
<1>2. CASE RefuseCreation(t)
  BY <1>2, FinishSettles DEF RefuseCreation, Answer
<1>3. CASE \E u \in Uploads : AdmitCreation(t, u)
  <2>1. PICK u \in Uploads : AdmitCreation(t, u)
    BY <1>3
  <2>2. task[t].pc = "admit" /\ Creates(t)
    BY <1>0, <2>1 DEF AdmitCreation, PointOK, Point, Active
  <2>3. task'[t] = [task[t] EXCEPT !.pc = "insert", !.upload = u] /\ Alters(t)
    BY <2>1 DEF AdmitCreation, LibraryInv, TypeOK, Alters
  <2>4. task'[t].pc = "insert" /\ task'[t].op = task[t].op
    BY <1>0, <2>3 DEF Locals
  <2>5. StepsFrom("insert") < StepsLeft(t) /\ Lane(t)' = Lane(t)
    BY <1>0, <2>2, <2>4, StepTable DEF Lane, Creates
  <2> QED BY <2>2, <2>3, <2>4, <2>5, JumpAdvances
<1>4. CASE InsertRow(t)
  <2> DEFINE next == IF task[t].op = "createProject" THEN "bind" ELSE "idle"
  <2>1. task[t].pc = "insert" /\ next \in {"bind", "idle"}
    BY <1>4 DEF InsertRow
  <2>2. Capture(t, task[t].upload, "transferring", chunks[task[t].upload], next)
    BY <1>4 DEF InsertRow
  <2>3. StepsFrom(next) + 1 < StepsLeft(t)
    BY <1>0, <2>1, StepTable
  <2> QED BY <2>1, <2>2, <2>3, CaptureAdvances
<1>5. CASE BindUpload(t)
  BY <1>5, FinishSettles DEF BindUpload
<1> QED BY <1>1, <1>2, <1>3, <1>4, <1>5 DEF Creating

LEMMA AppendingGoesOn ==
  ASSUME LibraryInv, BytesInv, NEW t \in Runners, Appending(t)
  PROVE  Advances(t) \/ Settles(t)
<1>0. /\ task[t] \in Locals /\ PointOK(t) /\ WritesOK(t) /\ MaxBytes \in Nat
      /\ (task[t].pc \notin {"mirror", "write"} => StepsLeft(t) = StepsFrom(task[t].pc))
  BY LeftOf, ConstantsOK DEF LibraryInv, TypeOK, BytesInv
<1>1. CASE AnswerAppend(t)
  BY <1>1, FinishSettles DEF AnswerAppend, Answer, AtHead
<1>2. CASE BeginAppend(t)
  <2>1. /\ task[t].pc = "queued" /\ task[t].op = "append" /\ task[t].written = 0
        /\ task[t].arg.size \in 1 .. MaxBytes
    BY <1>0, <1>2, ChunkInHand DEF BeginAppend, AtHead, WritesOK
  <2>2. task'[t] = [task[t] EXCEPT !.pc = "write"] /\ Alters(t)
    BY <1>2 DEF BeginAppend, Goto, LibraryInv, TypeOK, Alters
  <2>3. /\ task'[t].pc = "write" /\ task'[t].op = task[t].op /\ task'[t].upload = task[t].upload
        /\ task'[t].arg = task[t].arg /\ task'[t].written = task[t].written
    BY <1>0, <2>2 DEF Locals
  <2>4. Lane(t)' = Lane(t)
    BY <2>3 DEF Lane, Creates
  <2>5. StepsLeft(t)' = 2 + task[t].arg.size - 0
    BY <2>1, <2>3 DEF StepsLeft
  <2>6. StepsLeft(t) = 11 + MaxBytes
    BY <1>0, <2>1, StepTable
  <2>7. StepsLeft(t)' \in Nat \ {0} /\ StepsLeft(t)' < StepsLeft(t)
    BY <1>0, <2>1, <2>5, <2>6
  <2> QED BY <2>1, <2>2, <2>3, <2>4, <2>7 DEF Advances
<1>3. CASE WriteByte(t)
  <2>1. /\ task[t].pc = "write" /\ task[t].arg.size \in Nat /\ task[t].written \in Nat
        /\ task[t].written < task[t].arg.size
        /\ StepsLeft(t) = 2 + task[t].arg.size - task[t].written
    BY <1>3, LeftOf DEF WriteByte
  <2>2. PICK pc \in {"write", "persist"} :
          /\ pc = IF task[t].written + 1 = task[t].arg.size THEN "persist" ELSE "write"
          /\ task'[t] = [task[t] EXCEPT !.written = task[t].written + 1, !.pc = pc]
          /\ Alters(t)
    BY <1>3 DEF WriteByte, LibraryInv, TypeOK, Alters
  <2>3. /\ task'[t].pc = pc /\ task'[t].op = task[t].op /\ task'[t].upload = task[t].upload
        /\ task'[t].arg = task[t].arg /\ task'[t].written = task[t].written + 1
    BY <1>0, <2>2 DEF Locals
  <2>4. Lane(t)' = Lane(t)
    BY <2>3 DEF Lane, Creates
  <2>5. CASE pc = "persist"
    <3>1. StepsFrom("persist") < StepsLeft(t)
      BY <2>1, StepTable
    <3> QED BY <2>1, <2>2, <2>3, <2>4, <2>5, <3>1, JumpAdvances
  <2>6. CASE pc = "write"
    <3>1. StepsLeft(t)' = 2 + task[t].arg.size - (task[t].written + 1)
      BY <2>3, <2>6 DEF StepsLeft
    <3>2. StepsLeft(t)' \in Nat \ {0} /\ StepsLeft(t)' < StepsLeft(t)
      BY <2>1, <3>1
    <3> QED BY <2>1, <2>2, <2>3, <2>4, <2>6, <3>2 DEF Advances
  <2> QED BY <2>5, <2>6
<1>4. CASE PersistChunk(t)
  <2>1. /\ task[t].pc = "persist"
        /\ \E state, persisted : Capture(t, task[t].upload, state, persisted, "idle")
    BY <1>4 DEF PersistChunk
  <2>2. StepsFrom("idle") + 1 < StepsLeft(t)
    BY <1>0, <2>1, StepTable
  <2> QED BY <2>1, <2>2, CaptureAdvances
<1> QED BY <1>1, <1>2, <1>3, <1>4 DEF Appending

LEMMA CommittingGoesOn ==
  ASSUME LibraryInv, BytesInv, NEW t \in Runners, Committing(t)
  PROVE  Advances(t) \/ Settles(t) \/ Halt
<1>0. /\ task[t] \in Locals /\ MaxBytes \in Nat
      /\ (task[t].pc \notin {"mirror", "write"} => StepsLeft(t) = StepsFrom(task[t].pc))
  BY LeftOf, ConstantsOK DEF LibraryInv, TypeOK
<1>1. ASSUME NEW state, NEW next \in {"idle", "hash", "find", "verify"},
             Mark(t, task[t].upload, state, next), task[t].pc # "idle",
             StepsFrom(next) + 1 < StepsLeft(t)
      PROVE  Advances(t)
  BY <1>1, CaptureAdvances DEF Mark
<1>2. ASSUME task[t].pc \in {"hash", "rehash", "reuse", "move", "verify"},
             MarkRecoverableError(t)
      PROVE  Advances(t)
  <2>1. StepsFrom("idle") + 1 < StepsLeft(t)
    BY <1>0, <1>2, StepTable
  <2> QED BY <1>1, <1>2, <2>1 DEF MarkRecoverableError
<1>3. CASE AnswerComplete(t)
  BY <1>3, FinishSettles DEF AnswerComplete, Answer, AtHead
<1>4. CASE BeginComplete(t)
  <2>1. task[t].pc = "queued" /\ StepsFrom("hash") + 1 < StepsLeft(t)
    BY <1>0, <1>4, StepTable DEF BeginComplete, AtHead
  <2> QED BY <1>1, <1>4, <2>1 DEF BeginComplete
<1>5. CASE HashStaging(t)
  <2>1. task[t].pc = "hash" /\ StepsFrom("find") + 1 < StepsLeft(t)
    BY <1>0, <1>5, StepTable DEF HashStaging
  <2> QED BY <1>1, <1>2, <1>5, <2>1 DEF HashStaging
<1>6. CASE MarkCommitted(t)
  <2>1. task[t].pc = "commit" /\ StepsFrom("verify") + 1 < StepsLeft(t)
    BY <1>0, <1>6, StepTable DEF MarkCommitted
  <2> QED BY <1>1, <1>6, <2>1 DEF MarkCommitted
<1>7. CASE RehashStaging(t)
  <2>1. task[t].pc = "rehash" /\ StepsFrom("find") < StepsLeft(t)
    BY <1>0, <1>7, StepTable DEF RehashStaging
  <2> QED BY <1>2, <1>7, <2>1, GotoAdvances DEF RehashStaging
<1>8. CASE ReuseBlob(t) \/ MoveToBlob(t)
  <2>1. task[t].pc \in {"reuse", "move"} /\ StepsFrom("commit") < StepsLeft(t)
    BY <1>0, <1>8, StepTable DEF ReuseBlob, MoveToBlob
  <2> QED BY <1>2, <1>8, <2>1, GotoAdvances DEF ReuseBlob, MoveToBlob
<1>9. CASE VerifyBlob(t)
  <2>1. task[t].pc = "verify" /\ StepsFrom("reference") < StepsLeft(t)
    BY <1>0, <1>9, StepTable DEF VerifyBlob
  <2> QED BY <1>2, <1>9, <2>1, GotoAdvances DEF VerifyBlob
<1>10. ASSUME NEW pc \in {"reuse", "move", "verify"}, NEW b,
              task' = [task EXCEPT ![t] = [task[t] EXCEPT !.createBlob = b, !.pc = pc]],
              queue' = queue, task[t].pc # "idle", StepsFrom(pc) < StepsLeft(t)
       PROVE  Advances(t)
  <2>1. task'[t] = [task[t] EXCEPT !.createBlob = b, !.pc = pc] /\ Alters(t)
    BY <1>10 DEF LibraryInv, TypeOK, Alters
  <2>2. task'[t].pc = pc /\ task'[t].op = task[t].op /\ task'[t].upload = task[t].upload
    BY <1>0, <2>1 DEF Locals
  <2>3. Lane(t)' = Lane(t)
    BY <2>2 DEF Lane, Creates
  <2> QED BY <1>10, <2>1, <2>2, <2>3, JumpAdvances
<1>12. CASE FindBlob(t)
  <2> DEFINE pc == IF ShaOf(t) \in blobs THEN "reuse" ELSE "move"
  <2>1. task[t].pc = "find" /\ pc \in {"reuse", "move"}
    BY <1>12 DEF FindBlob
  <2>2. StepsFrom(pc) < StepsLeft(t)
    BY <1>0, <2>1, StepTable
  <2> QED BY <1>10, <1>12, <2>1, <2>2 DEF FindBlob
<1>13. CASE AdoptBlob(t)
  <2>1. task[t].pc = "adopt" /\ StepsFrom("verify") < StepsLeft(t)
    BY <1>0, <1>13, StepTable DEF AdoptBlob
  <2>2. task' = [task EXCEPT ![t] = [task[t] EXCEPT !.createBlob = ShaOf(t) \notin blobs,
                                                    !.pc = "verify"]]
    BY <1>13 DEF AdoptBlob
  <2> QED BY <1>10, <1>13, <2>1, <2>2 DEF AdoptBlob
<1>11. CASE CreateReference(t)
  <2>1. task[t].pc = "reference" /\ StepsFrom("idle") + 1 < StepsLeft(t)
    BY <1>0, <1>11, StepTable DEF CreateReference
  <2>2. CASE Conflicts(t)
    BY <1>11, <2>1, <2>2, FinishSettles DEF CreateReference, Throw
  <2>3. CASE ~Conflicts(t)
    BY <1>11, <2>1, <2>3, CaptureAdvances DEF CreateReference
  <2> QED BY <2>2, <2>3
<1> QED BY <1>3, <1>4, <1>5, <1>6, <1>7, <1>8, <1>9, <1>11, <1>12, <1>13 DEF Committing

LEMMA OtherGoesOn ==
  ASSUME LibraryInv, BytesInv, NEW t \in Runners, Cancelling(t) \/ LandManifest(t)
  PROVE  Advances(t) \/ Settles(t)
<1>0. /\ task[t] \in Locals /\ MaxBytes \in Nat
      /\ (task[t].pc \notin {"mirror", "write"} => StepsLeft(t) = StepsFrom(task[t].pc))
  BY LeftOf, ConstantsOK DEF LibraryInv, TypeOK
<1>1. CASE AnswerCancel(t)
  BY <1>1, FinishSettles DEF AnswerCancel, Answer, AtHead
<1>2. CASE BeginCancel(t)
  <2>1. task[t].pc = "queued" /\ StepsFrom("remove") + 1 < StepsLeft(t)
    BY <1>0, <1>2, StepTable DEF BeginCancel, AtHead
  <2> QED BY <1>2, <2>1, CaptureAdvances DEF BeginCancel, Mark
<1>3. CASE RemoveStaging(t)
  <2>1. task[t].pc = "remove" /\ StepsFrom("idle") + 1 < StepsLeft(t)
    BY <1>0, <1>3, StepTable DEF RemoveStaging
  <2> QED BY <1>3, <2>1, CaptureAdvances, FinishSettles DEF RemoveStaging
<1>4. CASE LandManifest(t)
  <2>1. /\ task[t].pc = "mirror" /\ StepsLeft(t) = StepsFrom(task[t].next) + 1
        /\ task[t].next \in {"idle", "bind", "hash", "find", "verify", "adopt", "remove"}
    BY <1>4, LeftOf DEF LandManifest
  <2>2. CASE task[t].next = "idle"
    BY <1>4, <2>1, <2>2, FinishSettles DEF LandManifest
  <2>3. CASE task[t].next # "idle"
    <3>1. StepsFrom(task[t].next) < StepsLeft(t)
      BY <2>1, StepTable
    <3> QED BY <1>4, <2>1, <2>3, <3>1, GotoAdvances DEF LandManifest
  <2> QED BY <2>2, <2>3
<1> QED BY <1>1, <1>2, <1>3, <1>4 DEF Cancelling

LEMMA TasksChange ==
  ASSUME LibraryInv, BytesInv, [Next]_vars
  PROVE  TaskChanges
<1>1. ASSUME NEW t \in Tasks, NEW op \in Operations, NEW u \in Uploads \union {None}, NEW arg,
             Enqueue(t, op, u, arg), u = None <=> op \in {"create", "createProject"}
      PROVE  TaskChanges
  <2> DEFINE lane == IF u = None THEN Creation ELSE u
  <2>1. /\ task'[t] = [IdleTask EXCEPT !.pc = "queued", !.op = op, !.upload = u, !.arg = arg]
        /\ \A s \in Runners \ {t} : task'[s] = task[s]
        /\ queue' = [queue EXCEPT ![lane] = Append(@, t)] /\ task[t].pc = "idle"
    BY <1>1 DEF Enqueue, LibraryInv, TypeOK, Runners
  <2>2. task'[t].pc = "queued" /\ task'[t].op = op /\ task'[t].upload = u
    BY <2>1 DEF IdleTask
  <2>3. Lane(t)' = lane /\ lane \in Lanes
    BY <1>1, <2>2 DEF Lane, Creates, Lanes
  <2> QED BY <2>1, <2>2, <2>3 DEF TaskChanges, Arrives
<1>2. CASE Requests
  <2>1. None \notin Uploads
    BY ConstantsOK
  <2> QED BY <1>1, <1>2, <2>1 DEF Requests, RequestCreate, RequestAppend, RequestComplete,
             RequestCancel, Operations
<1>3. ASSUME NEW t \in Runners, TaskStep(t) PROVE TaskChanges
  BY <1>3, CreatingGoesOn, AppendingGoesOn, CommittingGoesOn, OtherGoesOn
     DEF TaskStep, TaskChanges
<1>4. ASSUME NEW t \in Runners, Fail(t) PROVE TaskChanges
  BY <1>4, FinishSettles DEF Fail, Throw, TaskChanges
<1>5. CASE Stop \/ Start \/ Serve \/ UNCHANGED vars
  BY <1>5 DEF Stop, Start, Serve, vars, TaskChanges
<1>6. ASSUME NEW u \in Uploads, Reconcile(u) PROVE TaskChanges
  <2>1. Visit(u) /\ Recovery \in Runners
    BY <1>6 DEF Runners, Reconcile, ReconcileSettled, ReconcileStaged, ReconcileVerified,
       ReconcileCommitted, ReconcileCancelled
  <2>2. \/ \E pc \in {"hash", "rehash", "adopt", "remove"} : ResumeAt(u, pc)
        \/ \E state, next : SettleAs(u, state, next)
    BY <1>6 DEF Reconcile, ReconcileSettled, ReconcileStaged, ReconcileVerified,
       ReconcileCommitted, ReconcileCancelled
  <2>3. /\ \A s \in Runners \ {Recovery} : task'[s] = task[s]
        /\ task'[Recovery].pc \in {"hash", "rehash", "adopt", "remove", "mirror"}
    <3>1. task \in [Runners -> Locals] /\ task[Recovery] \in Locals
      BY <2>1 DEF LibraryInv, TypeOK
    <3>2. ASSUME NEW pc \in {"hash", "rehash", "adopt", "remove"}, ResumeAt(u, pc)
          PROVE  /\ \A s \in Runners \ {Recovery} : task'[s] = task[s]
                 /\ task'[Recovery].pc = pc
      BY <2>1, <3>1, <3>2 DEF ResumeAt, Locals
    <3>3. ASSUME NEW state, NEW next, SettleAs(u, state, next)
          PROVE  /\ \A s \in Runners \ {Recovery} : task'[s] = task[s]
                 /\ task'[Recovery].pc = "mirror"
      BY <2>1, <3>1, <3>3 DEF SettleAs, Locals
    <3> QED BY <2>2, <3>2, <3>3
  <2> QED BY <2>1, <2>3 DEF Visit, Alters, Resumes, TaskChanges
<1> QED BY <1>2, <1>3, <1>4, <1>5, <1>6 DEF Next, Recovering

\* Each step of a request brings it nearer to its end, so no path through the commit, its
\* errors and its manifests is a loop, and the reconciliation visits each upload once.
THEOREM TasksEnd == Spec => TasksRunDown
<1>1. LibraryInv /\ BytesInv /\ [Next]_vars =>
        \A t \in Runners :
          task[t].pc # "idle" /\ task'[t] # task[t] => StepsLeft(t)' < StepsLeft(t)
  <2> SUFFICES ASSUME LibraryInv, BytesInv, [Next]_vars, NEW t \in Runners,
                      task[t].pc # "idle", task'[t] # task[t]
               PROVE  StepsLeft(t)' < StepsLeft(t)
    OBVIOUS
  <2>1. StepsLeft(t) > 0
    BY LeftOf
  <2>2. ASSUME task'[t] = IdleTask PROVE StepsLeft(t)' = 0
    BY <2>2 DEF StepsLeft, StepsFrom, IdleTask
  <2>3. CASE Halt
    BY <2>1, <2>2, <2>3 DEF Halt
  <2>4. ASSUME NEW s \in Runners, Advances(s) PROVE StepsLeft(t)' < StepsLeft(t)
    BY <2>4 DEF Advances, Alters
  <2>5. ASSUME NEW s \in Runners, Settles(s) PROVE StepsLeft(t)' < StepsLeft(t)
    <3>1. task' = [task EXCEPT ![s] = IdleTask] /\ task \in [Runners -> Locals]
      BY <2>5 DEF Settles, Finish, LibraryInv, TypeOK
    <3> QED BY <2>1, <2>2, <3>1
  <2>6. ASSUME NEW s \in Tasks, NEW lane \in Lanes, Arrives(s, lane) PROVE FALSE
    BY <2>6 DEF Arrives
  <2>7. ~Resumes /\ ~UNCHANGED <<task, queue>>
    BY DEF Resumes, Alters
  <2> QED BY <2>3, <2>4, <2>5, <2>6, <2>7, TasksChange DEF TaskChanges
<1>2. [Next]_vars => (mode = "recovering" /\ mode' = "recovering" => todo' \subseteq todo)
  <2> SUFFICES ASSUME [Next]_vars, mode = "recovering", mode' = "recovering"
               PROVE  todo' \subseteq todo
    OBVIOUS
  <2>1. ASSUME NEW t \in Runners, TaskStep(t) \/ Fail(t) PROVE todo' = todo
    <3>1. CASE Fail(t)
      BY <3>1 DEF Fail, Throw, Halt
    <3>2. CASE Creating(t)
      BY <3>2 DEF Creating, BeginCreate, RefuseCreation, AdmitCreation, InsertRow, BindUpload,
         Answer
    <3>3. CASE Appending(t)
      BY <3>3 DEF Appending, AnswerAppend, BeginAppend, WriteByte, PersistChunk, Answer
    <3>4. CASE Committing(t)
      BY <3>4 DEF Committing, AnswerComplete, BeginComplete, HashStaging, RehashStaging,
         FindBlob, ReuseBlob, MoveToBlob, MarkCommitted, AdoptBlob, VerifyBlob,
         CreateReference, Answer, Mark, MarkRecoverableError, Throw, Halt
    <3>5. CASE Cancelling(t) \/ LandManifest(t)
      BY <3>5 DEF Cancelling, AnswerCancel, BeginCancel, RemoveStaging, Answer, Mark,
         LandManifest
    <3> QED BY <2>1, <3>1, <3>2, <3>3, <3>4, <3>5 DEF TaskStep
  <2>2. CASE Requests
    BY <2>2 DEF Requests, RequestCreate, RequestAppend, RequestComplete, RequestCancel, Enqueue
  <2>3. CASE Stop \/ Start \/ Serve \/ UNCHANGED vars
    BY <2>3 DEF Stop, Halt, Start, Serve, vars
  <2>4. ASSUME NEW u \in Uploads, Reconcile(u) PROVE todo' \subseteq todo
    BY <2>4 DEF Reconcile, ReconcileSettled, ReconcileStaged, ReconcileVerified,
       ReconcileCommitted, ReconcileCancelled, Visit
  <2> QED BY <2>1, <2>2, <2>3, <2>4 DEF Next, Recovering
<1> QED BY <1>1, <1>2, LibraryInvariant, BytesInvariant, PTL DEF Spec, TasksRunDown

\* A lane holds the requests that wait in it and the one at work, each once, and the order
\* of the queue is the order in which they are served.
LEMMA LanesNext ==
  ASSUME \A l \in Lanes :
           /\ \A i \in DOMAIN queue'[l] : \A s :
                queue'[l][i] = s => task'[s].pc # "idle" /\ Lane(s)' = l
           /\ \A i, j \in DOMAIN queue'[l] : queue'[l][i] = queue'[l][j] => i = j
  PROVE  LanesExact'
BY DEF LanesExact, Lane, Creates

LEMMA LanesExactStep ==
  ASSUME LibraryInv, LanesExact, TaskChanges
  PROVE  LanesExact'
<1>0. /\ queue \in [Lanes -> Seq(Tasks)] /\ task \in [Runners -> Locals]
      /\ Tasks \subseteq Runners /\ Recovery \notin Tasks
  BY ConstantsOK DEF LibraryInv, TypeOK, Runners
<1>1. ASSUME NEW t \in Tasks, NEW lane \in Lanes, Arrives(t, lane) PROVE LanesExact'
  <2> SUFFICES ASSUME NEW l \in Lanes
               PROVE  /\ \A i \in DOMAIN queue'[l] : \A s :
                           queue'[l][i] = s => task'[s].pc # "idle" /\ Lane(s)' = l
                      /\ \A i, j \in DOMAIN queue'[l] : queue'[l][i] = queue'[l][j] => i = j
    BY LanesNext
  <2>1. /\ \A i \in DOMAIN queue[l] : /\ task[queue[l][i]].pc # "idle" /\ Lane(queue[l][i]) = l
                                      /\ queue[l][i] \in Tasks /\ queue[l][i] # t
        /\ \A i, j \in DOMAIN queue[l] : queue[l][i] = queue[l][j] => i = j
    BY <1>0, <1>1 DEF LanesExact, Arrives
  <2>2. \A s \in Tasks \ {t} : task'[s] = task[s] /\ Lane(s)' = Lane(s)
    BY <1>0, <1>1 DEF Arrives, Lane, Creates
  <2>3. CASE l # lane
    <3>1. queue'[l] = queue[l]
      BY <1>0, <1>1, <2>3 DEF Arrives
    <3>2. ASSUME NEW i \in DOMAIN queue'[l], NEW s, queue'[l][i] = s
          PROVE  task'[s].pc # "idle" /\ Lane(s)' = l
      <4>1. s \in Tasks \ {t} /\ task[s].pc # "idle" /\ Lane(s) = l
        BY <2>1, <3>1, <3>2
      <4> QED BY <2>2, <4>1
    <3> QED BY <2>1, <3>1, <3>2
  <2>4. CASE l = lane
    <3> DEFINE q == queue[l]
               n == Len(q) + 1
    <3>1. queue'[l] = Append(q, t) /\ q \in Seq(Tasks)
      BY <1>0, <1>1, <2>4 DEF Arrives
    <3>2. /\ DOMAIN queue'[l] = 1 .. n /\ queue'[l][n] = t
          /\ \A i \in DOMAIN q : queue'[l][i] = q[i]
          /\ DOMAIN q = 1 .. n - 1 /\ n \in Nat \ {0}
      BY <3>1
    <3>3. \A i \in 1 .. n : i = n \/ i \in DOMAIN q
      BY <3>2
    <3>4. task'[t].pc # "idle" /\ Lane(t)' = l
      BY <1>1, <2>4 DEF Arrives
    <3> HIDE DEF q, n
    <3>5. ASSUME NEW i \in 1 .. n, NEW s, queue'[l][i] = s
          PROVE  task'[s].pc # "idle" /\ Lane(s)' = l
      <4>1. CASE i = n
        BY <3>2, <3>4, <3>5, <4>1
      <4>2. CASE i \in DOMAIN q
        <5>1. queue[l][i] = s /\ i \in DOMAIN queue[l]
          BY <3>2, <3>5, <4>2 DEF q
        <5>2. s \in Tasks \ {t} /\ task[s].pc # "idle" /\ Lane(s) = l
          BY <2>1, <5>1
        <5> QED BY <2>2, <5>2
      <4> QED BY <3>3, <4>1, <4>2
    <3>6. ASSUME NEW i \in 1 .. n, NEW j \in 1 .. n, queue'[l][i] = queue'[l][j] PROVE i = j
      BY <2>1, <3>2, <3>3, <3>6 DEF q
    <3> QED BY <3>2, <3>5, <3>6
  <2> QED BY <2>3, <2>4
<1>2. CASE Halt
  BY <1>2 DEF Halt, LanesExact
<1>3. ASSUME queue' = queue, \A s \in Tasks : task[s].pc # "idle" =>
                                task'[s].pc # "idle" /\ Lane(s)' = Lane(s)
      PROVE  LanesExact'
  <2>1. \A l \in Lanes : \A i \in DOMAIN queue[l] : queue[l][i] \in Tasks
    BY <1>0
  <2> QED BY <1>3, <2>1 DEF LanesExact
<1>4. ASSUME NEW t \in Runners, Advances(t) PROVE LanesExact'
  <2>1. \A s \in Tasks : task[s].pc # "idle" => task'[s].pc # "idle" /\ Lane(s)' = Lane(s)
    BY <1>0, <1>4 DEF Advances, Alters, Lane, Creates
  <2> QED BY <1>3, <1>4, <2>1 DEF Advances, Alters
<1>5. ASSUME NEW t \in Runners, Settles(t) PROVE LanesExact'
  <2>0. task'[t] = IdleTask /\ \A s \in Runners \ {t} : task'[s] = task[s] /\ Lane(s)' = Lane(s)
    BY <1>0, <1>5 DEF Settles, Finish, Lane, Creates
  <2>1. CASE t = Recovery
    <3>1. \A s \in Tasks : task'[s] = task[s] /\ Lane(s)' = Lane(s)
      BY <1>0, <2>0, <2>1
    <3> QED BY <1>3, <1>5, <2>1, <3>1 DEF Settles, Finish
  <2>2. CASE t # Recovery
    <3> DEFINE lane == Lane(t)
               q == queue[lane]
    <3>1. t \in Tasks /\ lane \in Lanes /\ q \in Seq(Tasks) /\ q # <<>> /\ q[1] = t
      BY <1>5, <2>2, Holding DEF LibraryInv, Settles
    <3>2. queue' = [queue EXCEPT ![lane] = Tail(q)]
      BY <1>5, <2>2 DEF Settles, Finish
    <3> SUFFICES ASSUME NEW l \in Lanes
                 PROVE  /\ \A i \in DOMAIN queue'[l] : \A s :
                             queue'[l][i] = s => task'[s].pc # "idle" /\ Lane(s)' = l
                        /\ \A i, j \in DOMAIN queue'[l] : queue'[l][i] = queue'[l][j] => i = j
      BY LanesNext
    <3>3. /\ \A i \in DOMAIN queue[l] : /\ task[queue[l][i]].pc # "idle" /\ Lane(queue[l][i]) = l
                                        /\ queue[l][i] \in Tasks
          /\ \A i, j \in DOMAIN queue[l] : queue[l][i] = queue[l][j] => i = j
      BY <1>0 DEF LanesExact
    <3>4. CASE l # lane
      <4>1. queue'[l] = queue[l] /\ \A i \in DOMAIN queue[l] : queue[l][i] # t
        BY <1>0, <3>2, <3>3, <3>4
      <4>2. ASSUME NEW i \in DOMAIN queue'[l], NEW s, queue'[l][i] = s
            PROVE  task'[s].pc # "idle" /\ Lane(s)' = l
        <5>1. s \in Runners \ {t} /\ task[s].pc # "idle" /\ Lane(s) = l
          BY <1>0, <3>3, <4>1, <4>2
        <5> QED BY <2>0, <5>1
      <4> QED BY <3>3, <4>1, <4>2
    <3>5. CASE l = lane
      <4>1. queue'[l] = Tail(q)
        BY <1>0, <3>1, <3>2, <3>5
      <4>2. /\ Len(q) \in Nat \ {0} /\ DOMAIN q = 1 .. Len(q) /\ DOMAIN Tail(q) = 1 .. Len(q) - 1
            /\ \A i \in 1 .. Len(q) - 1 : Tail(q)[i] = q[i + 1]
        BY <3>1
      <4>3. ASSUME NEW i \in 1 .. Len(q) - 1
            PROVE  /\ i + 1 \in DOMAIN q /\ queue'[l][i] = q[i + 1] /\ q[i + 1] # t
                   /\ q[i + 1] \in Tasks
        <5>1. i + 1 \in DOMAIN q /\ i + 1 # 1 /\ 1 \in DOMAIN q /\ queue'[l][i] = q[i + 1]
          BY <4>1, <4>2
        <5> QED BY <3>1, <3>3, <3>5, <5>1
      <4>4. ASSUME NEW i \in 1 .. Len(q) - 1, NEW s, queue'[l][i] = s
            PROVE  task'[s].pc # "idle" /\ Lane(s)' = l
        <5>1. s \in Runners \ {t} /\ task[s].pc # "idle" /\ Lane(s) = l
          BY <1>0, <3>3, <3>5, <4>3, <4>4
        <5> QED BY <2>0, <5>1
      <4>5. ASSUME NEW i \in 1 .. Len(q) - 1, NEW j \in 1 .. Len(q) - 1,
                   queue'[l][i] = queue'[l][j]
            PROVE  i = j
        <5>1. i + 1 = j + 1
          BY <3>3, <3>5, <4>3, <4>5
        <5> QED BY <4>2, <5>1
      <4> QED BY <4>1, <4>2, <4>4, <4>5
    <3> QED BY <3>4, <3>5
  <2> QED BY <2>1, <2>2
<1>6. CASE Resumes
  <2>1. \A s \in Tasks : task'[s] = task[s] /\ Lane(s)' = Lane(s)
    BY <1>0, <1>6 DEF Resumes, Alters, Lane, Creates
  <2> QED BY <1>3, <1>6, <2>1 DEF Resumes, Alters
<1>7. CASE UNCHANGED <<task, queue>>
  BY <1>7 DEF LanesExact, Lane, Creates
<1> QED BY <1>1, <1>2, <1>4, <1>5, <1>6, <1>7 DEF TaskChanges

\* The queues of the promises hold each request once, in the lane of its upload or of the
\* creations, from its arrival until it is settled, also when it fails or the process stops.
THEOREM LanesAreExact == Spec => []LanesExact
<1>1. Init => LanesExact
  BY DEF Init, LanesExact
<1>2. LibraryInv /\ BytesInv /\ LanesExact /\ [Next]_vars => LanesExact'
  BY TasksChange, LanesExactStep
<1> QED BY <1>1, <1>2, LibraryInvariant, BytesInvariant, PTL DEF Spec

\* Requests of one upload, and creations, are served in the order of their arrival: what is
\* before a waiting request only becomes less.
THEOREM NoneOvertakes == Spec => NoOvertaking
<1>1. LibraryInv /\ BytesInv /\ [Next]_vars =>
        \A t \in Tasks : task[t].pc = "queued" /\ task'[t].pc = "queued"
                           => Before(t)' \subseteq Before(t)
  <2> SUFFICES ASSUME LibraryInv, BytesInv, [Next]_vars, NEW t \in Tasks,
                      task[t].pc = "queued", task'[t].pc = "queued",
                      NEW s \in Before(t)'
               PROVE  s \in Before(t)
    OBVIOUS
  <2> DEFINE q == queue[Lane(t)]
  <2>0. /\ queue \in [Lanes -> Seq(Tasks)] /\ task \in [Runners -> Locals] /\ t \in Runners
        /\ t # Recovery
    BY ConstantsOK DEF LibraryInv, TypeOK, Runners
  <2>1. Lane(t) \in Lanes /\ q \in Seq(Tasks) /\ q # <<>>
    BY <2>0, Holding DEF LibraryInv
  <2>2. PICK i, j \in DOMAIN queue'[Lane(t)'] :
          /\ s \in Tasks /\ i < j /\ queue'[Lane(t)'][i] = s /\ queue'[Lane(t)'][j] = t
    BY DEF Before
  <2>3. ASSUME Lane(t)' = Lane(t), queue'[Lane(t)] = q PROVE s \in Before(t)
    BY <2>2, <2>3 DEF Before
  <2>4. CASE Halt
    BY <2>0, <2>4 DEF Halt, IdleTask
  <2>5. ASSUME NEW r \in Tasks, NEW lane \in Lanes, Arrives(r, lane) PROVE s \in Before(t)
    <3>1. r # t /\ Lane(t)' = Lane(t)
      BY <2>0, <2>5 DEF Arrives, Lane, Creates
    <3>2. CASE lane # Lane(t)
      BY <2>0, <2>1, <2>3, <2>5, <3>1, <3>2 DEF Arrives
    <3>3. CASE lane = Lane(t)
      <4>1. queue'[Lane(t)] = Append(q, r)
        BY <2>0, <2>1, <2>5, <3>3 DEF Arrives
      <4>2. j \in 1 .. Len(q) /\ i \in 1 .. Len(q)
        <5>1. /\ DOMAIN Append(q, r) = 1 .. Len(q) + 1 /\ Append(q, r)[Len(q) + 1] = r
              /\ Len(q) \in Nat
          BY <2>1
        <5> QED BY <2>2, <3>1, <4>1, <5>1
      <4>3. q[i] = s /\ q[j] = t /\ DOMAIN q = 1 .. Len(q)
        BY <2>1, <2>2, <3>1, <4>1, <4>2
      <4> QED BY <2>2, <4>2, <4>3 DEF Before
    <3> QED BY <3>2, <3>3
  <2>6. ASSUME NEW r \in Runners, Advances(r) PROVE s \in Before(t)
    <3>1. r # t
      BY <2>6 DEF Advances
    <3>2. Lane(t)' = Lane(t)
      BY <2>0, <2>6, <3>1 DEF Advances, Alters, Lane, Creates
    <3> QED BY <2>3, <2>6, <3>2 DEF Advances, Alters
  <2>7. ASSUME NEW r \in Runners, Settles(r) PROVE s \in Before(t)
    <3>1. task'[r] = IdleTask /\ r # t
      BY <2>0, <2>7 DEF Settles, Finish, IdleTask
    <3>2. Lane(t)' = Lane(t)
      BY <2>0, <2>7, <3>1 DEF Settles, Finish, Lane, Creates
    <3>3. CASE queue'[Lane(t)] = q
      BY <2>3, <3>2, <3>3
    <3>4. CASE queue'[Lane(t)] # q
      <4>1. queue'[Lane(t)] = Tail(q)
        BY <2>0, <2>1, <2>7, <3>4 DEF Settles, Finish
      <4>2. /\ DOMAIN Tail(q) = 1 .. Len(q) - 1 /\ DOMAIN q = 1 .. Len(q) /\ Len(q) \in Nat
            /\ \A k \in 1 .. Len(q) - 1 : Tail(q)[k] = q[k + 1]
        BY <2>1
      <4>3. i \in 1 .. Len(q) - 1 /\ j \in 1 .. Len(q) - 1
        BY <2>2, <3>2, <4>1, <4>2
      <4>4. /\ i + 1 \in DOMAIN q /\ j + 1 \in DOMAIN q /\ i + 1 < j + 1
            /\ q[i + 1] = s /\ q[j + 1] = t
        BY <2>2, <3>2, <4>1, <4>2, <4>3
      <4> QED BY <2>2, <4>4 DEF Before
    <3> QED BY <3>3, <3>4
  <2>8. CASE Resumes
    <3>1. Lane(t)' = Lane(t)
      BY <2>0, <2>8 DEF Resumes, Alters, Lane, Creates
    <3> QED BY <2>3, <2>8, <3>1 DEF Resumes, Alters
  <2>9. CASE UNCHANGED <<task, queue>>
    BY <2>3, <2>9 DEF Lane, Creates
  <2> QED BY <2>4, <2>5, <2>6, <2>7, <2>8, <2>9, TasksChange DEF TaskChanges
<1> QED BY <1>1, LibraryInvariant, BytesInvariant, PTL DEF Spec, NoOvertaking

=============================================================================
