--------------------------- MODULE MaterialLibrary ---------------------------
(***************************************************************************)
(* The material library of the Mac server: apps/server/src/uploads.        *)
(*                                                                         *)
(* An upload is a row of SQLite, a staging file, and a JSON manifest that  *)
(* mirrors the row.  A finished upload becomes a blob file named by its    *)
(* SHA-256, a row of the table blobs and a row of material_references.     *)
(* Files, rows and manifests are changed by separate steps of one request; *)
(* requests interleave at every await, and the process can stop, or a call *)
(* to the file system or the database can throw, between any two steps.    *)
(*                                                                         *)
(* Each request is a task with a program counter: one step is the code     *)
(* between two awaits, or one effect on the disk.  The requests of one     *)
(* upload run one at a time in arrival order, and so do all creations.     *)
(* Recovery is the one task that runs before the server accepts requests.  *)
(*                                                                         *)
(* Data: a file is a function from offsets to bytes, a byte names the file *)
(* it belongs to (its SHA-256), and hashing a file asks whether its bytes  *)
(* are exactly those of one file.                                          *)
(***************************************************************************)
EXTENDS Integers, Sequences, FiniteSets

CONSTANTS
  Uploads,    \* the identifiers randomUUID can yield
  Shas,       \* the SHA-256 of the files phones hold
  FileSize,   \* the size in bytes of the file with each SHA-256
  MaxBytes,   \* the bound on declared sizes: offsets are below it
  Capacity,   \* the bytes of the volume that holds the material root
  Declared,   \* the [sha, size] a creation may declare
  Packets,    \* the chunk packets a transfer may deliver
  Tasks,      \* requests the server can be working on at the same time
  Recovery,   \* the start-up reconciliation, the one task that is no request
  Creation,   \* the lane of CreationOperationQueue
  MaxFaults,  \* the bound on process stops and failing calls
  Hole,       \* the content of an offset that was never written
  None        \* no upload, no argument, no file, no manifest

Offsets  == 0 .. MaxBytes - 1
Runners  == Tasks \union {Recovery}
Lanes    == Uploads \union {Creation}
Contents == [Offsets -> Shas \union {Hole}]

ASSUME ConstantsOK ==
  /\ MaxBytes \in Nat \ {0}
  /\ Capacity \in Nat
  /\ MaxFaults \in Nat
  /\ IsFiniteSet(Uploads) /\ IsFiniteSet(Shas)
  /\ FileSize \in [Shas -> 1 .. MaxBytes]
  /\ Declared \subseteq [sha : Shas, size : 1 .. MaxBytes]
  /\ Packets \subseteq [index : Nat, offset : Nat, size : 1 .. MaxBytes,
                        data : Shas, checksum : Shas]
  /\ Recovery \notin Tasks
  /\ Creation \notin Uploads
  /\ Hole \notin Shas
  /\ None \notin Uploads \union Shas \union Declared \union Packets
  /\ None \notin Contents

VARIABLES
  row,        \* table uploads
  chunks,     \* table upload_chunks, per upload
  blobs,      \* table blobs: the SHA-256 it has a row for
  refs,       \* table material_references
  bound,      \* table project_upload_transfer_bindings: uploads with a row
  staging,    \* the staging file of each upload
  blobFile,   \* the file at the blob path of each SHA-256
  manifest,   \* the manifest file of each upload
  mode,       \* "down", "recovering" or "serving"
  todo,       \* uploads the reconciliation has still to visit
  task,       \* program counter and local variables of every task
  queue,      \* the tasks of each lane in arrival order, the running one first
  faults      \* process stops and failing calls so far

database == <<row, chunks, blobs, refs, bound>>
files    == <<staging, blobFile, manifest>>
vars     == <<database, files, mode, todo, task, queue, faults>>

States == {"absent", "transferring", "staged", "hash_verified", "committed",
           "ready", "recoverable_error", "cancelled"}
Chunk  == [index : Nat, offset : Nat, size : 1 .. MaxBytes, checksum : Shas]
Images == [state : States, chunks : SUBSET Chunk]
Steps  == {"idle", "queued", "admit", "insert", "bind", "write", "persist",
           "mirror", "hash", "rehash", "find", "reuse", "move", "commit",
           "adopt", "verify", "reference", "remove"}
Operations == {"none", "create", "createProject", "append", "complete",
               "cancel", "reconcile"}

Rows  == [state : States, sha : Shas \union {None}, size : 0 .. MaxBytes,
          received : Nat, ackEpoch : Nat]
Locals == [pc : Steps, op : Operations, upload : Uploads \union {None},
           arg : Declared \union Packets \union {None}, createBlob : BOOLEAN,
           reserved : Nat, written : Nat, image : Images \union {None},
           next : Steps]

NoRow    == [state |-> "absent", sha |-> None, size |-> 0, received |-> 0,
             ackEpoch |-> 0]
IdleTask == [pc |-> "idle", op |-> "none", upload |-> None, arg |-> None,
             createBlob |-> FALSE, reserved |-> 0, written |-> 0,
             image |-> None, next |-> "idle"]
EmptyFile == [o \in Offsets |-> Hole]

Init ==
  /\ row = [u \in Uploads |-> NoRow]
  /\ chunks = [u \in Uploads |-> {}]
  /\ blobs = {} /\ refs = {} /\ bound = {}
  /\ staging = [u \in Uploads |-> None]
  /\ blobFile = [h \in Shas |-> None]
  /\ manifest = [u \in Uploads |-> None]
  /\ mode = "down" /\ todo = {}
  /\ task = [t \in Runners |-> IdleTask]
  /\ queue = [l \in Lanes |-> <<>>]
  /\ faults = 0

-----------------------------------------------------------------------------
(* Files, sizes and space *)

\* hashFile(file) = sha256
HashesTo(file, h) ==
  file = [o \in Offsets |-> IF o < FileSize[h] THEN h ELSE Hole]

Exists(file) == file # None

BytesIn(S, file) ==
  {p \in S \X Offsets : Exists(file[p[1]]) /\ file[p[1]][p[2]] # Hole}

\* availableStorageBytes: what the files of the material root leave free
AvailableBytes ==
  Capacity - Cardinality(BytesIn(Uploads, staging))
           - Cardinality(BytesIn(Shas, blobFile))

\* Mutant: an upload reserves only what it has received.
ReservedBytes_Received ==
  Cardinality({p \in Uploads \X Offsets :
                 row[p[1]].state = "transferring" /\ p[2] < row[p[1]].received})

\* reservedUploadBytes: the declared bytes of every upload still transferring
ReservedBytes ==
  Cardinality({p \in Uploads \X Offsets :
                 row[p[1]].state = "transferring" /\ p[2] < row[p[1]].size})

\* assessUploadAdmission
Admits(available, reserved, size) == available - reserved >= size

RangeOf(c) == c.offset .. c.offset + c.size - 1

\* Mutant: the overlap with stored chunks is not looked at.
Fits_Overlapping(p, u) == p.offset + p.size <= row[u].size

\* assertChunkFits, the rows of upload_chunks taken before the first await
Fits(p, u) ==
  /\ p.offset + p.size <= row[u].size
  /\ \A c \in chunks[u] : RangeOf(p) \intersect RangeOf(c) = {}

ChunkOf(p) == [index |-> p.index, offset |-> p.offset, size |-> p.size,
               checksum |-> p.checksum]

-----------------------------------------------------------------------------
(* The operation queues and the moves of a task between its steps *)

Creates(t) == task[t].op \in {"create", "createProject"}
Lane(t)    == IF Creates(t) THEN Creation ELSE task[t].upload

\* A request takes its place at the tail of its lane.
Enqueue(t, op, u, arg) ==
  LET lane == IF u = None THEN Creation ELSE u IN
  /\ mode = "serving" /\ task[t].pc = "idle"
  /\ task' = [task EXCEPT ![t] = [IdleTask EXCEPT !.pc = "queued", !.op = op,
                                                  !.upload = u, !.arg = arg]]
  /\ queue' = [queue EXCEPT ![lane] = Append(@, t)]
  /\ UNCHANGED <<database, files, mode, todo, faults>>

\* Mutant: the tail of the lane never settles.
Finish_Blocking(t) == task' = [task EXCEPT ![t] = IdleTask] /\ UNCHANGED queue

\* The operation settles, with a result or an exception, and the next starts.
Finish(t) ==
  /\ task' = [task EXCEPT ![t] = IdleTask]
  /\ queue' = IF t = Recovery THEN queue
              ELSE [queue EXCEPT ![Lane(t)] = Tail(@)]

\* Mutant: an operation does not wait for the one before it.
AtHead_Unqueued(t, op) == task[t].pc = "queued" /\ task[t].op = op

AtHead(t, op) ==
  /\ task[t].pc = "queued" /\ task[t].op = op
  /\ Head(queue[Lane(t)]) = t

Goto(t, pc) ==
  /\ task' = [task EXCEPT ![t].pc = pc]
  /\ UNCHANGED queue

\* persistUploadManifest: the manifest's text is fixed now, its file comes later.
Capture(t, u, state, persisted, next) ==
  /\ task' = [task EXCEPT ![t] =
                [@ EXCEPT !.pc = "mirror", !.next = next, !.upload = u,
                          !.image = [state |-> state, chunks |-> persisted]]]
  /\ UNCHANGED queue

\* updateStateAndPersist, up to its await
Mark(t, u, state, next) ==
  /\ row' = [row EXCEPT ![u].state = state]
  /\ Capture(t, u, state, chunks[u], next)
  /\ UNCHANGED <<chunks, blobs, refs, bound, files, mode, todo, faults>>

\* Mutant: a state that uploadStateSchema does not know.
MarkRecoverableError_Unknown(t) == Mark(t, task[t].upload, "failed", "idle")

MarkRecoverableError(t) == Mark(t, task[t].upload, "recoverable_error", "idle")

\* writeManifestAtomically renames the new manifest over the old one.
LandManifest(t) ==
  /\ task[t].pc = "mirror"
  /\ manifest' = [manifest EXCEPT ![task[t].upload] = task[t].image]
  /\ IF task[t].next = "idle" THEN Finish(t) ELSE Goto(t, task[t].next)
  /\ UNCHANGED <<database, staging, blobFile, mode, todo, faults>>

\* The request is answered, or refused, without touching the disk.
Answer(t) ==
  /\ Finish(t)
  /\ UNCHANGED <<database, files, mode, todo, faults>>

\* The process is gone: every promise, queue and local variable with it.
Halt ==
  /\ mode' = "down" /\ todo' = {}
  /\ task' = [t \in Runners |-> IdleTask]
  /\ queue' = [l \in Lanes |-> <<>>]

\* An exception rejects one request, or the start of the server.
Throw(t) == IF t = Recovery THEN Halt ELSE Finish(t) /\ UNCHANGED <<mode, todo>>

-----------------------------------------------------------------------------
(* createUpload and createProjectUpload *)

Unused == {u \in Uploads : /\ row[u].state = "absent" /\ staging[u] = None
                           /\ \A t \in Tasks : task[t].upload # u}

\* Bounded by the identifiers left, so that no creation runs out of them.
RequestCreate(t, d, op) ==
  /\ op \in {"create", "createProject"}
  /\ Cardinality({s \in Tasks : Creates(s) /\ task[s].upload = None})
       < Cardinality(Unused)
  /\ Enqueue(t, op, None, d)

\* The reservation is read before the await on the free space.
BeginCreate(t) ==
  /\ AtHead(t, "create") \/ AtHead(t, "createProject")
  /\ task' = [task EXCEPT ![t] = [@ EXCEPT !.pc = "admit",
                                          !.reserved = ReservedBytes]]
  /\ UNCHANGED <<database, files, mode, todo, queue, faults>>

RefuseCreation(t) ==
  /\ task[t].pc = "admit"
  /\ ~Admits(AvailableBytes, task[t].reserved, task[t].arg.size)
  /\ Answer(t)

\* ensureEmptyStagingFile for a fresh identifier
AdmitCreation(t, u) ==
  /\ task[t].pc = "admit" /\ u \in Unused
  /\ Admits(AvailableBytes, task[t].reserved, task[t].arg.size)
  /\ staging' = [staging EXCEPT ![u] = EmptyFile]
  /\ task' = [task EXCEPT ![t] = [@ EXCEPT !.pc = "insert", !.upload = u]]
  /\ UNCHANGED <<database, blobFile, manifest, mode, todo, queue, faults>>

InsertRow(t) ==
  LET u == task[t].upload IN
  /\ task[t].pc = "insert"
  /\ row' = [row EXCEPT ![u] = [state |-> "transferring", sha |-> task[t].arg.sha,
                                size |-> task[t].arg.size, received |-> 0,
                                ackEpoch |-> 0]]
  /\ Capture(t, u, "transferring", chunks[u],
             IF task[t].op = "createProject" THEN "bind" ELSE "idle")
  /\ UNCHANGED <<chunks, blobs, refs, bound, files, mode, todo, faults>>

\* createProjectUploadTransferBinding: only now can the phone resume the upload.
BindUpload(t) ==
  /\ task[t].pc = "bind"
  /\ bound' = bound \union {task[t].upload}
  /\ Finish(t)
  /\ UNCHANGED <<row, chunks, blobs, refs, files, mode, todo, faults>>

-----------------------------------------------------------------------------
(* appendChunk *)

\* A caller has the identifier of an upload from the answer to its creation.
Known(u) == row[u].state # "absent" /\ \A s \in Tasks : Creates(s) => task[s].upload # u

RequestAppend(t, u, p)  == Known(u) /\ Enqueue(t, "append", u, p)
RequestComplete(t, u)   == Known(u) /\ Enqueue(t, "complete", u, None)
RequestCancel(t, u)     == Known(u) /\ Enqueue(t, "cancel", u, None)

\* assertTransferring, assertChunkMatches, no chunk of that index, assertChunkFits
NewChunk(u, p) ==
  /\ row[u].state = "transferring"
  /\ p.data = p.checksum
  /\ \A c \in chunks[u] : c.index # p.index
  /\ Fits(p, u)

\* An exception, or the acknowledgement of a chunk that is already stored.
AnswerAppend(t) ==
  /\ AtHead(t, "append") /\ ~NewChunk(task[t].upload, task[t].arg)
  /\ Answer(t)

\* Mutant: the manifest claims the chunk before it is written and recorded.
BeginAppend_MirrorFirst(t) ==
  /\ AtHead(t, "append") /\ NewChunk(task[t].upload, task[t].arg)
  /\ Capture(t, task[t].upload, "transferring",
             chunks[task[t].upload] \union {ChunkOf(task[t].arg)}, "write")
  /\ UNCHANGED <<database, files, mode, todo, faults>>

BeginAppend(t) ==
  /\ AtHead(t, "append") /\ NewChunk(task[t].upload, task[t].arg)
  /\ Goto(t, "write")
  /\ UNCHANGED <<database, files, mode, todo, faults>>

\* writeChunkAtOffset, one byte of its loop: a stop leaves any prefix behind.
WriteByte(t) ==
  LET p == task[t].arg
      done == task[t].written + 1 IN
  /\ task[t].pc = "write"
  /\ staging' = [staging EXCEPT
                   ![task[t].upload][p.offset + task[t].written] = p.data]
  /\ task' = [task EXCEPT ![t] =
                [@ EXCEPT !.written = done,
                          !.pc = IF done = p.size THEN "persist" ELSE "write"]]
  /\ UNCHANGED <<database, blobFile, manifest, mode, todo, queue, faults>>

\* Mutant: the bytes received are those up to the end of the last chunk.
PersistChunk_HighWater(t) ==
  LET u == task[t].upload
      p == task[t].arg IN
  /\ task[t].pc = "persist"
  /\ chunks' = [chunks EXCEPT ![u] = @ \union {ChunkOf(p)}]
  /\ row' = [row EXCEPT ![u] = [@ EXCEPT !.ackEpoch = row[u].ackEpoch + 1,
                                        !.received = p.offset + p.size]]
  /\ Capture(t, u, row[u].state, chunks[u] \union {ChunkOf(p)}, "idle")
  /\ UNCHANGED <<blobs, refs, bound, files, mode, todo, faults>>

\* persistChunk, one transaction
PersistChunk(t) ==
  LET u == task[t].upload
      p == task[t].arg IN
  /\ task[t].pc = "persist"
  /\ chunks' = [chunks EXCEPT ![u] = @ \union {ChunkOf(p)}]
  /\ row' = [row EXCEPT ![u] = [@ EXCEPT !.ackEpoch = row[u].ackEpoch + 1,
                                        !.received = row[u].received + p.size]]
  /\ Capture(t, u, row[u].state, chunks[u] \union {ChunkOf(p)}, "idle")
  /\ UNCHANGED <<blobs, refs, bound, files, mode, todo, faults>>

-----------------------------------------------------------------------------
(* completeUpload, and the commit that the reconciliation shares with it *)

Complete(u) == row[u].state = "transferring" /\ row[u].received = row[u].size

AnswerComplete(t) ==
  /\ AtHead(t, "complete") /\ ~Complete(task[t].upload)
  /\ Answer(t)

BeginComplete(t) ==
  /\ AtHead(t, "complete") /\ Complete(task[t].upload)
  /\ Mark(t, task[t].upload, "staged", "hash")

ShaOf(t) == row[task[t].upload].sha

\* Mutant: the hash is not compared with the declared one.
HashStaging_Unchecked(t) ==
  task[t].pc = "hash" /\ Mark(t, task[t].upload, "hash_verified", "find")

\* Mutant: a mismatch sends the upload back to the phone.
HashStaging_Retry(t) ==
  /\ task[t].pc = "hash"
  /\ IF HashesTo(staging[task[t].upload], ShaOf(t))
     THEN Mark(t, task[t].upload, "hash_verified", "find")
     ELSE Mark(t, task[t].upload, "transferring", "idle")

HashStaging(t) ==
  /\ task[t].pc = "hash"
  /\ IF HashesTo(staging[task[t].upload], ShaOf(t))
     THEN Mark(t, task[t].upload, "hash_verified", "find")
     ELSE MarkRecoverableError(t)

\* Mutant: the decision is the wrong way round.
FindBlob_Inverted(t) ==
  /\ task[t].pc = "find"
  /\ task' = [task EXCEPT ![t] =
                [@ EXCEPT !.createBlob = ShaOf(t) \in blobs,
                          !.pc = IF ShaOf(t) \in blobs THEN "reuse" ELSE "move"]]
  /\ UNCHANGED <<database, files, mode, todo, queue, faults>>

\* The decision to create the blob row is taken here and used after three awaits.
FindBlob(t) ==
  /\ task[t].pc = "find"
  /\ task' = [task EXCEPT ![t] =
                [@ EXCEPT !.createBlob = ShaOf(t) \notin blobs,
                          !.pc = IF ShaOf(t) \in blobs THEN "reuse" ELSE "move"]]
  /\ UNCHANGED <<database, files, mode, todo, queue, faults>>

ReuseBlob(t) ==
  /\ task[t].pc = "reuse"
  /\ IF Exists(blobFile[ShaOf(t)])
     THEN /\ staging' = [staging EXCEPT ![task[t].upload] = None]
          /\ Goto(t, "commit")
          /\ UNCHANGED <<database, blobFile, manifest, mode, todo, faults>>
     ELSE MarkRecoverableError(t)

\* moveFileWithinMaterialRoot replaces a file that is already there.
MoveToBlob(t) ==
  /\ task[t].pc = "move"
  /\ IF Exists(staging[task[t].upload])
     THEN /\ blobFile' = [blobFile EXCEPT ![ShaOf(t)] = staging[task[t].upload]]
          /\ staging' = [staging EXCEPT ![task[t].upload] = None]
          /\ Goto(t, "commit")
          /\ UNCHANGED <<database, manifest, mode, todo, faults>>
     ELSE MarkRecoverableError(t)

MarkCommitted(t) ==
  /\ task[t].pc = "commit"
  /\ Mark(t, task[t].upload, "committed", "verify")

\* finishCommittedUpload
VerifyBlob(t) ==
  /\ task[t].pc = "verify"
  /\ IF HashesTo(blobFile[ShaOf(t)], ShaOf(t))
     THEN Goto(t, "reference") /\ UNCHANGED <<database, files, mode, todo, faults>>
     ELSE MarkRecoverableError(t)

\* The PRIMARY KEY of blobs and the UNIQUE upload_id of material_references
Conflicts(t) ==
  \/ task[t].createBlob /\ ShaOf(t) \in blobs
  \/ \E r \in refs : r.upload = task[t].upload

\* createReadyReference, one transaction; a conflict throws and nothing changes.
CreateReference(t) ==
  LET u == task[t].upload IN
  /\ task[t].pc = "reference"
  /\ UNCHANGED <<chunks, bound, files, faults>>
  /\ IF Conflicts(t)
     THEN Throw(t) /\ UNCHANGED <<row, blobs, refs>>
     ELSE /\ blobs' = IF task[t].createBlob THEN blobs \union {ShaOf(t)} ELSE blobs
          /\ refs' = refs \union {[upload |-> u, sha |-> ShaOf(t)]}
          /\ row' = [row EXCEPT ![u].state = "ready"]
          /\ Capture(t, u, "ready", chunks[u], "idle")
          /\ UNCHANGED <<mode, todo>>

-----------------------------------------------------------------------------
(* cancelUpload *)

AnswerCancel(t) ==
  /\ AtHead(t, "cancel") /\ row[task[t].upload].state # "transferring"
  /\ Answer(t)

\* Mutant: an upload is cancelled whatever its state.
BeginCancel_Unguarded(t) ==
  AtHead(t, "cancel") /\ Mark(t, task[t].upload, "cancelled", "remove")

\* Mutant: the file is removed before the row says so.
BeginCancel_RemoveFirst(t) ==
  /\ AtHead(t, "cancel") /\ row[task[t].upload].state = "transferring"
  /\ Goto(t, "remove")
  /\ UNCHANGED <<database, files, mode, todo, faults>>

BeginCancel(t) ==
  /\ AtHead(t, "cancel") /\ row[task[t].upload].state = "transferring"
  /\ Mark(t, task[t].upload, "cancelled", "remove")

\* The reconciliation removes the file first and mirrors the row afterwards.
RemoveStaging(t) ==
  LET u == task[t].upload IN
  /\ task[t].pc = "remove"
  /\ staging' = [staging EXCEPT ![u] = None]
  /\ IF t = Recovery THEN Capture(t, u, row[u].state, chunks[u], "idle")
     ELSE Finish(t)
  /\ UNCHANGED <<database, blobFile, manifest, mode, todo, faults>>

-----------------------------------------------------------------------------
(* Start, reconciliation, stop, and failing calls *)

Start ==
  /\ mode = "down"
  /\ mode' = "recovering"
  /\ todo' = {u \in Uploads : row[u].state # "absent"}
  /\ UNCHANGED <<database, files, task, queue, faults>>

Visit(u) ==
  /\ mode = "recovering" /\ task[Recovery].pc = "idle" /\ u \in todo
  /\ todo' = todo \ {u}
  /\ UNCHANGED <<chunks, blobs, refs, bound, files, mode, queue, faults>>

\* The reconciliation of u goes on at pc.
ResumeAt(u, pc) ==
  /\ task' = [task EXCEPT ![Recovery] =
                [@ EXCEPT !.pc = pc, !.op = "reconcile", !.upload = u]]
  /\ UNCHANGED row

\* The row takes a state, maybe its own, and is mirrored.
SettleAs(u, state, next) ==
  /\ row' = [row EXCEPT ![u].state = state]
  /\ task' = [task EXCEPT ![Recovery] =
                [@ EXCEPT !.pc = "mirror", !.next = next, !.op = "reconcile",
                          !.upload = u,
                          !.image = [state |-> state, chunks |-> chunks[u]]]]

\* transferring, ready and recoverable_error
ReconcileSettled(u) ==
  /\ Visit(u)
  /\ row[u].state \in {"transferring", "ready", "recoverable_error"}
  /\ IF row[u].state = "transferring" /\ ~Exists(staging[u])
     THEN SettleAs(u, "recoverable_error", "idle")
     ELSE SettleAs(u, row[u].state, "idle")

\* Mutant: a staged upload is only mirrored.
ReconcileStaged_MirrorOnly(u) ==
  Visit(u) /\ row[u].state = "staged" /\ SettleAs(u, "staged", "idle")

ReconcileStaged(u) ==
  /\ Visit(u) /\ row[u].state = "staged"
  /\ ResumeAt(u, "hash")

\* The staging file has been renamed already, or it has not.
ReconcileVerified(u) ==
  /\ Visit(u) /\ row[u].state = "hash_verified"
  /\ IF Exists(staging[u]) THEN ResumeAt(u, "rehash")
     ELSE IF Exists(blobFile[row[u].sha]) THEN SettleAs(u, "committed", "adopt")
     ELSE SettleAs(u, "recoverable_error", "idle")

RehashStaging(t) ==
  /\ task[t].pc = "rehash"
  /\ IF HashesTo(staging[task[t].upload], ShaOf(t))
     THEN Goto(t, "find") /\ UNCHANGED <<database, files, mode, todo, faults>>
     ELSE MarkRecoverableError(t)

\* Mutant: a committed upload is only mirrored.
ReconcileCommitted_MirrorOnly(u) ==
  Visit(u) /\ row[u].state = "committed" /\ SettleAs(u, "committed", "idle")

ReconcileCommitted(u) ==
  /\ Visit(u) /\ row[u].state = "committed"
  /\ ResumeAt(u, "adopt")

AdoptBlob(t) ==
  /\ task[t].pc = "adopt"
  /\ task' = [task EXCEPT ![t] =
                [@ EXCEPT !.createBlob = ShaOf(t) \notin blobs, !.pc = "verify"]]
  /\ UNCHANGED <<database, files, mode, todo, queue, faults>>

ReconcileCancelled(u) ==
  /\ Visit(u) /\ row[u].state = "cancelled"
  /\ ResumeAt(u, "remove")

\* createMaterialLibrary returns and the server listens.
Serve ==
  /\ mode = "recovering" /\ todo = {} /\ task[Recovery].pc = "idle"
  /\ mode' = "serving"
  /\ UNCHANGED <<database, files, todo, task, queue, faults>>

Stop ==
  /\ mode # "down" /\ faults < MaxFaults
  /\ Halt
  /\ faults' = faults + 1
  /\ UNCHANGED <<database, files>>

\* A call to the file system or to the database throws, its effect not made.
Fail(t) ==
  /\ task[t].pc \notin {"idle", "queued"} /\ faults < MaxFaults
  /\ Throw(t)
  /\ faults' = faults + 1
  /\ UNCHANGED <<database, files>>

-----------------------------------------------------------------------------
Requests ==
  \E t \in Tasks :
    \/ \E d \in Declared, op \in {"create", "createProject"} : RequestCreate(t, d, op)
    \/ \E u \in Uploads : \/ \E p \in Packets : RequestAppend(t, u, p)
                          \/ RequestComplete(t, u)
                          \/ RequestCancel(t, u)

Creating(t) ==
  \/ BeginCreate(t) \/ RefuseCreation(t) \/ \E u \in Uploads : AdmitCreation(t, u)
  \/ InsertRow(t) \/ BindUpload(t)

Appending(t) ==
  AnswerAppend(t) \/ BeginAppend(t) \/ WriteByte(t) \/ PersistChunk(t)

Committing(t) ==
  \/ AnswerComplete(t) \/ BeginComplete(t) \/ HashStaging(t) \/ RehashStaging(t)
  \/ FindBlob(t) \/ ReuseBlob(t) \/ MoveToBlob(t) \/ MarkCommitted(t)
  \/ AdoptBlob(t) \/ VerifyBlob(t) \/ CreateReference(t)

Cancelling(t) == AnswerCancel(t) \/ BeginCancel(t) \/ RemoveStaging(t)

TaskStep(t) ==
  Creating(t) \/ Appending(t) \/ Committing(t) \/ Cancelling(t) \/ LandManifest(t)

Reconcile(u) ==
  \/ ReconcileSettled(u) \/ ReconcileStaged(u) \/ ReconcileVerified(u)
  \/ ReconcileCommitted(u) \/ ReconcileCancelled(u)

Recovering == Start \/ Serve \/ \E u \in Uploads : Reconcile(u)

Next ==
  \/ Requests
  \/ \E t \in Runners : TaskStep(t) \/ Fail(t)
  \/ Recovering
  \/ Stop

Spec == Init /\ [][Next]_vars

\* The event loop runs every continuation it has, and the app restarts the server.
FairSpec == Spec /\ WF_vars(Recovering) /\ \A t \in Runners : WF_vars(TaskStep(t))

-----------------------------------------------------------------------------
(* Properties *)

TypeOK ==
  /\ row \in [Uploads -> Rows]
  /\ chunks \in [Uploads -> SUBSET Chunk]
  /\ blobs \subseteq Shas
  /\ refs \subseteq [upload : Uploads, sha : Shas]
  /\ bound \subseteq Uploads
  /\ staging \in [Uploads -> Contents \union {None}]
  /\ blobFile \in [Shas -> Contents \union {None}]
  /\ manifest \in [Uploads -> Images \union {None}]
  /\ mode \in {"down", "recovering", "serving"}
  /\ todo \subseteq Uploads
  /\ task \in [Runners -> Locals]
  /\ queue \in [Lanes -> Seq(Tasks)]
  /\ faults \in 0 .. MaxFaults

\* Gate A of the acceptance list: a material that later stages can read has its
\* blob row, and its blob file holds exactly the bytes of its SHA-256; an upload
\* is ready exactly when its reference exists.  What could break it is a rename
\* over the blob between the verification and the reference of another upload.
VisibleIsIntact ==
  /\ \A r \in refs : /\ r.sha \in blobs
                     /\ HashesTo(blobFile[r.sha], r.sha)
  /\ {r.upload : r \in refs} = {u \in Uploads : row[u].state = "ready"}
  /\ \A r \in refs : r.sha = row[r.upload].sha

\* Content addressing: no file ever stands at a blob path unless it is the whole
\* verified file of that name, even while its upload is not committed, and a blob
\* row never names a missing file.
BlobsIntact ==
  \A h \in Shas : /\ h \in blobs => Exists(blobFile[h])
                  /\ Exists(blobFile[h]) => HashesTo(blobFile[h], h)

\* Received material is never lost between its two homes: at every point where
\* the process can stop, an upload that is not failed or cancelled has its bytes
\* in staging, or, once they are verified, in the blob.
NothingLost ==
  \A u \in Uploads :
    /\ row[u].state \in {"transferring", "staged"} => Exists(staging[u])
    /\ row[u].state = "hash_verified" =>
         \/ Exists(staging[u]) /\ HashesTo(staging[u], row[u].sha)
         \/ Exists(blobFile[row[u].sha])
    /\ row[u].state = "committed" => Exists(blobFile[row[u].sha])

\* Every acknowledged byte is in the staging file, and stays there whatever later
\* chunks, replays, failed writes and restarts do to the file.
AcknowledgedBytesIntact ==
  \A u \in Uploads : Exists(staging[u]) =>
    \A c \in chunks[u] : \A o \in RangeOf(c) : staging[u][o] = c.checksum

\* The resume position of a phone counts each acknowledged byte once, and the
\* acknowledgement epoch counts each stored chunk once.
ReceivedIsCovered ==
  \A u \in Uploads :
    /\ row[u].received = Cardinality(UNION {RangeOf(c) : c \in chunks[u]})
    /\ row[u].ackEpoch = Cardinality(chunks[u])

\* Where a task goes on: a manifest being written stands before its next step.
Active(t) == task[t].pc \notin {"idle", "queued"}
Point(t)  == IF task[t].pc = "mirror" THEN task[t].next ELSE task[t].pc

\* Mutual exclusion: at most one task works on an upload, creations, requests and
\* the reconciliation together, although no queue knows of the others.
MutualExclusion ==
  \A s, t \in Runners : Active(s) /\ Active(t) /\ s # t /\ task[s].upload # None
                          => task[s].upload # task[t].upload

\* The states an upload in a state can have gone through, that state included.
Past(state) ==
  {s \in States \ {"absent"} :
     \/ s = state
     \/ s = "transferring" /\ state # "absent"
     \/ s = "staged" /\ state \in {"hash_verified", "committed", "ready", "recoverable_error"}
     \/ s = "hash_verified" /\ state \in {"committed", "ready", "recoverable_error"}
     \/ s = "committed" /\ state \in {"ready", "recoverable_error"}}

\* "Mirrors the SQLite upload state only after its preceding durable database
\* mutation": whenever the process stops, no manifest claims a chunk or a state
\* that SQLite does not have.
ManifestNeverAhead ==
  \A u \in Uploads : Exists(manifest[u]) =>
    /\ manifest[u].chunks \subseteq chunks[u]
    /\ manifest[u].state \in Past(row[u].state)

\* The volume can always hold what the admitted uploads have still to send, while
\* creations, chunks, completions and cancellations interleave.
NoOvercommit ==
  Cardinality({p \in Uploads \X Offsets :
                 /\ row[p[1]].state = "transferring" /\ p[2] < row[p[1]].size
                 /\ Exists(staging[p[1]]) => staging[p[1]][p[2]] = Hole})
    <= AvailableBytes

Settled == {"absent", "transferring", "ready", "recoverable_error", "cancelled"}

Reconciled(u) ==
  /\ row[u].state \in Settled
  /\ row[u].state # "absent" =>
       manifest[u] = [state |-> row[u].state, chunks |-> chunks[u]]
  /\ row[u].state \in {"ready", "cancelled"} => ~Exists(staging[u])

\* "Reconciles every persisted upload before the local server accepts new work":
\* when the server begins to serve, wherever it was stopped before, no upload is
\* half committed, every manifest mirrors its row, and no staging file is left of
\* an upload that is done with it.
ServesReconciled ==
  [][mode = "recovering" /\ mode' = "serving" => \A u \in Uploads : Reconciled(u)]_vars

\* The library keeps the promise of UploadLifecycle at every step.
PhaseOf(state) ==
  CASE state = "absent" -> "absent"
    [] state = "transferring" -> "receiving"
    [] state \in {"staged", "hash_verified", "committed"} -> "settling"
    [] state = "ready" -> "visible"
    [] state = "recoverable_error" -> "failed"
    [] state = "cancelled" -> "cancelled"

Promise == INSTANCE UploadLifecycle WITH
  phase <- [u \in Uploads |-> PhaseOf(row[u].state)],
  claim <- [u \in Uploads |-> row[u].sha],
  stored <- {h \in Shas : HashesTo(blobFile[h], h)},
  visible <- refs

KeepsPromise == Promise!Spec

\* Each row keeps what the phones rely on (UploadContract): the size that was declared
\* stays, the resume position never goes back, and nothing is settled before it is whole.
Contract(u) == INSTANCE UploadContract WITH
  phase <- PhaseOf(row[u].state), size <- row[u].size, received <- row[u].received

KeepsContract == \A u \in Uploads : Contract(u)!Spec

\* Nothing that was acknowledged is retracted, whatever fails in between: the rows of
\* chunks, bindings, blobs and references stay, and an upload stays the one it was.
NothingRetracted ==
  [][/\ bound \subseteq bound' /\ blobs \subseteq blobs' /\ refs \subseteq refs'
     /\ \A u \in Uploads :
          /\ chunks[u] \subseteq chunks'[u] /\ row[u].ackEpoch <= row'[u].ackEpoch
          /\ row[u].state # "absent" =>
               row'[u].state # "absent" /\ row'[u].sha = row[u].sha]_vars

\* The strengthening of the safety invariants that every step preserves.
LanesOK ==
  /\ mode # "serving" => \A t \in Tasks : task[t].pc = "idle"
  /\ mode # "recovering" => task[Recovery].pc = "idle"
  /\ \A t \in Tasks :
       /\ task[t].pc # "idle" =>
            \E i \in DOMAIN queue[Lane(t)] : queue[Lane(t)][i] = t
       /\ Active(t) => queue[Lane(t)][1] = t

ArgumentsOK ==
  \A t \in Runners :
    /\ task[t].pc = "idle" => task[t] = IdleTask
    /\ Creates(t) => task[t].arg \in Declared
    /\ task[t].op = "append" => task[t].arg \in Packets
    /\ task[t].pc # "idle" =>
         /\ (t = Recovery) <=> (task[t].op = "reconcile")
         /\ Creates(t) /\ task[t].pc \in {"queued", "admit"} <=> task[t].upload = None
    /\ task[t].pc # "idle" /\ ~Creates(t) => row[task[t].upload].state # "absent"

CreationsOK ==
  \A s, t \in Tasks :
    Creates(s) /\ task[t].pc # "idle" /\ ~Creates(t) => task[s].upload # task[t].upload

PointOK(t) ==
  LET u == task[t].upload
      p == Point(t) IN
  Active(t) =>
    /\ task[t].pc = "mirror" =>
         p \in {"idle", "bind", "hash", "find", "verify", "adopt", "remove"}
    /\ p = "admit" => Creates(t)
    /\ p = "insert" => Creates(t) /\ row[u].state = "absent" /\ Exists(staging[u])
    /\ p \in {"write", "persist"} =>
         task[t].op = "append" /\ row[u].state = "transferring"
    /\ p = "bind" => row[u].state = "transferring"
    /\ p = "hash" => row[u].state = "staged"
    /\ p = "rehash" => row[u].state = "hash_verified" /\ Exists(staging[u])
    /\ p \in {"find", "reuse", "move"} =>
         row[u].state = "hash_verified" /\ HashesTo(staging[u], row[u].sha)
    /\ p = "commit" => row[u].state = "hash_verified" /\ Exists(blobFile[row[u].sha])
    /\ p \in {"adopt", "verify", "reference"} => row[u].state = "committed"
    /\ p \in {"reuse", "move", "commit", "verify", "reference"} =>
         task[t].createBlob \/ row[u].sha \in blobs
    /\ p = "remove" => row[u].state = "cancelled"

RowsOK == \A u \in Uploads : row[u].state # "absent" => row[u].sha \in Shas

LibraryInv ==
  /\ TypeOK /\ LanesOK /\ ArgumentsOK /\ CreationsOK /\ RowsOK
  /\ \A t \in Runners : PointOK(t)
  /\ BlobsIntact /\ VisibleIsIntact /\ NothingLost

\* The steps a task has still to take, at most: a manifest comes right before its next
\* step, and a chunk is written byte by byte.
StepsFrom(pc) ==
  CASE pc = "idle" -> 0
    [] pc \in {"bind", "persist", "reference", "remove"} -> 2
    [] pc = "verify" -> 3
    [] pc \in {"adopt", "insert"} -> 4
    [] pc \in {"admit", "commit"} -> 5
    [] pc \in {"reuse", "move"} -> 6
    [] pc = "find" -> 7
    [] pc = "rehash" -> 8
    [] pc = "hash" -> 9
    [] pc = "queued" -> 11 + MaxBytes

StepsLeft(t) ==
  CASE task[t].pc = "mirror" -> StepsFrom(task[t].next) + 1
    [] task[t].pc = "write" -> 2 + task[t].arg.size - task[t].written
    [] OTHER -> StepsFrom(task[t].pc)

\* Every step of a request brings it nearer to its answer, and no step of another one
\* takes it back: no path through the commit, its errors and the manifests is a loop.  The
\* reconciliation has fewer uploads to visit with each one it takes up.
TasksRunDown ==
  [][/\ \A t \in Runners :
          task[t].pc # "idle" /\ task'[t] # task[t] => StepsLeft(t)' < StepsLeft(t)
     /\ mode = "recovering" /\ mode' = "recovering" => todo' \subseteq todo]_vars

\* The requests before t in its lane.
Before(t) ==
  LET lane == queue[Lane(t)] IN
  {s \in Tasks : \E i, j \in DOMAIN lane : i < j /\ lane[i] = s /\ lane[j] = t}

\* A lane holds the requests that wait in it, each once.
LanesExact ==
  \A l \in Lanes :
    /\ \A i \in DOMAIN queue[l] : task[queue[l][i]].pc # "idle" /\ Lane(queue[l][i]) = l
    /\ \A i, j \in DOMAIN queue[l] : queue[l][i] = queue[l][j] => i = j

\* The requests of one upload, and the creations, are served in the order of their
\* arrival: nothing comes in before a request that waits.
NoOvertaking ==
  [][\A t \in Tasks : task[t].pc = "queued" /\ task'[t].pc = "queued"
                        => Before(t)' \subseteq Before(t)]_vars

\* No request waits forever: each is answered, refused, or lost with the process.
EveryRequestAnswered ==
  \A t \in Tasks : task[t].pc # "idle" ~> task[t].pc = "idle"

\* An upload that a stop or a failure left half committed is settled by the next
\* start that is not itself interrupted.
RestartSettles ==
  \A u \in Uploads : mode = "down" /\ row[u].state \notin Settled
                       ~> row[u].state \in Settled

\* A hash-verified upload gets its own material reference, also when the library
\* already holds, or is just storing, the same SHA-256.
VerifiedBecomesReady ==
  \A u \in Uploads : row[u].state = "hash_verified" ~> row[u].state = "ready"

=============================================================================
