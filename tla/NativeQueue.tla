---------------------------- MODULE NativeQueue ----------------------------
(***************************************************************************)
(* The queue of uploads in the native mobile shell                         *)
(* (mobile-shell/src-tauri/src/upload_queue.rs): a snapshot in memory,     *)
(* under a lock, that is written to a document for every change and rolled *)
(* back when the write fails.                                              *)
(*                                                                         *)
(* A change is durable when the directory was synced after the rename.  A  *)
(* rename whose sync fails leaves the new document in place, and until     *)
(* the next sync a power loss can leave any of the documents that were in  *)
(* place since the last one.                                               *)
(***************************************************************************)
EXTENDS Naturals

CONSTANTS
  Uploads,
  Progress,       \* values of UploadProgress: which of them a caller records is not checked
  FirstProgress,
  MaxFaults       \* bound on the writes that fail

ASSUME QueueConstants == FirstProgress \in Progress /\ MaxFaults \in Nat

VARIABLES
  queue,   \* UploadQueue.state
  disk,    \* the document at the queue's path
  left,    \* the documents that a power loss can leave there
  told,    \* history: for each upload, the entry of its last change that returned Ok
  unsure,  \* history: the entries that its changes since then, which did not, asked for
  faults

queueVars == <<queue, disk, left, told, unsure, faults>>

Statuses == {"absent", "pending", "transferring", "paused", "cancelled", "completed"}
Entries  == [status : Statuses, progress : Progress]
Absent   == [status |-> "absent", progress |-> FirstProgress]
Empty    == [u \in Uploads |-> Absent]

QueueInit == queue = Empty /\ disk = Empty /\ left = {Empty} /\ told = Empty
             /\ unsure = [u \in Uploads |-> {}] /\ faults = 0

\* allows_transition_to: a status stays, or moves on.
Moves ==
  ({"pending"} \X {"transferring", "paused", "cancelled"})
    \union ({"transferring"} \X {"paused", "cancelled", "completed"})
    \union ({"paused"} \X {"transferring", "cancelled"})

Allowed(status) == {s \in Statuses \ {"absent"} : s = status \/ <<status, s>> \in Moves}

-----------------------------------------------------------------------------
(* mutate and persist_snapshot, for a change that makes e of the entry of u *)

Stored(u, e) == [queue EXCEPT ![u] = e]

\* Mutant: the directory is not synced after the rename.
Persisted_NoDirectorySync(u, e) ==
  /\ queue' = Stored(u, e) /\ disk' = queue' /\ left' = left \union {queue'}
  /\ told' = [told EXCEPT ![u] = e] /\ unsure' = [unsure EXCEPT ![u] = {}]
  /\ UNCHANGED faults

Persisted(u, e) ==
  /\ queue' = Stored(u, e) /\ disk' = queue' /\ left' = {queue'}
  /\ told' = [told EXCEPT ![u] = e] /\ unsure' = [unsure EXCEPT ![u] = {}]
  /\ UNCHANGED faults

\* A step up to the rename fails, or only the sync of the directory; or the app stops there.
NotPersisted(u, e) ==
  /\ faults < MaxFaults /\ faults' = faults + 1
  /\ disk' \in {disk, Stored(u, e)} /\ left' = left \union {disk'}
  /\ unsure' = [unsure EXCEPT ![u] = @ \union {e}]
  /\ UNCHANGED <<queue, told>>

\* enqueue
Enqueued == [status |-> "pending", progress |-> FirstProgress]

MayEnqueue(u) == queue[u].status = "absent"

\* record_ack
Acknowledged(u, p) == [status |-> queue[u].status, progress |-> p]

MayAcknowledge(u) == queue[u].status = "transferring"

\* set_status
WithStatus(u, status) == [status |-> status, progress |-> queue[u].progress]

MaySet(u, status) == status \in Allowed(queue[u].status)

\* What a call may make of the entry of u.  The native orchestration, which the repository
\* does not contain yet, is free to call.
Changes(u) ==
  {e \in Entries :
     \/ MayEnqueue(u) /\ e = Enqueued
     \/ MayAcknowledge(u) /\ \E p \in Progress : e = Acknowledged(u, p)
     \/ \E s \in Statuses : MaySet(u, s) /\ e = WithStatus(u, s)}

Mutate ==
  \E u \in Uploads : \E e \in Changes(u) : Persisted(u, e) \/ NotPersisted(u, e)

\* open, at the start of the app: the document that is there, or the one that survived.
Open ==
  /\ \/ queue' = disk /\ UNCHANGED <<disk, left>>
     \/ \E d \in left : queue' = d /\ disk' = d /\ left' = {d}
  /\ UNCHANGED <<told, unsure, faults>>

-----------------------------------------------------------------------------

QueueTypeOK ==
  /\ {queue, disk, told} \subseteq [Uploads -> Entries]
  /\ left \subseteq [Uploads -> Entries]
  /\ unsure \in [Uploads -> SUBSET Entries]
  /\ faults \in 0..MaxFaults

\* Whatever fails, and whenever the app or the phone stops, a change that was reported as
\* done is there afterwards, with its status and its progress: every document that a power
\* loss can leave has for each upload what the last such change made of it, unless a later
\* change of the same upload, which was not reported as done, put its own entry there.  And
\* the queue shows only what is, or was, in place as a document and can still come back.
ConfirmedSurvives ==
  /\ {queue, disk} \subseteq left
  /\ \A d \in left, u \in Uploads : d[u] = told[u] \/ d[u] \in unsure[u]
=============================================================================
