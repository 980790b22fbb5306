--------------------------- MODULE MobileUploader ---------------------------
(***************************************************************************)
(* The upload page on the phone (use-mobile-uploader.ts): the items of its *)
(* list, the queue that runs three of them at a time                       *)
(* (concurrent-task-queue.ts), the records in IndexedDB and the camera.    *)
(* One task is one call of executeMobileUploadTransfer, whose inside is    *)
(* TransferProtocol: here the Mac accepts the upload, and the transfer     *)
(* succeeds or fails.                                                      *)
(*                                                                         *)
(* The page is the only one that has the database open.                    *)
(***************************************************************************)
EXTENDS CameraRecorder, ResumableUploads, FiniteSets, Naturals

CONSTANTS
  Items,          \* entries of the list of uploads, with their files
  MaxConcurrent,  \* MAX_CONCURRENT_MOBILE_UPLOADS
  NoRetry         \* no entry in retryableUploads

ASSUME PageConstants ==
  /\ Recordings \subseteq Items /\ MaxConcurrent \in Nat \ {0}
  /\ None \notin Uploads \union Items /\ NoRetry \notin Uploads \union {None}

VARIABLES
  ready,        \* initialize has ended, with an identity
  status,       \* how far each item is
  retryable,    \* retryableUploads: the upload that a retry resumes, None to create one
  upload,       \* the upload that the Mac accepted for an item last
  placeholders, \* entries "awaiting_file" for the records found by initialize
  pending,      \* ConcurrentTaskQueue.pending
  running,      \* the tasks that activeCount counts
  unread,       \* history: the records that initialize could not read
  lost          \* history: the uploads that the Mac created for an item without its hearing of it

pageVars == <<ready, status, retryable, upload, placeholders, pending, running, unread, lost>>
vars == <<cameraVars, listVars, pageVars>>

\* The program counter of the task with the state that is shown.  "picked": resumeFiles
\* has read the records; "hashing": until the Mac accepts; "saving" and "removing": the
\* record is being written, the latter under "completed".
AtWork == {"hashing", "saving", "transferring", "removing"}
Statuses == AtWork \union {"none", "picked", "queued", "completed", "failed"}

PageInit ==
  /\ ready = FALSE
  /\ status = [i \in Items |-> "none"]
  /\ retryable = [i \in Items |-> NoRetry]
  /\ upload = [i \in Items |-> None]
  /\ placeholders = {} /\ pending = <<>> /\ running = {}
  /\ unread = {} /\ lost = [i \in Items |-> {}]

Init == CameraInit /\ PageInit /\ mutations = <<>> /\ records \in SUBSET Uploads

-----------------------------------------------------------------------------
(* The queue *)

\* startAvailableTasks: uploadOne begins as soon as it is taken from the queue.
StartAvailable(waiting, going, shown) ==
  LET free == MaxConcurrent - Cardinality(going)
      n == IF Len(waiting) < free THEN Len(waiting) ELSE free
      started == {waiting[k] : k \in 1..n}
  IN /\ pending' = SubSeq(waiting, n + 1, Len(waiting))
     /\ running' = going \union started
     /\ status' = [i \in Items |-> IF i \in started THEN "hashing" ELSE shown[i]]

\* enqueueUpload
Enqueue(i, resumed) ==
  /\ retryable' = [retryable EXCEPT ![i] = resumed]
  /\ StartAvailable(Append(pending, i), running, [status EXCEPT ![i] = "queued"])
  /\ UNCHANGED <<upload, placeholders, unread, lost>>

\* Mutant: a rejected task keeps its place.
TaskEnds_PlaceKept(i, shown) ==
  StartAvailable(pending, IF shown = "failed" THEN running ELSE running \ {i},
                 [status EXCEPT ![i] = shown])

\* The task of an item ends, with or without an error: run frees its place.
TaskEnds(i, shown) == StartAvailable(pending, running \ {i}, [status EXCEPT ![i] = shown])

Shows(i, shown) ==
  status' = [status EXCEPT ![i] = shown] /\ UNCHANGED <<pending, running>>

-----------------------------------------------------------------------------
(* The page *)

\* initialize
Initialize ==
  /\ ~ready /\ ready' = TRUE
  /\ placeholders' = records
  /\ UNCHANGED <<cameraVars, listVars, status, retryable, upload, pending, running, unread, lost>>

\* initialize fails after it has the identity: the page can be used, without the records.
InitializeFails ==
  /\ ~ready /\ ready' = TRUE
  /\ unread' = records
  /\ UNCHANGED <<cameraVars, listVars, status, retryable, upload, placeholders, pending, running,
                 lost>>

\* The page is loaded again.  A write under way has happened or has not.
Reload ==
  /\ ready
  /\ ready' = FALSE
  /\ status' = [i \in Items |-> "none"]
  /\ retryable' = [i \in Items |-> NoRetry]
  /\ upload' = [i \in Items |-> None]
  /\ placeholders' = {} /\ pending' = <<>> /\ running' = {}
  /\ unread' = {} /\ lost' = [i \in Items |-> {}]
  /\ mutations' = <<>>
  /\ CameraGone
  /\ UNCHANGED records

\* An item is not to be the file of a recording.
NotFilming(i) == i \in Recordings => camera[i] = "idle" /\ i \notin held \union completion

\* uploadFiles, for one file
UploadFile(i) == status[i] = "none" /\ Enqueue(i, None)

SelectFile(i) ==
  /\ ready /\ NotFilming(i)
  /\ UploadFile(i) /\ UNCHANGED <<cameraVars, listVars, ready>>

\* resumeFiles reads the records, and then enqueues the file with the candidate it fits.
PickFile(i, u) ==
  /\ ready /\ placeholders # {} /\ status[i] = "none"
  /\ NotFilming(i) /\ u \in records
  /\ retryable' = [retryable EXCEPT ![i] = u] /\ Shows(i, "picked")
  /\ UNCHANGED <<cameraVars, listVars, ready, upload, placeholders, unread, lost>>

ResumeFile(i) ==
  /\ status[i] = "picked" /\ Enqueue(i, retryable[i])
  /\ UNCHANGED <<cameraVars, listVars, ready>>

\* retryUpload, from the button of a failed item
RetryUpload(i) ==
  /\ status[i] = "failed" /\ retryable[i] # NoRetry /\ Enqueue(i, retryable[i])
  /\ UNCHANGED <<cameraVars, listVars, ready>>

-----------------------------------------------------------------------------
(* uploadOne *)

\* The Mac gives every creation an identifier of its own.
Granted(i, u) ==
  IF retryable[i] = None
  THEN /\ u \notin records \union placeholders
       /\ \A j \in Items : u # upload[j] /\ u # retryable[j] /\ u \notin lost[j]
  ELSE u = retryable[i]

\* Mutant: the entry for a retry is not replaced, so that a retry creates once more.
Accept_RetryCreates(i, u) ==
  /\ status[i] = "hashing" /\ Granted(i, u)
  /\ upload' = [upload EXCEPT ![i] = u]
  /\ placeholders' = placeholders \ {u}
  /\ Shows(i, "saving") /\ Saves(u, i)
  /\ UNCHANGED <<cameraVars, records, ready, retryable, unread, lost>>

\* onResumableUpload, up to the await on saveResumableUpload
Accept(i, u) ==
  /\ status[i] = "hashing" /\ Granted(i, u)
  /\ upload' = [upload EXCEPT ![i] = u]
  /\ retryable' = [retryable EXCEPT ![i] = u]
  /\ placeholders' = placeholders \ {u}
  /\ Shows(i, "saving") /\ Saves(u, i)
  /\ UNCHANGED <<cameraVars, records, ready, unread, lost>>

TransferFails(i) ==
  /\ status[i] \in {"hashing", "transferring"} /\ TaskEnds(i, "failed")
  /\ UNCHANGED <<cameraVars, listVars, ready, retryable, upload, placeholders, unread, lost>>

\* The Mac creates an upload, and its answer is lost: the entry for a retry is as it was.
AnswerLost(i, u) ==
  /\ status[i] = "hashing" /\ retryable[i] = None /\ Granted(i, u)
  /\ lost' = [lost EXCEPT ![i] = @ \union {u}]
  /\ TaskEnds(i, "failed")
  /\ UNCHANGED <<cameraVars, listVars, ready, retryable, upload, placeholders, unread>>

\* The material is in the library: the item is completed, and its record has to go.
TransferDone(i) ==
  /\ status[i] = "transferring"
  /\ retryable' = [retryable EXCEPT ![i] = NoRetry]
  /\ Shows(i, "removing") /\ Removes(upload[i], i)
  /\ UNCHANGED <<cameraVars, records, ready, upload, placeholders, unread, lost>>

Read(k) == ReadList(k) /\ UNCHANGED <<cameraVars, pageVars>>

\* The call settles, and the task that awaits it goes on.
Write(k) ==
  LET i == mutations[k].item IN
  /\ WriteList(k)
  /\ IF mutations[k].op = "save" THEN Shows(i, "transferring") ELSE TaskEnds(i, "completed")
  /\ UNCHANGED <<cameraVars, ready, retryable, upload, placeholders, unread, lost>>

WriteFails(k) ==
  /\ MutationFails(k) /\ TaskEnds(mutations[k].item, "failed")
  /\ UNCHANGED <<cameraVars, ready, retryable, upload, placeholders, unread, lost>>

-----------------------------------------------------------------------------
(* The camera *)

\* The page is ready, and the recording is not an item yet.
Begin(c) == ready /\ status[c] = "none" /\ StartCamera(c)

CameraWaits(c) == StartFails(c) \/ CaptureGranted(c) \/ RecorderEnds(c) \/ RecorderErrors(c)

\* A recording with data, without a failure, that was asked to stop becomes an item.
FileComes(c) == ~failed /\ UploadFile(c) /\ UNCHANGED ready

UserStops(c) ==
  \/ StopCamera(c) /\ UNCHANGED pageVars
  \/ StopInactive(c) /\ (FileComes(c) \/ UNCHANGED pageVars)

StopEvent(c) ==
  \/ RecorderStops(c) /\ ((c \in completion /\ FileComes(c)) \/ UNCHANGED pageVars)
  \/ RecorderStopsLate(c) /\ UNCHANGED pageVars

Camera ==
  \/ \E c \in Recordings :
       \/ (Begin(c) \/ CameraWaits(c)) /\ UNCHANGED pageVars
       \/ UserStops(c) \/ StopEvent(c)
  \/ StopAgain /\ UNCHANGED pageVars

-----------------------------------------------------------------------------

Task(i) ==
  \/ \E u \in Uploads : Accept(i, u) \/ AnswerLost(i, u)
  \/ TransferFails(i) \/ TransferDone(i)

List == \E k \in DOMAIN mutations : Read(k) \/ Write(k) \/ WriteFails(k)

Next ==
  \/ Initialize \/ InitializeFails \/ Reload
  \/ \E i \in Items : SelectFile(i) \/ ResumeFile(i) \/ RetryUpload(i) \/ Task(i)
  \/ \E i \in Items, u \in Uploads : PickFile(i, u)
  \/ List
  \/ Camera /\ UNCHANGED listVars

Spec == Init /\ [][Next]_vars

\* An attempt ends (AttemptEnds of TransferProtocol), IndexedDB answers, and a recorder
\* that was stopped fires its event.
Fairness ==
  /\ \A i \in Items : WF_vars(Task(i))
  /\ WF_vars(List)
  /\ \A c \in Recordings : WF_vars(StopEvent(c) /\ UNCHANGED listVars)

FairSpec == Spec /\ Fairness

-----------------------------------------------------------------------------
(* Properties *)

CameraTypeOK ==
  /\ camera \in [Recordings -> {"idle", "requesting", "recording", "inactive"}]
  /\ held \subseteq Recordings /\ completion \subseteq Recordings
  /\ active \in Recordings \union {None} /\ failed \in BOOLEAN /\ isRecording \in BOOLEAN
  /\ overlapped \subseteq Recordings

QueueTypeOK ==
  status \in [Items -> Statuses] /\ pending \in Seq(Items) /\ running \subseteq Items

Calls ==
  [op : {"save", "remove"}, upload : Uploads, item : Items, read : SUBSET SUBSET Uploads]

ListTypeOK ==
  /\ records \subseteq Uploads
  /\ mutations \in Seq(Calls)
  /\ ready \in BOOLEAN /\ placeholders \subseteq Uploads
  /\ retryable \in [Items -> Uploads \union {None, NoRetry}]
  /\ upload \in [Items -> Uploads \union {None}]
  /\ unread \subseteq Uploads /\ lost \in [Items -> SUBSET Uploads]

TypeOK == CameraTypeOK /\ QueueTypeOK /\ ListTypeOK

\* The queue: each waiting item is in it once, the tasks that run are those it counts, at
\* most MaxConcurrent of them, and no place is free while an item waits.
QueueInOrder ==
  /\ \A a, b \in DOMAIN pending : pending[a] = pending[b] => a = b
  /\ \A i \in Items : status[i] = "queued" <=> \E k \in DOMAIN pending : pending[k] = i
  /\ running = {i \in Items : status[i] \in AtWork} /\ IsFiniteSet(running)
  /\ Cardinality(running) <= MaxConcurrent
  /\ pending # <<>> => Cardinality(running) = MaxConcurrent

\* The calls on the list: one for each item that awaits one, and only the first has read.
CallsInOrder ==
  /\ \A k, l \in DOMAIN mutations : mutations[k].item = mutations[l].item => k = l
  /\ \A k \in DOMAIN mutations :
       LET m == mutations[k] IN
       /\ status[m.item] = IF m.op = "save" THEN "saving" ELSE "removing"
       /\ m.upload = upload[m.item]
       /\ m.read # {} => k = 1 /\ m.read = {records}
  /\ \A i \in Items : status[i] \in {"saving", "removing"} =>
       \E k \in DOMAIN mutations : mutations[k].item = i

\* What an item can still do: once the page knows which upload the Mac accepted for it, a task
\* or a retry goes on with that upload.
ItemInOrder(i) ==
  /\ status[i] \in {"none", "picked"} => upload[i] = None
  /\ status[i] \in {"picked", "queued", "hashing"} => retryable[i] # NoRetry
  /\ status[i] \in {"saving", "transferring", "removing"} => upload[i] # None
  /\ status[i] \in {"removing", "completed"} => retryable[i] = NoRetry
  /\ retryable[i] # NoRetry /\ upload[i] # None => retryable[i] = upload[i]
  /\ status[i] # "none" /\ retryable[i] = NoRetry =>
       upload[i] # None /\ status[i] \in {"removing", "completed", "failed"}

ItemsInOrder == \A i \in Items : ItemInOrder(i)

PageInv == TypeOK /\ QueueInOrder /\ CallsInOrder /\ ItemsInOrder

\* The Mac has the whole file of the upload, as far as the page knows.
Finished(u) == \E i \in Items : upload[i] = u /\ retryable[i] = NoRetry

\* An upload that is being transferred is in IndexedDB, so that a reload can resume it, and
\* a record is always in the page's list, so that the user can: as an entry of its own, or as
\* an item that goes on with it, runs it or has completed it.  Only the records that
\* initialize could not read wait for the next load of the page.
NothingForgotten ==
  /\ \A i \in Items : status[i] = "transferring" /\ ~Finished(upload[i]) => upload[i] \in records
  /\ ready => \A u \in records :
       u \in placeholders \union unread \/ \E i \in Items : upload[i] = u

\* Once the page knows an upload for an item, by the Mac's answer or from a record, no retry
\* creates another one: until the page is loaded again the item goes on with that upload.  It
\* creates a second one only while each answer to its creations so far was lost.
Known(i) == upload[i] # None \/ retryable[i] \in Uploads

OneUploadEach ==
  [][\A i \in Items : ready' /\ Known(i) =>
       lost'[i] = lost[i] /\ upload'[i] \in {upload[i], retryable[i]}]_vars

\* No change of the list undoes another one, although each writes back a list it has read
\* before: a step adds or removes one upload at most, and the record of an upload goes
\* only when the Mac has the whole file.
ListKept ==
  [][/\ \A u, v \in records \ records' : u = v
     /\ \A u \in records \ records' : records' \subseteq records /\ Finished(u)
     /\ \A u, v \in records' \ records : u = v]_vars

\* Files are sent in the order in which they were added: none comes in before an item that
\* waits, until the page is loaded again.
Before(i) ==
  {j \in Items : \E k, l \in DOMAIN pending : k < l /\ pending[k] = j /\ pending[l] = i}

NoOvertaking ==
  [][\A i \in Items : status[i] = "queued" /\ status'[i] = "queued"
                       => Before(i)' \subseteq Before(i)]_vars

\* Each file that waits gets its turn and comes to an end.
EveryFileSettles ==
  \A i \in Items : status[i] = "queued" ~> status[i] \in {"none", "completed", "failed"}

\* The camera is held by the active recording only, from the grant to the end of the
\* recording, on every path of errors, lost tracks and stops, unless its start overlapped with
\* another one: start looks at the active recording before it awaits the permission.
CameraReleased == [](held \subseteq {active} \union overlapped)

\* So the camera is released, and each stop is settled, for every recording whose start did
\* not overlap with another one.
CameraSettles ==
  \A c \in Recordings :
    /\ [](c \in held => c = active \/ c \in overlapped)
    /\ c \in completion ~> c \notin completion \/ c \in overlapped

\* "停止、失败或空片段时释放摄像头和麦克风轨道" (DESIGN.md): when a recording was stopped, has
\* failed or is empty, camera and microphone are released, whatever starts overlapped.
StopReleases == active = None => held = {}
=============================================================================
