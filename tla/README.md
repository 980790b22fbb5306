# Verification of the jianying-tools material path

jianying-tools receives video material from phones on a Mac.  A phone pairs
with a project directory through a key, opens a WebRTC connection that a
Cloudflare Worker signals, and sends a file in chunks.  The Mac keeps the chunks
in a staging file and in SQLite, verifies the SHA-256 of the whole file, moves
it into a content-addressed store, and makes it visible as a material reference
to the later stages.  This directory holds TLA+ models of that path, the
configurations that check them with TLC, and proofs checked with TLAPS.

## The system

| component | state it keeps | operations | correct when |
| --- | --- | --- | --- |
| Material library (`apps/server/src/uploads`) | SQLite rows of uploads, chunks, blobs, references and transfer bindings; staging files, blob files and manifest files; two kinds of in-memory queues | create, create for a project, append, complete, cancel, resume, reconcile at start | acknowledged bytes stay; nothing visible is damaged or missing; a stop at any point loses nothing and the next start settles everything; space is never promised twice |
| Project upload keys, paired devices (`project-upload-key-*.ts`, `paired-device-*.ts`) | tables of keys, bindings, devices | create, redeem, resolve, revoke | a revoked key creates nothing; a device keeps its public key |
| Transfer sessions (`apps/server/src/transfers`: coordinator, service, gateway) | three maps: sessions, connections, upload to session | create, inbound and outbound signals, expiry, failure | one live session per upload; nothing is left open for a session that is gone |
| Transfer protocol (`incoming-upload-receiver.ts`, `webrtc-upload-session.ts`; `webrtc-file-transfer.ts` and its helpers on the phone) | authorization, queued packets; position and inbox of the phone | authorize, chunk, acknowledgement, complete, ready, nack, cancel | the phone reports success only for material that is ready; a resumed transfer continues where the library stopped |
| Mac control plane (`project-upload-key-control.ts`, `mac-control-route.ts`, `cloudflare-signaling-client.ts`) | one reconnecting socket, requests in flight | redeem, create transfer, resume transfer, reconnect | every request gets one answer; a failed creation frees its reservation |
| Control room (`workers/signaling/src/control-room.ts`) | sockets, map from pending requests to phones | forward a request, forward an answer, close | an answer reaches the phone that asked; places of dead requests are freed |
| Mobile H5 (`apps/mobile-upload`) | task queues, IndexedDB records, camera recorder | enqueue, retry, resume, record | at most three transfers; no record of an unfinished upload is lost; a recording ends once |
| Native shell (`apps/mobile-shell/src-tauri`) | persisted queue, session bindings | enqueue, acknowledge, change status, bind, consume a close | memory and file agree; terminal states are terminal; a close reaches the upload it is for |
| HTTP server, runtime configuration, TURN, schemas, desktop client | none that matters here | routes, parsing, views | not modelled |

The control plane calls the library and the transfer service; the service calls
the coordinator and the gateway; a session of the coordinator feeds the
receiver, which calls `appendChunk`, `completeUpload` and `cancelUpload` of the
library.  All of this is one Node process: between two awaits code runs alone,
at every await anything else can run.  What makes it hard: requests of several
sessions interleave at awaits, files and database rows change in separate
steps, the process can stop between any two, checks made before an await are
used after it, and messages and answers get lost with their connection.  The
phone has two programs: a web page, with the same rule for awaits, and a native
shell in Rust, whose tasks interleave at every lock.

`PROJECT.json` lists these hazards one by one with the line where each bites.

## Modules

* `MaterialLibrary` - the library, described below.
* `UploadLifecycle` - what the library promises about an upload, in six actions.
  `MaterialLibrary!KeepsPromise` states that the library implements it.
* `UploadContract` - what a row promises to those who transfer the file, and `SessionSlot` - what
  the sessions of one upload promise.  `MaterialLibrary` and `TransferSessions` keep them in all
  their steps, and `TransferProtocol`, which takes both in single steps, keeps the same ones: so what it
  leaves out of the library and of the sessions is how they work, and not what they promise.
* `MCMaterialLibrary` and `MCLibrary*.cfg` - the instances for TLC.
* `TransferSessions` - the sessions of the Mac server, described below;
  `MCTransferSessions` and `MCSessions*.cfg` are its instances,
  `TransferSessionsProofs` its proofs.
* `TransferProtocol` - one upload from the phone to the library, described below;
  `MCTransferProtocol` and `MCProtocol*.cfg` are its instances, `TransferProtocolPhone` and
  `TransferProtocolProofs` its proofs, for the steps of the phone and of the Mac.
* `ControlPlane` - how a phone asks and the Mac decides, described below.  It composes
  `ControlRoom` (the sockets of the Mac, the room of the Worker and the phone's request) with
  `UploadKeys` (keys, devices, bindings and what a request does to them), which share the
  messages of `ControlRequests`.  `MCControlPlane` is its instance, `ControlPlaneProofs` its proofs.
* `MobileUploader` - the upload page on the phone, described below.  It composes `CameraRecorder`
  with `ResumableUploads` (the records in IndexedDB); `MCMobileUploader` is its instance,
  `MobileUploaderProofs` its proofs.
* `NativeShell` - the native mobile shell, described below.  It composes `NativeQueue` (the
  persisted queue) with `SignalingRoom` (the rooms of the Worker); `MCNativeShell` is its instance,
  `NativeShellProofs` its proofs.
* `MaterialLibraryLanes` - proofs about the library: the model is well typed, and what the
  queues guarantee.
* `MaterialLibraryProofs` - proofs: the inductive invariant and the theorems
  that follow from it.

### MaterialLibrary

| variable | in the code |
| --- | --- |
| `row`, `chunks`, `blobs`, `refs`, `bound` | the tables `uploads`, `upload_chunks`, `blobs`, `material_references`, `project_upload_transfer_bindings` |
| `staging`, `blobFile`, `manifest` | the files under the material root |
| `mode`, `todo` | whether `createMaterialLibrary` is reconciling, and the uploads it has still to visit |
| `task` | the requests being worked on: program counter and the local variables that live across awaits |
| `queue` | `CreationOperationQueue` and the per-upload lanes of `UploadOperationQueue` |
| `faults` | stops and failing calls so far (a bound, not part of the code) |

A request is a task.  `RequestCreate`, `RequestAppend`, `RequestComplete` and
`RequestCancel` put it at the tail of its lane; it begins when it is the head
(`AtHead`), and `Finish` lets the next one begin.  One step is the code between two
awaits, or one effect on the disk.  The steps of each operation:

* create: `BeginCreate` (reads the reservation), `AdmitCreation` or
  `RefuseCreation` (free space, staging file), `InsertRow`, `LandManifest`, and
  `BindUpload` for a project upload.
* append: `BeginAppend` or `AnswerAppend` (guards), `WriteByte` for each byte,
  `PersistChunk`, `LandManifest`.
* complete: `BeginComplete` or `AnswerComplete`, `HashStaging`, `FindBlob`,
  `ReuseBlob` or `MoveToBlob`, `MarkCommitted`, `VerifyBlob`, `CreateReference`,
  with a `LandManifest` after every change of the row.
* cancel: `BeginCancel` or `AnswerCancel`, `LandManifest`, `RemoveStaging`.
* start: `Start`, one of the `Reconcile...` actions per upload, which goes on with
  the steps of the commit where the code calls them, then `Serve`.
* `Stop` ends the process at any point; `Fail` makes the call a task is at throw
  without its effect.  A call that takes effect and throws afterwards is a `Fail`
  at the next step.

Data.  A file is a function from offsets to bytes; a byte is the SHA-256 of the
file it comes from, so that hashing asks whether all bytes of a file are those of
one file.  A damaged packet has other bytes than its checksum says.  A manifest
is the state and the chunks it mirrors.  Names, targets, timestamps and error
texts are left out.

### TransferSessions

A phone that wants to send, or to resume, has the Mac call `create` of
`DefaultUploadTransferService`.  Three objects each keep a map, and no lock or
transaction keeps them together:

| variable | in the code |
| --- | --- |
| `sessions`, `uploadOf` | `InMemoryUploadSessionCoordinator.sessions`: a peer is open for each; the upload is an argument of the peer |
| `connections` | `DefaultSessionSignalingGateway.connections` |
| `sessionByUpload` | `DefaultUploadTransferService.sessionByUpload` |
| `socket` | the signaling socket of each session: `DefaultCloudflareSignalingConnection.opened`, `closed` and the `readyState` of the socket below it |
| `call` | the calls to `create` in progress: where each awaits, its upload, its session |
| `expired` | the sessions whose `expiresAtEpochMs` has passed; only `create` and `accept` look |
| `granted` | the sessions that a call has returned |
| `transferring` | the uploads that `create` accepts; the library is `MaterialLibrary`'s subject |

`create` is `Request`, then `IceFails`, `RefuseSession` or `StartSession`, then
`SocketOpens` and `Register`, or `ConnectFails` and `AbortCall`.  `StartSession` is all
the code between the two awaits: expired sessions are closed, the new one is stored, the
previous one of the upload is closed in the coordinator (which sends a close signal,
whose delivery closes the connection, or throws and only removes it) and in the gateway.
At any time a message arrives (`InboundCloses`), the peer sends a signal on a dead
socket (`LocalSignalFails`), the peer fails (`PeerFails`), the socket dies (`SocketLost`)
or its death is reported (`RouteFails`), a session expires (`Expire`), the upload ends
(`EndUpload`).  Between the event that settles the promise of `connect` and the
continuation of `create` only microtasks run: `Quiet` keeps events out of that gap.

Not in the model: exceptions thrown by calls of the native peer, the unpairing of devices
(which only refuses a `create`), and messages that arrive on a socket after its `close`.

### TransferProtocol

Both ends of one upload.  The phone runs attempts (`executeMobileUploadTransfer`); the Mac
answers their requests, holds at most one session open, and works off the messages of each session.

| variable | in the code |
| --- | --- |
| `phone` | each attempt: where its code awaits, its first or its refreshed session (`round`), the offset of `transferChunks` (`pos`), and whether the page knows the upload for a retry (`known`, from `retryableUploads`) |
| `record` | whether `mobile-state.ts` lists the upload as resumable in IndexedDB |
| `creator`, `request` | the request that creates the upload, and how far the Mac is with each request for a session |
| `live`, `authorized` | the session whose peer the Mac holds open; `DurableIncomingUploadReceiver.authorized` |
| `work`, `toPhone` | `IncomingMessageQueue` of each session; the answers on its control channel, up to the inbox of the phone |
| `state`, `chunks`, `received`, `worker` | the row and chunk rows of the upload, and the session whose completion holds its lane |
| `up`, `stops` | whether the Mac serves (`stops` is a bound) |

An attempt goes from `requesting` (`CreateAttempt`, `ResumeAttempt`, `RetryAttempt`) over `opening`
(`ReceiveGrant`) to `authorizing` (`OpenChannels`), `sending` and `completing` (`ReceiveAck`), and
ends in `succeeded` (`ReceiveReady`) or `failed`.  A lost connection (`TransferLost`) makes it ask
once more; a nack, an answer it does not expect, or 60 seconds without one make it fail.  The
attempt of a page that is reloaded is `gone`.  On the Mac, a request is `asked`, `checked`,
`connecting` and `granted`, with the awaits of `createTransfer` and `resumeTransfer` in between; a message
at the head of a queue is handled by one of the `Authorize`, `Chunk` and `Complete` actions, each of which answers,
or throws and answers nothing (`NoAnswer`).

The model composes what the other modules establish: the operations of the library on one
upload run one after the other and settle a half-done commit at the next start
(`MutualExclusion`, `ServesReconciled`, `UploadLifecycle`; staged to committed is one state, `settling`),
and an upload has at most one open session (`OneLiveSession`).  A chunk is its index, offset and
size; the bytes are `MaterialLibrary`'s subject.  A creation that is repeated after its
answer was lost makes another upload, which is another instance of the module.

Not in the model: the messages `resume`, `cancel` and `pause`, which no phone sends; a
phone that breaks the protocol (`MaterialLibrary` lets requests do that); the expiry of grants, which is
one of the reasons for `RejectAuthorization` and `PeerEnds`.

### ControlPlane

| variable | in the code |
| --- | --- |
| `up`, `timer`, `current` | whether the Mac's process runs; `reconnectTimer` and the socket of `DefaultMacControlRoute` |
| `macEnd`, `roomEnd` | the two ends of each socket of the Mac: `readyState` in the process, and what `getWebSockets` of the Worker lists |
| `asked`, `toMac`, `toRoom`, `toPhone` | frames under way: phone to room, room to Mac, Mac to room, room to phone |
| `pending` | `ControlRoom.pendingRequestSockets` |
| `phone`, `phoneEnd` | the promise of `requestMacControl`; the room's end of the phone's socket |
| `keyState`, `paired`, `bindings` | the tables `project_upload_keys`, `paired_devices`, `project_upload_key_bindings` |
| `uploadRow`, `transferOf` | `uploads.state`, and `project_upload_transfer_bindings` |
| `creations` | `CreationOperationQueue` |
| `work` | the handling of each request: where it awaits, what was asked, its upload |
| `faults` | ends of the process, lost sockets and failing insertions so far (a bound) |

A socket has two ends that change apart.  The Mac connects (`Connect`, after its timer), the
handshake reaches the room (`AcceptMac`, which supersedes the sockets that are open) and then the
Mac (`MacOpens`).  Either end can go first; the other learns of it (`MacNotices`, `RoomNotices`).
`MacCloses` is the close handler: it forgets the socket if it is the current one and arms the timer.
A request is asked (`Begin`), forwarded to the first socket listed, also one that is closing
(`ForwardRequest`), or refused (`RefuseRequest`); `Hibernate` empties the map of pending requests.
`Receive` is the handler of the Mac up to its first await: a redemption ends there, a creation goes to the
queue (`QueueCreation`), a resumption opens its session (`BeginResume`).  A creation then is `CreateRow` or
`RefuseCreation`, `BindUpload` or `BindThrows`, `SessionOpens` or `SessionFails` with
`CancelUpload`.  The answer goes out on the socket that is current by then (`Sent`), or nowhere.
A redemption whose second insertion throws ends the process (`ReceiveThrows`).

### MobileUploader

| variable | in the code |
| --- | --- |
| `ready`, `placeholders` | whether `initialize` has ended, with an identity; the entries `awaiting_file` |
| `status` | the state of each item, which is also where its task awaits |
| `retryable`, `upload` | `retryableUploads`; the upload that the Mac accepted for an item |
| `pending`, `running` | `ConcurrentTaskQueue.pending`, and the tasks counted by `activeCount` |
| `records`, `mutations` | the list in IndexedDB; the calls in `SerialTaskQueue`, with the list that each has read |
| `camera`, `held`, `active`, `completion`, `failed`, `isRecording` | the recordings, the captures not released, and the fields of `DefaultCameraVideoRecorder` and of the page |
| `unread`, `lost`, `overlapped` | histories: the records that `initialize` could not read, the uploads the Mac created for an item without its hearing of it, the recordings whose `start` was under way together with another one |

`Initialize` shows a placeholder for each record.  `InitializeFails` is the other outcome of `use-mobile-uploader.ts:74-91`:
`listResumableUploads` throws after the identity and the destination are there, so the page can be used without its records until
it is loaded again, and does not show the error, which it renders only while `isInitializing`.
A file becomes an item by `SelectFile`, by `PickFile` and `ResumeFile` (two steps: the records
are read in between), by a recording, or again by `RetryUpload`.  Its task begins when the queue has
a place (`StartAvailable`), is accepted by the Mac (`Accept`), saves its record, transfers, and
removes its record; or the Mac creates the upload and the answer is lost (`AnswerLost`), so that a retry creates
another one.  Each change of the list is `Read` and `Write`, or fails (`WriteFails`).
`TransferProtocol` is the inside of one task.  `StartCamera`
and `CaptureGranted` are the two sides of the await in `start`, and a second `StartCamera` may come in between; the events of the recorder come when they
like.  `Reload` forgets everything but the records.

### NativeShell

| variable | in the code |
| --- | --- |
| `queue`, `disk`, `left` | `UploadQueue.state`, the document it is written to, and all documents that a power loss can leave there |
| `told`, `unsure` | histories: for each upload, its entry as of its last change that returned `Ok`, and the entries that its changes since then, which did not, asked for |
| `pc`, `native`, `held` | where each connection is, which of them are tasks of `run_connection`, and the upload that a handler of a close has looked up |
| `bindings`, `senders` | `TransferControl.bindings`; the keys of `MobileSignaling.senders` |
| `session`, `roomEnd`, `frame`, `closed` | the phone's sockets in the rooms, the close frames on their way, the sessions that the Mac has closed |

`Start`, `Register` or `AlreadyConnected`, `Breaks` and `Leave` are `run_connection`; a close frame is
`Lookup`, `SetByClose` or `SetFails`, and `Unbind`, each under a lock of its own.  A change of the
queue is `Persisted`, or `NotPersisted` with the old or the new document in place; a rename whose sync failed adds to
`left`, and the next sync leaves one document.  `Open` reads at the next
start what is there, or any document of `left`.  An entry is its status and its progress; the material identifier and the
reason of a pause are data that go with them.  The caller that enqueues,
acknowledges and changes the status is not in the repository yet: `Mutate` makes any change that the
queue allows at any time.

### What the properties say

Of the library:

* `AcknowledgedBytesIntact`, `ReceivedIsCovered`: what the library acknowledged is
  in the staging file and stays; the resume position counts it exactly once.
* `NothingLost`: wherever the process stops, the bytes of an upload that has not
  failed or been cancelled are in staging or in the blob.
* `BlobsIntact`, `VisibleIsIntact`: only whole verified files stand at blob paths;
  every reference leads to one.
* `MutualExclusion`: two tasks never work on one upload.
* `ManifestNeverAhead`: the manifest never claims what SQLite does not have.
* `NoOvercommit`: the volume can hold what the admitted uploads have still to send.
* `ServesReconciled`: when the server begins to serve, no upload is half committed,
  manifests mirror their rows and no finished upload has a staging file.
* `KeepsPromise`: the refinement of `UploadLifecycle`.
* `EveryRequestAnswered`, `RestartSettles`: liveness.
* `LibraryInv`: the inductive invariant of the proofs.
* Stated by theorems only: `KeepsContract`, the refinement of `UploadContract` for each upload;
  `NothingRetracted`: no row that a phone or a later stage relies on is taken back; `TasksRunDown`: the
  steps of a request and of the reconciliation lead to their end; `LanesExact` and `NoOvertaking`: the
  lanes hold each request once and serve in the order of arrival.

Of the sessions:

* `OneLiveSession`: an upload has at most one open peer, the one the service remembers.
* `LiveHasRoute`: no half-open peer remains, as a test asks after a failed route
  (`upload-transfer-service.test.ts:74`); here for every order of failures.
* `RoutesOwned`: an open socket is always one that the gateway can close.
* `OldRouteClosed`: a grant is out only when the older sessions of the upload have neither peer nor
  socket, except a socket that was overtaken: its session was superseded while its own creation
  was still connecting it (`overtaken`, a history variable of the instance).
* `PriorRouteClosed`: the same without the exception; violated, see below.
* `CallsAnswered`, `LossNoticed`: liveness.
* `SessionsInv`: the inductive invariant of the proofs.
* Stated by theorems only: `KeepsSlots`, the refinement of `SessionSlot` for each upload; `NothingReopens`:
  no late event of an old session opens its peer or its socket again; `CallsRunDown`: a call to `create` only
  goes on, and what it waits for is still under way.

Of the protocol:

* `SuccessMeansReady`: the phone reports success only for a `ready` upload.
* `PositionIsDurable`: the phone never goes on from, or shows, bytes that are not stored.
* `StoredIsPrefix`: `received_bytes` is a position: what is stored is the file up to there,
  each chunk once, whichever sessions it came through.
* `AcksExpected`, `ChunksWelcome`: two attempts on one upload, a superseded session whose queue is
  still worked off, and a chunk whose acknowledgement was lost never make either end refuse what the
  other sends while the upload is transferring.
* `BytesRecorded`: an unfinished upload with stored bytes is recorded as resumable.
* `ProtocolInv`: how far the two ends of a session and the library can be apart; the inductive
  invariant, see the proofs.
* `AttemptEnds`: liveness.
* Stated by theorems only: `KeepsContract` and `KeepsSlot`, the two refinements; `SettledIsWhole`: what is
  settled is the whole file; `RecordKept`: a record goes only when its material is ready; `AttemptsRunDown`: an
  attempt takes a bounded number of steps.
* `FailedIsResumable`: what the plan says of failed attempts; violated, see below.

Of the control plane:

* `ControlInv`: the inductive invariant of the proofs.  Its parts say what could go wrong: the route of a running
  Mac has exactly one way forward, its timer or one socket (`OneWayForward`); the room serves one socket of
  the Mac and expects answers only for phones that are still there (`RoomInOrder`); only the head of the creation
  queue is at work (`QueueInOrder`); what is handled was let in by a binding (`WorkIsGranted`); and no request is
  handled twice (`HandledOnce`).
* `AcceptedIsDurable`: what a phone is told is in the tables, whatever was lost, revoked or ended since.
* `UnboundOnlyByFault`: an upload that nobody can resume is the trace of a fault between its row and its binding.
* `MacComesBack`: liveness.
* Stated by theorems only: `NothingRewritten`: no phone takes another one's name, no key is unbound or revived, and
  no upload changes hands; `RevokedOnlyDrains`: what a revocation still lets through are the creations
  that waited in the queue; `AnsweredOnce`: a request has one answer at most.

Of the page:

* `PageInv`: the inductive invariant: the queue never runs more than its limit and never leaves a
  place free (`QueueInOrder`), each item awaits one change of the list (`CallsInOrder`), and a task or a retry goes on
  with the upload that the page knows for its file (`ItemsInOrder`).
* `NothingForgotten`: an upload under way is in IndexedDB, and a record always has an entry in the
  list, so that the user can go on with it.  Only the records that `initialize` could not read wait for the next
  load of the page.
* `EveryFileSettles`, `CameraSettles`: liveness, and that only the active recording holds the camera, except a
  recording whose `start` overlapped with another one.
* `StopReleases`: the same without the exception; violated, see below.
* Stated by theorems only: `OneUploadEach`: once the page knows an upload for a file, by the Mac's answer or
  from a record, no retry creates another one; a second one is created only while every answer to the creations so far was
  lost (`lost`), and then the Mac does have more than one; `ListKept`: no change
  of the list undoes another one, and a record goes only when the Mac has the file; `NoOvertaking`: files
  are sent in the order in which they were added; `CameraReleased`: the safe half of `CameraSettles`.

Of the native shell:

* `NativeInv`: the inductive invariant: each entry of the registry has one connection that will remove it, a room
  has one open socket of the phone, and the close of a session is handled once.
* `ConfirmedSurvives`: a change that was reported as done, an acknowledgement and a pause as well as a final status, is not
  undone by a failing write, a stop or a power loss: each document that can be left has for each upload the entry that its
  last confirmed change made, or one that a later change, which was not confirmed, asked for.
* `CloseIsRouted`: a handler that released the lock acts for a session still bound to its upload.
* `RegistrySettles`: liveness.
* Stated by theorems only: `FinalStays`: a cancelled or completed upload, once reported, is never brought back, in the queue
  or in any document that can be left;
  `ConnectionsRunDown`: a connection only goes on towards its end, and leaves no entry behind.

The properties stated by theorems only were checked by TLC on the instances of the table below before they were proved.
No run lists them, because the theorems say the same for every instance.

## Runs

| run | instance | shows |
| --- | --- | --- |
| `commit` | two uploads, of one file or of files of one and two bytes, on a volume of three; two concurrent requests, two faults | storage invariants, mutual exclusion, no overcommitment, reconciliation, refinement, the inductive invariant |
| `transfer` | one upload of two bytes, six packets (split, whole, replayed at another offset, past the end, damaged), two requests, two faults, fair scheduling | the chunk properties and the manifest; requests are answered, restarts settle |
| `same_file` | two uploads of one file, no faults, fair scheduling | a violation, see below |
| `sessions` | one upload, three sessions, two overlapping calls, fair scheduling | the four invariants and the inductive one; calls end, lost sockets are noticed |
| `sessions_superseded` | one upload, two sessions, two overlapping calls | a violation, see below |
| `protocol` | two attempts, a file of a whole chunk and a short one, one stop | the safety properties of the protocol and its inductive invariant |
| `protocol_liveness` | one attempt, the same file, two stops, the phone's timers | attempts end |
| `protocol_answer_lost` | one attempt, a file of one chunk, no stop | a violation, see below |
| `control_plane` | a phone with one key, two requests at a time, one upload, two sockets of the Mac, one fault | redemptions and grants are durable, requests are handled once, the Mac comes back |
| `mobile_page` | three files, two of them from the camera, two uploads, two places in the queue | the queue, the records, the retries and the camera |
| `camera_overlap` | two recordings and nothing else | a violation, see below |
| `native_shell` | one session, one upload, two connections, two failing writes | the queue survives, closes reach their upload, the registry settles |

Why the bounds are enough, for the library.  Requests on different uploads meet only in the blob of
a common SHA-256 and in the free space, and a race needs two of them: two
uploads, two tasks.  Two bytes give every way two chunk ranges can be equal, nested,
adjacent or disjoint, and a write interrupted in the middle.  Two faults allow a
stop, and a second stop in the middle of the recovery from the first.  The volume
of three bytes holds either pair of one-byte files, or a one-byte and a two-byte
file, but not two of two bytes.  `Declared` and `Packets` list what phones may send,
including what honest phones send wrong after a file changed.  The file of two bytes is in `commit` to compete for the
volume: while a request or an upload is about it, `MCNext` allows one fault, and no packet of a changed file.  The uploads and the
tasks are symmetric; symmetry is not used for the liveness runs.  Deadlock is not
an error where identifiers run out (every identifier has a finished upload or the
orphan staging file of a failed creation): the real `randomUUID` never does.

For the sessions.  Two calls overlap in every way two can; three sessions let one be
superseded while it is still connecting, expired or lost, and its successor again.  A session's
steps depend on one upload and on the calls, so a second upload or a third call adds only
copies; the proofs cover them for the invariants they state.  Identifiers are used once and run out, so
the runs do not check deadlock.

For the protocol.  Two attempts have four sessions, so a session can be superseded by another attempt
and by a refresh, with messages of each of them still queued.  Two chunks of different
sizes give a first, a last and a cut chunk, and a resume from the start, from the middle and
from the end.  One stop empties every queue; a second would find what the first has left.
For the end of an attempt another attempt does nothing that `PeerEnds` does not.  Attempts run out, so
the runs do not check deadlock.

For the control plane.  Two sockets of the Mac are one that dies and one that follows, with the
handshake of either arriving late, also that of a process that has ended.  Two requests overlap in the creation queue
and on the way; an identifier is used again when nothing of its request is left.  Phones with different keys meet
only in the creation queue; that no key gives access to the upload of another is in `AcceptedIsDurable`,
which the proofs establish for any number of keys and phones.  One fault is a stop, a
lost socket or a failing insertion; what is noticed or superseded afterwards is not counted as one.

For the page.  Three files and two places make one wait; two files that come from the camera can be
recorded in overlapping ways, and one that does not can be selected, picked and retried.  With two uploads
two records change at the same time.  A file is an item once, so files run out.  `MCNext` keeps apart what does not meet:
lost answers and unread records come with any three items while the camera is at rest; a camera that is in use comes with two
items at most, and overlapping starts of it with one.  The camera and the answers meet only in the items, and
the third item may be the file of a recording.

For the native shell.  Everything in a session concerns its room and one binding, and two connections are
what it takes for one to supersede the other.  `MaxFaults` bounds only failing writes;
restarts, power losses and lost sockets are not bounded.  Two failing writes are what it takes for a power loss to leave a
document between the newest and the last synced one.  The queue and the connections meet only in the two steps of a close
frame that change the status; so `MCNext` has two failing writes while no connection is open, one with one connection
and no acknowledgement so far, and none with two.

A step that `MCNext` cuts off in `mobile_page` or `native_shell` is always one outcome of an action that has another one
(a transfer that fails with or without an upload on the Mac, a stop with or without a file, a write that is done or fails), or a
step that no fairness asks for: so fairness never asks for what is missing, and no liveness property holds because of it.

Fairness of the library.  `FairSpec` assumes that a task whose next step is possible takes it (the
event loop runs each continuation, and each call to the file system returns), and
that the server is started again and its start makes progress.  Nothing is assumed
about requests, stops or failures, which may happen at any time or never.

Fairness of the sessions.  An await of `create` ends: the request for ICE servers returns or
fails, `connect` has a timeout, continuations run.  A socket that is lost reports its close.
Nothing is assumed about messages, peers, expiry or the losses themselves.

Fairness of the protocol.  Only the phone's timers: 30 seconds for a request and for the socket, the
timeout of the opening of the channels, and 60 seconds for each wait in the inbox
(`PhoneTimers`).  Nothing is assumed about the Mac or the network.

Fairness of the control plane.  The timer of the Mac fires; a handshake reaches the room and its answer the
Mac, or fails; and each end of a socket that is closed at the other learns of it, as a TCP connection that is
used or kept alive does (the code has no heartbeat of its own, so the time this takes is the system's).  Nothing is
assumed about requests, answers, the Worker's memory, or faults.

Fairness of the page.  An attempt ends (`AttemptEnds` of `TransferProtocol`), IndexedDB answers each
transaction, and a recorder that became inactive fires its stop event.  Nothing is assumed about the user.

Fairness of the native shell.  The runtime polls its tasks, so that each of their steps is taken; the rooms answer a
handshake, and notice that a socket was dropped; and the phone learns that its socket was lost, which ends the loop
(`SocketEnds`).  The last is more than the code does: `run_connection` (`runtime.rs:46-73`) has neither a ping nor a read timeout,
so with a silent loss it takes as long as the system's TCP takes, or until the page sends something, and the entry stays until then.
The steps of a connection are fair as a whole: a close frame is handled, successfully or not.

The first disagreement.  `same_file` violates `VerifiedBecomesReady`: two uploads of the
same SHA-256 complete at the same time in different lanes; both find no blob row;
both rename their file to the blob path; both insert the blob row, and the primary
key rejects the second, whose upload stays `committed` without a reference until the
next start of the server.  The plan
(`docs/本机公网入库技术方案.md:78`) promises an independent reference for each
project and category over one physical blob.  The library never loses content in
that race: that is what `VisibleIsIntact` and `BlobsIntact` show.

The second disagreement.  `sessions_superseded` violates `PriorRouteClosed`: a phone asks twice
for a session of one upload; while the first call waits for its socket, the second closes the
first session.  The gateway knows no connection of it yet, so the socket goes on
connecting, opens, is stored, and the first call returns a grant that no peer stands behind.  The
socket stays in `connections` until an inbound message, an error or the room closes
it.  The test `upload-transfer-service.test.ts:99` says that the prior socket is closed before the
new grant is used; it makes its two calls one after the other.  `OneLiveSession` and
`RoutesOwned` show that nothing worse follows: the orphan has no peer and can still be closed.

The third disagreement.  `protocol_answer_lost` violates `FailedIsResumable`: the phone
sends `complete`, the connection is lost (or 60 seconds pass while a large file is hashed), and
the library makes the material ready.  The attempt fails and keeps its record; every resume of it is
refused, because `resumeProjectUpload` (`sqlite-material-library.ts:193`) accepts only an upload that is
`transferring`.  The plan (`docs/本机公网入库技术方案.md:42`) says that such an attempt is kept as one that
can be resumed.  Nothing is lost, and `SuccessMeansReady` shows that the phone never errs in the
other direction.

The fourth disagreement.  `camera_overlap` violates `StopReleases`: `start` looks at `active` before it awaits the
permission (`camera-video-recorder.ts:79`) and assigns it afterwards, and the button is not disabled while a `start` waits
(`App.vue:167-173`).  A second tap during the prompt starts a second recording; the capture that is granted last becomes the active
one, stopping releases only that, and the first keeps camera and microphone until the page is gone.  `DESIGN.md:113`
says that the tracks are released when a recording was stopped, has failed or is empty.  `CameraReleased`
shows that no other path keeps the camera: every capture held belongs to the active recording or to a start that overlapped.

## Proofs

The theorems about the library are about `MaterialLibrary!Spec`, for all values of the constants that satisfy
`ConstantsOK`: any finite set of uploads and files, any sizes, any number of
requests and any bound on faults.

`LibraryInv` is inductive.  The storage invariants alone are not: that
`CreateReference` preserves `VisibleIsIntact` needs that the upload is `committed`
and nobody else works on it, which needs what each program point implies
(`PointOK`), that each upload has one task (`MutualExclusion`), and that a task at
work is the head of its lane (`LanesOK`), holds the arguments of its operation
(`ArgumentsOK`) and is not the creation of an upload somebody already knows
(`CreationsOK`).

* `MaterialLibraryLanes`: `TypeStep` shows that every action preserves `TypeOK`, and
  `QueueingStep` that every action preserves `LanesOK`, `ArgumentsOK` and
  `CreationsOK`; `Exclusion` derives `MutualExclusion` from them.
* `MaterialLibraryProofs`: `KeptStep` shows, from both, that every action preserves
  `RowsOK`, `PointOK`, `BlobsIntact`, `VisibleIsIntact` and `NothingLost`.  The heart is
  `CommittingKeeps`: a rename over an existing blob changes no byte because both
  files hash to the same SHA-256.
* `LibraryInvariant`, then `TypeCorrect`, `VisibleMaterialIsIntact`,
  `BlobFilesAreIntact`, `NoMaterialIsLost` and `OneTaskPerUpload`.

Six more parts of `MaterialLibraryProofs` rest on `LibraryInv`:

* Bytes.  `BytesInv` says of each upload that its chunk rows are disjoint parts of the declared file,
  that its row counts them and that staging holds them (`ChunksOK`); of a chunk being written that it is still new
  and how much of it is in staging (`WritesOK`); of a manifest about to land that it is not ahead of the row
  (`MirrorOK`).  `WritesOK` is what makes it inductive: between the check of a chunk and its row there is one step per
  byte, and only because no other task is at work on the upload is the check still true at the end.  From
  `BytesInvariant` follow `AcknowledgedStays`, `PositionsCount` and `ManifestsFollow`.
* Refinement.  `LibraryKeepsPromise` proves that the library implements `UploadLifecycle`: every action leaves its
  variables alone (`PromiseStutters`), moves one upload to its next phase (`MovePromise`), stores verified content, or
  publishes content that is stored.  That a rename over an existing blob stores nothing else is again
  `BlobsIntact`.
* Recovery.  `ServesOnlyReconciled` is an action property; its invariant says that the staging file is gone before an
  upload is committed (`GoneOK`), that the reconciliation mirrors the row itself and leaves only settled rows
  (`ResumeOK`), and that an upload is to be visited, reconciled, or the one at work (`TodoOK`).
* Space.  `NoOvercommit` is not inductive, because a creation reads the reservations before it inserts its row.  `SpaceOK`
  adds that the reservation read still covers what is missing, and that an admitted upload fits together with what
  is missing; creations take turns, and everything else only frees space or takes for a byte what was
  missing.  A rename to a blob frees as much as it takes.  `NeverOvercommitted` counts the sets of bytes with
  the theorems on cardinality of the prover's library.
* Rows.  `RowsChange` says that a step inserts a row, adds one chunk to it, takes it to a next state of its
  path, or leaves it alone (`Changes`).  `ReceivedFits` derives from `BytesInv` that a row never counts more than the
  declared size, because its chunks are disjoint parts of it.  From both follow `LibraryKeepsContract`, where the
  step to settling needs the check of `BeginComplete` and that no other task writes until `MarkCommitted`, and
  `NothingIsRetracted`.
* Order and end of the requests.  `TasksChange` says that a step lets a request arrive at the end of its lane,
  takes the one at work to a next step with fewer steps left, settles it and takes it off the head of its lane, or stops
  everything (`TaskChanges`).  `StepsLeft` is the measure: a manifest counts one before the step it
  precedes, a chunk one for each byte still to write.  `TasksEnd` follows, `LanesAreExact`, which is
  inductive with `LibraryInv`, and from it `NoneOvertakes`.

The theorems about the sessions hold for any sets of uploads, sessions and calls; the one
assumption is that `None` is none of them (`DistinctNone`).  `SessionsInv` adds to the three
invariants where each call stands (`CallsOK`): its session belongs to no other call, is not
among the connections before `Register`, and its socket is in the state that the program
counter says.  Without it, `Register` could list a closed socket, and closing a previous session
could close a socket that another call is about to store.  `TransferSessionsProofs` has a lemma
per action, `SessionsInvariant`, and from it `AtMostOneLiveSession`, `LiveSessionsHaveRoutes` and
`OpenRoutesAreOwned`.
`OldRoutesAreClosed` is about `MCTransferSessions!MCSpec`, the specification with the history of overtaken sessions:
`RoutesFollow` says that a session its upload has left behind has a socket only if it was overtaken, and that a
connecting socket has a call that waits for it.
`SessionsKeepSlots` is the refinement of `SessionSlot`: a new session was never used, and
`OneLiveSession` makes it take the place of the one before.  `WhatIsOverStaysOver` takes each action and
each session in turn; its core is `StartSessionOneWay`: only the previous session of the upload loses its socket, and
its peer goes in the same step.
`CallsEnd` needs `CallsOK`: the socket of a call belongs to no other one, so none can close it.

The theorems about the protocol hold for any attempts, any positive sizes of the file and of its chunks,
and any bound on stops (`ProtocolConstants`).  That the acknowledgement of a chunk is the one the phone
expects is not inductive: it needs that the library has moved by no more than that chunk since the phone
took its position, although superseded sessions are still worked off.  `ProtocolInv` says why.

* A session has one message or one answer under way, nothing before its channels are open, and is asked
  for once (`TypeOK`, `SessionsFresh`, `SessionsGranted`); an answer under way answers what the phone said last
  (`Conversations`).
* A queued chunk starts at a position the library has reached (`QueuesOK`), and so does the phone
  (`PositionsOK`).
* The phone in the live session is at `received` or one chunk behind, and the chunks in the queues of
  other sessions are not ahead of it, so they can only repeat what is stored or store its own chunk
  for it (`LiveInStep`).
* A completion at work is at the head of its queue with the upload `settling`, and a stopped Mac
  holds nothing (`MacOK`); what was begun is recorded (`RecordOK`).

The proof rests on a little arithmetic (`Positions`: from a position the next is one chunk on and none lies
between, for a last chunk of any size) and on `PersistKeepsPrefix`.  Each lemma in it stands
for a group of actions that change the same thing: `Asks`, `Moves` and `Retires` for the phone, `Decides`,
`WorksOff` and `Stands` for the Mac.  From `ProtocolInvariant` follow `ProtocolTypes`, `SuccessIsTrue`,
`StoredPrefix`, `PhoneNeverAhead`, `AcknowledgementsFit`, `ChunksAreWelcome` and `BytesAreRecorded`.

On `ProtocolInv` rest three more parts.  `LibrarySteps` says how the row of the upload changes (`LibraryStep`), and gives
`SettledWhole` and `ProtocolKeepsContract`, the refinement of `UploadContract` that `LibraryKeepsContract`
proves of the library itself.  `ProtocolKeepsSlot` is that of `SessionSlot`: a session is opened
from a request that is `connecting`, which happens once because an attempt asks only for sessions
nobody used (`AskFreely`).  These two pairs of theorems join the modules: the protocol takes the library and
the sessions in single steps, and what it assumes of them is what they are proved to keep.  The
abstractions are common ones, and do not make the protocol a refinement of the library, whose steps on
the disk it does not have.  `AttemptsEnd` has a measure again (`StepsLeft`): the bytes that an attempt
has still to send, plus a whole pass for the session it may still refresh to; it decreases because the phone goes on
only by a chunk that was acknowledged, which starts at its position (`ProtocolInv`).  `RecordIsKept` follows from `SuccessMeansReady`.

The theorems about the control plane hold for any sets of requests, keys, devices, public keys, uploads and sockets,
any messages, and any bound on faults; they assume the types of the constants (`MessagesType`, `FaultBound`) and
that the markers for nothing are none of the values (`NoSocketIsNone`, `NoneIsNothing`, `NoGrantIsNone`).
The two halves are proved apart, as they are modelled: a lemma per action of `ControlRoom` for `RouteInv`, a lemma
per action of `UploadKeys` for `KeyInv`.  They are put together in the lemmas of each
group of actions, with what only the composition can say: `HandledOnce`, because a request moves from `asked` over
`toMac` to `work`.  `AcceptedIsDurable` follows because the tables it reads only grow (`InTablesStays`, with
`WorkIsGranted` for a new answer), and `UnboundOnlyByFault` by counting: a step leaves `Unbound`
as it is (`BoundStays`) or adds the one upload that was at work, and then it is a fault (`BoundGrows`).
`ControlInvariant`, `AcceptedStaysDurable` and `UnboundCounted` are the theorems.

`KeySteps` sums up what a step does to tables and work, and gives `TablesAreKept` and `RevocationDrains`.  The
latter is the most that can be said of a revocation: `createUploadExclusive` does not look at
the key again (`sqlite-material-library.ts:104`), so a creation in the queue goes through, but the set of
those (`Creating`) only becomes smaller, and neither a redemption nor a resumption begins.
`OneAnswer` is inductive with `ControlInv`: an answer begins where the work on its request ends, and a phone
uses an identifier again only when nothing of the request is left.

The theorems about the page hold for any files, recordings, uploads and limit of the queue (`PageConstants`).  The
camera is proved well typed apart from the rest, since it meets the queue only through new items.
`StartKeepsOrder` is the heart: taking as many waiting items as there are places keeps the count of
running tasks at the limit or the queue empty.  `CallsLeave` says that the call at the head of the
list can go without disturbing the others.  `PageInvariant` and `NothingIsForgotten` are the theorems.

`OneUploadForEach` rests on `ItemsInOrder`: an item that the Mac has accepted, or that goes on with a record, is retried from
`retryableUploads`; `UploadSteps` adds that only a task which creates can lose its answer (`AnswerLost`), and that one knows no
upload yet.
`ListIsKept` rests on `CallsInOrder`: only the call at the head has read the list, and nobody writes between its two
transactions, so what it writes back is the list with its own change (`RecordSteps`).  `QueueSteps` says that
the queue loses a prefix or gets an item at its end, and `NoneOvertakes` follows, because an item waits
in one place only.  `CameraIsReleased` has an invariant of its own (`CameraGood`): of two starts that wait, and of a start that waits
while a recording is active, both are in `overlapped`.  So what is held when another capture is granted belongs to overlapping starts; the proof goes through each
event of the recorder.

The theorems about the native shell hold for any uploads, sessions, connections and progress
values (`QueueConstants`, `ReasonsHandled`, `NoFrameIsNone`, `NoneIsNoUpload`).  `ConfirmedSurvives` is
inductive: a change that is synced leaves one document, which differs from the queue in its own upload only, and one that fails
adds a document with its entry for that upload to `left`, and the entry to `unsure` (`PersistedKeeps`, `NotPersistedKeeps`, `OpenKeeps`).  `CloseIsRouted` needs `OneHandler`, that a session
has one close frame or one handler.  `NativeInvariant`, `ClosesAreRouted` and `ConfirmedChangesSurvive` are the theorems.
`FinalStatusStays` adds to it that after a confirmed final status no call is allowed that would make another entry
(`FinalIsLast`).  `ConnectionsEnd` goes through the steps of one connection while another moves (`OnwardSteps`); with `NativeInv`, that an entry of
the registry has one owner, it says that the end of a connection leaves no sender behind and takes no other connection's away.

Model-checked only: the liveness properties, `EveryRequestAnswered`, `RestartSettles`, `CallsAnswered`, `LossNoticed`, `AttemptEnds`,
`MacComesBack`, `EveryFileSettles`, `CameraSettles` and `RegistrySettles`.  They need fairness and ENABLED, which the
prover does not treat.  Of most of them the theorems prove the part that is safety: `TasksEnd` and
`NoneOvertakes` that a request can neither loop nor wait behind later ones, `CallsEnd`, `AttemptsEnd` and `ConnectionsEnd`
that each step leads to the end, `CameraIsReleased` that nothing else is held but what overlapped.  What is left to TLC is that a next
step is always possible and is taken.

## Not modelled

* Power loss: writes reach the disk in order, and SQLite transactions are atomic and
  durable.  Only the process stops.
* Other programs that fill the volume or change files under the material root.
* Deletion of projects and materials: the code has none.
* Wire formats, hashing, signatures and tokens; the HTTP routes, TURN credentials, runtime configuration and
  the desktop client, which keep no state that matters here.
* Two tabs of the page: each has queues of its own over the same IndexedDB, so their changes of the list could
  undo each other.  The model has the one page the code is written for.
* Pairing on the page: `saveDestination` reads and writes its list in two transactions, and
  `getOrCreateIdentity` awaits between reading and writing; `isPairing` makes the calls of one page sequential.
* Heartbeats, the limit of eight pending requests of one phone's socket (a phone sends one request per
  socket), candidates and descriptions, and the channel of 32 outbound messages of the native shell: they change
  no state that the models keep.
* Several sessions of one native upload: `transfer_control.rs` expects one session per upload, and its caller is not
  in the repository yet.

Behaviours that the models show and that no property judges, because no document asks for anything else:
an answer that is ready while the Mac has no socket is dropped, and the upload created for it stays
transferring; nothing calls `revoke` yet (`docs/技术架构与选型.md:55` speaks of it), and a creation that waits in the queue
would not notice it; a redemption that fails between its two insertions ends the process; `record_ack` of
the native queue accepts a smaller count; a second native start for one session ends both connections; and a
binding whose close frame never comes stays until the app ends.

## Plan

1. `MaterialLibrary`, `UploadLifecycle` and their proofs (done).
2. `TransferSessions`, and its proofs (done).
3. `TransferProtocol`, and its proofs (done).
4. `UploadKeys` and `ControlRoom`, composed in `ControlPlane`, and its proofs (done).
5. `CameraRecorder` and `ResumableUploads`, composed in `MobileUploader`, and its proofs (done).
6. `NativeQueue` and `SignalingRoom`, composed in `NativeShell`, and its proofs (done).
7. The bytes, the refinement, the recovery and the space of the library, proved (done).
8. The refinements of `UploadContract` and `SessionSlot`, what no step takes back, and the measures of requests, calls,
   attempts and connections, proved (done).
9. Left: measures for the recovery of the control plane's route and for the page's queue, as the safe part of
   `MacComesBack` and `EveryFileSettles`; two tabs of the page, if the page comes to support them; the caller of the native queue, when it is in the
   repository.
