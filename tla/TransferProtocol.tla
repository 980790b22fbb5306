--------------------------- MODULE TransferProtocol ---------------------------
(***************************************************************************)
(* One upload, from the phone that sends it to the library that stores it: *)
(* mobile-upload-transfer.ts and webrtc-file-transfer.ts on the phone,     *)
(* project-upload-key-control.ts, incoming-upload-receiver.ts and          *)
(* webrtc-upload-session.ts on the Mac.                                    *)
(*                                                                         *)
(* An attempt asks the Mac for a session, sends the file chunk by chunk,   *)
(* each after the acknowledgement of the one before, and asks to complete. *)
(* A lost connection makes it ask once more, for a session that resumes.   *)
(* Attempts on one upload can overlap (a retry, or the same file picked    *)
(* again); the Mac closes the older session, but what its queue holds is   *)
(* still worked off.  Requests, messages and answers are lost with their   *)
(* connection, the Mac can stop, and the phone can reload its page.        *)
(*                                                                         *)
(* The library is the promise of UploadLifecycle with its chunk rows: its  *)
(* operations on one upload run one at a time.  The sessions are the live  *)
(* session of TransferSessions.  A creation whose answer is lost and that  *)
(* is repeated makes another upload: another instance of this module.      *)
(***************************************************************************)
EXTENDS Integers, Sequences, FiniteSets

CONSTANTS
  Attempts,    \* calls of executeMobileUploadTransfer for the upload
  FileSize,    \* the bytes of the file
  ChunkBytes,  \* maxChunkBytes
  MaxStops,    \* the bound on stops of the Mac server
  None         \* no session

\* The session an attempt asks for first, and the one it refreshes to.
Sessions == Attempts \X {1, 2}

ASSUME ProtocolConstants ==
  /\ FileSize \in Nat \ {0} /\ ChunkBytes \in Nat \ {0} /\ MaxStops \in Nat
  /\ None \notin Sessions

VARIABLES
  state,       \* the state of the upload; "settling" from staged to committed
  chunks,      \* its rows of upload_chunks
  received,    \* its received_bytes
  worker,      \* the session whose completion holds the lane of the upload
  up,          \* whether the Mac server serves
  stops,       \* how often it has stopped
  creator,     \* the session asked for with the creation of the upload
  request,     \* how far the Mac is with the request for each session
  live,        \* the session whose peer the Mac holds open
  authorized,  \* sessions with DurableIncomingUploadReceiver.authorized
  work,        \* IncomingMessageQueue of each session: messages of the phone
  toPhone,     \* answers on the control channel of each session
  phone,       \* program counter and local variables of each attempt
  record       \* whether IndexedDB lists the upload as resumable

library  == <<state, chunks, received>>
mac      == <<worker, up, stops>>
control  == <<creator, request>>
receiver == <<live, authorized>>
wires    == <<work, toPhone>>
vars     == <<library, mac, control, receiver, wires, phone, record>>

States == {"absent", "transferring", "settling", "ready", "failed", "cancelled"}
Stages == {"none", "asked", "checked", "connecting", "granted", "refused"}
Waiting == {"authorizing", "sending", "completing"}
Active  == {"requesting", "opening"} \union Waiting
Points  == {"idle", "succeeded", "done", "failed", "gone"} \union Active

\* What an attempt knows in memory outside of a transfer.
Caller(pc, round, known) == [pc |-> pc, round |-> round, pos |-> 0, known |-> known]

Init ==
  /\ state = "absent" /\ chunks = {} /\ received = 0
  /\ worker = None /\ up = TRUE /\ stops = 0
  /\ creator = None
  /\ request = [s \in Sessions |-> "none"]
  /\ live = None /\ authorized = {}
  /\ work = [s \in Sessions |-> <<>>]
  /\ toPhone = [s \in Sessions |-> <<>>]
  /\ phone = [a \in Attempts |-> Caller("idle", 1, FALSE)]
  /\ record = FALSE

Session(a) == <<a, phone[a].round>>
Smaller(m, n) == IF m < n THEN m ELSE n

\* Mutant: the last chunk is not cut at the end of the file.
ChunkAt_Uncut(p) == [index |-> p \div ChunkBytes, offset |-> p, size |-> ChunkBytes]

\* createResumeTransferPosition, and the slice of the file at its offset
ChunkAt(p) == [index |-> p \div ChunkBytes, offset |-> p,
               size |-> Smaller(ChunkBytes, FileSize - p)]

Aligned(p) == p \in 0 .. FileSize /\ (p = FileSize \/ p % ChunkBytes = 0)

AuthorizeMessage == [kind |-> "authorize"]
ChunkMessage(p)  == [kind |-> "chunk", chunk |-> ChunkAt(p)]
CompleteMessage  == [kind |-> "complete"]
Ack(n) == [kind |-> "ack", received |-> n]
Nack   == [kind |-> "nack"]
Ready  == [kind |-> "ready"]

-----------------------------------------------------------------------------
(* The phone asks for a session *)

\* requestMacControl: the room has no Mac to forward to while it is down.
Asked(s) == [request EXCEPT ![s] = IF up THEN "asked" ELSE "refused"]

\* uploadFiles: the attempt creates the upload.
CreateAttempt(a) ==
  /\ phone[a].pc = "idle" /\ creator = None
  /\ creator' = <<a, 1>>
  /\ request' = Asked(<<a, 1>>)
  /\ phone' = [phone EXCEPT ![a].pc = "requesting"]
  /\ UNCHANGED <<library, mac, receiver, wires, record>>

\* resumeFiles: the same file is picked again, also while another attempt still runs.
ResumeAttempt(a) ==
  /\ phone[a].pc = "idle" /\ record
  /\ request' = Asked(<<a, 1>>)
  /\ phone' = [phone EXCEPT ![a].pc = "requesting", ![a].known = TRUE]
  /\ UNCHANGED <<library, mac, creator, receiver, wires, record>>

\* retryUpload: attempt a repeats attempt b, which still knows the upload.
RetryAttempt(a, b) ==
  /\ phone[a].pc = "idle" /\ phone[b].pc = "failed" /\ phone[b].known
  /\ request' = Asked(<<a, 1>>)
  /\ phone' = [phone EXCEPT ![a] = Caller("requesting", 1, TRUE), ![b] = Caller("gone", 1, FALSE)]
  /\ UNCHANGED <<library, mac, creator, receiver, wires, record>>

\* Mutant: the record is written when the transfer has ended.
ReceiveGrant_Unsaved(a) ==
  /\ phone[a].pc = "requesting" /\ request[Session(a)] = "granted"
  /\ phone' = [phone EXCEPT ![a].pc = "opening", ![a].known = TRUE]
  /\ UNCHANGED <<library, mac, control, receiver, wires, record>>

\* The first grant of an attempt is recorded before the transfer begins.
ReceiveGrant(a) ==
  /\ phone[a].pc = "requesting" /\ request[Session(a)] = "granted"
  /\ phone' = [phone EXCEPT ![a].pc = "opening", ![a].known = TRUE]
  /\ record' = (record \/ phone[a].round = 1)
  /\ UNCHANGED <<library, mac, control, receiver, wires>>

\* The attempt throws, and has closed the channels of its session.
Fails(a) == phone' = [phone EXCEPT ![a] = Caller("failed", 1, @.known)]
Hangs(a) == toPhone' = [toPhone EXCEPT ![Session(a)] = <<>>]

\* saveResumableUpload fails before the transfer begins; the page still knows the upload.
SaveFails(a) ==
  /\ phone[a].pc = "requesting" /\ request[Session(a)] = "granted" /\ phone[a].round = 1
  /\ phone' = [phone EXCEPT ![a] = Caller("failed", 1, TRUE)]
  /\ UNCHANGED <<library, mac, control, receiver, wires, record>>

\* The Mac refuses, or the answer does not come within 30 seconds.
RequestFails(a) ==
  /\ phone[a].pc = "requesting"
  /\ Fails(a)
  /\ UNCHANGED <<library, mac, control, receiver, wires, record>>

-----------------------------------------------------------------------------
(* The phone transfers *)

\* What the phone sends reaches the queue of the session's receiver, or is lost.
Sent(s, m) == work' \in {work} \union
                (IF live = s THEN {[work EXCEPT ![s] = Append(@, m)]} ELSE {})

OpenChannels(a) ==
  /\ phone[a].pc = "opening" /\ live = Session(a)
  /\ phone' = [phone EXCEPT ![a].pc = "authorizing"]
  /\ Sent(Session(a), AuthorizeMessage)
  /\ UNCHANGED <<library, mac, control, receiver, toPhone, record>>

\* transferChunks: the next chunk, or the request to complete after the last one
Advance(a, p) ==
  /\ phone' = [phone EXCEPT ![a].pc = IF p < FileSize THEN "sending" ELSE "completing",
                            ![a].pos = p]
  /\ Sent(Session(a), IF p < FileSize THEN ChunkMessage(p) ELSE CompleteMessage)

\* expectAcknowledgement: any sound position to start from, then exactly the next one
Expected(a, n) ==
  IF phone[a].pc = "authorizing" THEN Aligned(n)
  ELSE n = phone[a].pos + ChunkAt(phone[a].pos).size

ReceiveAck(a) ==
  LET s == Session(a)
      n == Head(toPhone[s]).received IN
  /\ phone[a].pc \in {"authorizing", "sending"}
  /\ toPhone[s] # <<>> /\ Head(toPhone[s]).kind = "ack"
  /\ toPhone' = [toPhone EXCEPT ![s] = Tail(@)]
  /\ IF Expected(a, n) THEN Advance(a, n) ELSE Fails(a) /\ UNCHANGED work
  /\ UNCHANGED <<library, mac, control, receiver, record>>

ReceiveNack(a) ==
  LET s == Session(a) IN
  /\ phone[a].pc \in Waiting
  /\ toPhone[s] # <<>> /\ Head(toPhone[s]).kind = "nack"
  /\ toPhone' = [toPhone EXCEPT ![s] = Tail(@)]
  /\ Fails(a)
  /\ UNCHANGED <<library, mac, control, receiver, work, record>>

ReceiveReady(a) ==
  LET s == Session(a) IN
  /\ phone[a].pc = "completing"
  /\ toPhone[s] # <<>> /\ Head(toPhone[s]).kind = "ready"
  /\ toPhone' = [toPhone EXCEPT ![s] = Tail(@)]
  /\ phone' = [phone EXCEPT ![a] = Caller("succeeded", 1, FALSE)]
  /\ UNCHANGED <<library, mac, control, receiver, work, record>>

\* CONTROL_MESSAGE_TIMED_OUT after 60 seconds of waiting, or SIGNALING_INVALID: neither
\* is refreshable.
TransferRejected(a) ==
  /\ phone[a].pc \in Active \ {"requesting"}
  /\ Fails(a) /\ Hangs(a)
  /\ UNCHANGED <<library, mac, control, receiver, work, record>>

\* Mutant: every lost connection is refreshed.
TransferLost_Again(a) ==
  /\ phone[a].pc \in Active \ {"requesting"}
  /\ phone' = [phone EXCEPT ![a] = Caller("requesting", 2, TRUE)]
  /\ request' = Asked(<<a, 2>>)
  /\ Hangs(a)
  /\ UNCHANGED <<library, mac, creator, receiver, work, record>>

\* Mutant: the refreshed session is refreshed once more.
TransferLost_Third(a) ==
  /\ phone[a].pc \in Active \ {"requesting"}
  /\ phone' = [phone EXCEPT ![a].pc = "requesting", ![a].round = @ + 1]
  /\ request' = Asked(<<a, 2>>)
  /\ Hangs(a)
  /\ UNCHANGED <<library, mac, creator, receiver, work, record>>

\* CONNECTION_FAILED or SIGNALING_TIMED_OUT: the first time, the attempt asks to resume.
TransferLost(a) ==
  /\ phone[a].pc \in Active \ {"requesting"}
  /\ IF phone[a].round = 1
     THEN /\ phone' = [phone EXCEPT ![a] = Caller("requesting", 2, TRUE)]
          /\ request' = Asked(<<a, 2>>)
     ELSE Fails(a) /\ UNCHANGED request
  /\ Hangs(a)
  /\ UNCHANGED <<library, mac, creator, receiver, work, record>>

\* removeResumableUpload, after the attempt has returned
RemoveRecord(a) ==
  /\ phone[a].pc = "succeeded"
  /\ phone' = [phone EXCEPT ![a].pc = "done"]
  /\ record' = FALSE
  /\ UNCHANGED <<library, mac, control, receiver, wires>>

\* The page is reloaded or killed: what IndexedDB holds is all that stays.
Reload ==
  /\ \E a \in Attempts : phone[a].pc \in Active \union {"succeeded", "failed"}
  /\ phone' = [a \in Attempts |->
                 IF phone[a].pc \in {"idle", "done"} THEN phone[a] ELSE Caller("gone", 1, FALSE)]
  /\ toPhone' = [s \in Sessions |-> <<>>]
  /\ UNCHANGED <<library, mac, control, receiver, work, record>>

-----------------------------------------------------------------------------
(* The Mac answers requests: project-upload-key-control.ts *)

CreateUpload(s) ==
  /\ up /\ request[s] = "asked" /\ s = creator /\ state = "absent"
  /\ state' = "transferring"
  /\ request' = [request EXCEPT ![s] = "checked"]
  /\ UNCHANGED <<chunks, received, mac, creator, receiver, wires, phone, record>>

\* resumeProjectUpload reads the state outside the lane of the upload.
CheckResume(s) ==
  /\ up /\ request[s] = "asked" /\ s # creator /\ state = "transferring"
  /\ request' = [request EXCEPT ![s] = "checked"]
  /\ UNCHANGED <<library, mac, creator, receiver, wires, phone, record>>

\* No space for a creation, an upload that is past its transfer, or a key that has
\* been revoked meanwhile.
RefuseRequest(s) ==
  /\ up /\ request[s] = "asked"
  /\ request' = [request EXCEPT ![s] = "refused"]
  /\ UNCHANGED <<library, mac, creator, receiver, wires, phone, record>>

\* transferService.create up to its await on the socket: the older session is closed.
StartSession(s) ==
  /\ up /\ request[s] = "checked" /\ state = "transferring"
  /\ live' = s
  /\ request' = [request EXCEPT ![s] = "connecting"]
  /\ UNCHANGED <<library, mac, creator, authorized, wires, phone, record>>

\* The grant goes out, whether or not the session is still the live one.
Grant(s) ==
  /\ up /\ request[s] = "connecting"
  /\ request' = [request EXCEPT ![s] = "granted"]
  /\ UNCHANGED <<library, mac, creator, receiver, wires, phone, record>>

\* transferService.create throws; a new upload is cancelled, if it still can be.
SessionFails(s) ==
  /\ up /\ request[s] \in {"checked", "connecting"}
  /\ request' = [request EXCEPT ![s] = "refused"]
  /\ live' = IF live = s THEN None ELSE live
  /\ state' \in {state} \union
             (IF s = creator /\ state = "transferring" THEN {"cancelled"} ELSE {})
  /\ UNCHANGED <<chunks, received, mac, creator, authorized, wires, phone, record>>

\* The peer or its signaling route fails, or the phone has closed it.
PeerEnds(s) ==
  /\ live = s
  /\ live' = None
  /\ UNCHANGED <<library, mac, control, authorized, wires, phone, record>>

-----------------------------------------------------------------------------
(* The Mac works off the queue of a session: incoming-upload-receiver.ts *)

Takes(s, kind) == up /\ work[s] # <<>> /\ Head(work[s]).kind = kind

\* The phone waits in the session, and the Mac has not closed it.
Connected(s) == live = s /\ Session(s[1]) = s /\ phone[s[1]].pc \in Waiting

\* sendControl: without its channel the answer is lost.
Answer(s, m) ==
  /\ work' = [work EXCEPT ![s] = Tail(@)]
  /\ toPhone' = IF Connected(s) THEN [toPhone EXCEPT ![s] = Append(@, m)] ELSE toPhone

\* The operation throws, and IncomingMessageQueue only reports it.
NoAnswer(s) ==
  /\ work' = [work EXCEPT ![s] = Tail(@)]
  /\ UNCHANGED toPhone

Authorize(s) ==
  /\ Takes(s, "authorize")
  /\ authorized' = authorized \union {s}
  /\ Answer(s, Ack(received))
  /\ UNCHANGED <<library, mac, control, live, phone, record>>

\* The fingerprint, the proof or the grant does not match, or the peer is gone.
RejectAuthorization(s) ==
  /\ Takes(s, "authorize")
  /\ Answer(s, Nack)
  /\ UNCHANGED <<library, mac, control, receiver, phone, record>>

LaneFree == worker = None

RangeOf(c) == c.offset .. c.offset + c.size - 1

\* assertTransferring, assertDuplicateMatches and assertChunkFits
Accepts(c) ==
  /\ state = "transferring"
  /\ \/ c \in chunks
     \/ /\ \A d \in chunks : d.index # c.index /\ RangeOf(c) \intersect RangeOf(d) = {}
        /\ c.offset + c.size <= FileSize

\* Mutant: a chunk that was stored before is counted again.
Persist_Again(c) ==
  /\ chunks' = chunks \union {c}
  /\ received' = received + c.size

\* persistChunk; a duplicate changes nothing.
Persist(c) ==
  /\ chunks' = chunks \union {c}
  /\ received' = IF c \in chunks THEN received ELSE received + c.size

\* Mutant: the acknowledgement carries the row read before the chunk was stored.
AppendChunk_StaleRow(s) ==
  /\ Takes(s, "chunk") /\ LaneFree /\ s \in authorized
  /\ Accepts(Head(work[s]).chunk)
  /\ Persist(Head(work[s]).chunk)
  /\ Answer(s, Ack(received))
  /\ UNCHANGED <<state, mac, control, receiver, phone, record>>

AppendChunk(s) ==
  /\ Takes(s, "chunk") /\ LaneFree /\ s \in authorized
  /\ Accepts(Head(work[s]).chunk)
  /\ Persist(Head(work[s]).chunk)
  /\ Answer(s, Ack(received'))
  /\ UNCHANGED <<state, mac, control, receiver, phone, record>>

\* Mutant: a chunk whose write failed is acknowledged.
AppendFails_Acknowledged(s) ==
  /\ Takes(s, "chunk") /\ LaneFree /\ s \in authorized
  /\ Accepts(Head(work[s]).chunk)
  /\ Answer(s, Ack(Head(work[s]).chunk.offset + Head(work[s]).chunk.size))
  /\ UNCHANGED <<library, mac, control, receiver, phone, record>>

\* The write fails and is nacked, or the database or the manifest fails and nobody
\* answers: before the chunk has its row, or after.
AppendFails(s) ==
  /\ Takes(s, "chunk") /\ LaneFree /\ s \in authorized
  /\ Accepts(Head(work[s]).chunk)
  /\ \/ Answer(s, Nack) /\ UNCHANGED <<chunks, received>>
     \/ NoAnswer(s) /\ UNCHANGED <<chunks, received>>
     \/ NoAnswer(s) /\ Persist(Head(work[s]).chunk)
  /\ UNCHANGED <<state, mac, control, receiver, phone, record>>

RefuseChunk(s) ==
  /\ Takes(s, "chunk")
  /\ s \notin authorized \/ (LaneFree /\ ~Accepts(Head(work[s]).chunk))
  /\ Answer(s, Nack)
  /\ UNCHANGED <<library, mac, control, receiver, phone, record>>

\* Mutant: ready is answered when the file is staged.
BeginComplete_ReadyEarly(s) ==
  /\ Takes(s, "complete") /\ LaneFree
  /\ state = "transferring" /\ received = FileSize
  /\ state' = "settling"
  /\ Answer(s, Ready)
  /\ UNCHANGED <<chunks, received, mac, control, receiver, phone, record>>

BeginComplete(s) ==
  /\ Takes(s, "complete") /\ LaneFree
  /\ state = "transferring" /\ received = FileSize
  /\ state' = "settling"
  /\ worker' = s
  /\ UNCHANGED <<chunks, received, up, stops, control, receiver, wires, phone, record>>

\* UPLOAD_INCOMPLETE is answered; an upload past its transfer throws and nobody answers.
AnswerComplete(s) ==
  /\ Takes(s, "complete") /\ LaneFree
  /\ state # "transferring" \/ received # FileSize
  /\ IF state = "transferring" THEN Answer(s, Nack) ELSE NoAnswer(s)
  /\ UNCHANGED <<library, mac, control, receiver, phone, record>>

\* Mutant: after a wrong hash the lane of the upload stays taken.
Settle_KeepsLane(s) ==
  /\ up /\ worker = s
  /\ \/ worker' = None /\ state' = "ready" /\ Answer(s, Ready)
     \/ UNCHANGED worker /\ state' = "failed" /\ Answer(s, Nack)
  /\ UNCHANGED <<chunks, received, up, stops, control, receiver, phone, record>>

\* The material is ready, or its hash is wrong.
Settle(s) ==
  /\ up /\ worker = s
  /\ worker' = None
  /\ \/ state' = "ready" /\ Answer(s, Ready)
     \/ state' = "failed" /\ Answer(s, Nack)
  /\ UNCHANGED <<chunks, received, up, stops, control, receiver, phone, record>>

\* A step of the commit throws: the upload stays where it is until the next start.
CommitThrows(s) ==
  /\ up /\ worker = s
  /\ worker' = None
  /\ NoAnswer(s)
  /\ UNCHANGED <<library, up, stops, control, receiver, phone, record>>

-----------------------------------------------------------------------------
(* The server stops and starts *)

Stop ==
  /\ up /\ stops < MaxStops
  /\ up' = FALSE /\ stops' = stops + 1
  /\ worker' = None /\ live' = None /\ authorized' = {}
  /\ work' = [s \in Sessions |-> <<>>]
  /\ request' = [s \in Sessions |->
                   IF request[s] \in {"asked", "checked", "connecting"} THEN "refused"
                   ELSE request[s]]
  /\ UNCHANGED <<library, creator, toPhone, phone, record>>

\* reconcileMaterialLibrary settles what was being settled.
Restart ==
  /\ ~up
  /\ up' = TRUE
  /\ state' \in IF state = "settling" THEN {"ready", "failed"} ELSE {state}
  /\ UNCHANGED <<chunks, received, worker, stops, control, receiver, wires, phone, record>>

-----------------------------------------------------------------------------
PhoneStep(a) ==
  \/ CreateAttempt(a) \/ ResumeAttempt(a) \/ \E b \in Attempts : RetryAttempt(a, b)
  \/ ReceiveGrant(a) \/ SaveFails(a) \/ RequestFails(a) \/ OpenChannels(a)
  \/ ReceiveAck(a) \/ ReceiveNack(a) \/ ReceiveReady(a)
  \/ TransferRejected(a) \/ TransferLost(a) \/ RemoveRecord(a)

MacStep(s) ==
  \/ CreateUpload(s) \/ CheckResume(s) \/ RefuseRequest(s)
  \/ StartSession(s) \/ Grant(s) \/ SessionFails(s) \/ PeerEnds(s)
  \/ Authorize(s) \/ RejectAuthorization(s)
  \/ AppendChunk(s) \/ AppendFails(s) \/ RefuseChunk(s)
  \/ BeginComplete(s) \/ AnswerComplete(s) \/ Settle(s) \/ CommitThrows(s)

Next ==
  \/ \E a \in Attempts : PhoneStep(a)
  \/ \E s \in Sessions : MacStep(s)
  \/ Reload \/ Stop \/ Restart

Spec == Init /\ [][Next]_vars

\* The phone's timers: of a request, of the opening of socket and channels, of each wait.
PhoneTimers(a) ==
  /\ WF_vars(RequestFails(a))
  /\ WF_vars(phone[a].pc = "opening" /\ TransferLost(a))
  /\ \A p \in 0 .. FileSize :
       WF_vars(phone[a].pc \in Waiting /\ phone[a].pos = p /\ TransferRejected(a))

FairSpec == Spec /\ \A a \in Attempts : PhoneTimers(a)

-----------------------------------------------------------------------------
(* Properties *)

Messages == {AuthorizeMessage, CompleteMessage} \union {ChunkMessage(p) : p \in 0 .. FileSize - 1}
PhoneStates == [pc : Points, round : {1, 2}, pos : 0 .. FileSize, known : BOOLEAN]
OneOf(M) == {<<>>} \union {<<m>> : m \in M}
Answers  == {Nack, Ready} \union {Ack(n) : n \in 0 .. FileSize}

\* Every variable keeps its type; an attempt asks for two sessions and no third, the
\* library never counts more bytes than the file has, and a session has one message or
\* one answer under way at most.
TypeOK ==
  /\ state \in States /\ received \in 0 .. FileSize
  /\ chunks \subseteq {ChunkAt(p) : p \in 0 .. FileSize - 1}
  /\ worker \in Sessions \union {None} /\ up \in BOOLEAN /\ stops \in 0 .. MaxStops
  /\ creator \in Sessions \union {None} /\ request \in [Sessions -> Stages]
  /\ live \in Sessions \union {None} /\ authorized \subseteq Sessions
  /\ work \in [Sessions -> OneOf(Messages)] /\ toPhone \in [Sessions -> OneOf(Answers)]
  /\ \A s \in Sessions : work[s] = <<>> \/ toPhone[s] = <<>>
  /\ phone \in [Attempts -> PhoneStates]
  /\ record \in BOOLEAN

\* The phone says that an upload has entered its directory only when its material is
\* ready (uploadOne in use-mobile-uploader.ts), whatever was lost, repeated or restarted.
SuccessMeansReady ==
  (\E a \in Attempts : phone[a].pc \in {"succeeded", "done"}) => state = "ready"

\* No phone is ever ahead of the library: what it goes on from, and what its progress
\* shows, is stored, also after a stop of the Mac and for an attempt that was overtaken
\* (transferChunks in webrtc-file-transfer.ts).
PositionIsDurable ==
  \A a \in Attempts : phone[a].pc \in {"sending", "completing"} => phone[a].pos <= received

\* The chunks stored are those of the file up to received_bytes, without a gap and each
\* counted once, although overlapping attempts send the same ones again: so the count is
\* a position to resume from (createResumeTransferPosition).
StoredIsPrefix ==
  /\ chunks = {ChunkAt(p) : p \in {q \in 0 .. received - 1 : Aligned(q)}}
  /\ Aligned(received)

\* An answer of the library never makes the phone give up by its own check: the
\* acknowledgement it reads is the one it expects (expectAcknowledgement), also when
\* another attempt has stored the chunk before or goes on storing behind it.
AcksExpected ==
  \A a \in Attempts :
    LET answers == toPhone[Session(a)] IN
    phone[a].pc \in {"authorizing", "sending"} /\ answers # <<>> /\ Head(answers).kind = "ack"
      => Expected(a, Head(answers).received)

\* A chunk that an authorized phone has sent is refused only when the upload is past its
\* transfer: resuming phones never collide with each other's chunks (assertChunkFits,
\* assertDuplicateMatches).
ChunksWelcome ==
  \A s \in Sessions :
    work[s] # <<>> /\ Head(work[s]).kind = "chunk" /\ state = "transferring"
      => s \in authorized /\ Accepts(Head(work[s]).chunk)

\* Once bytes of the file are stored the phone keeps a record of the upload until it is
\* ready, through every failure and reload (saveResumableUpload before the transfer,
\* removeResumableUpload after it).
BytesRecorded == received > 0 /\ state # "ready" => record

\* The record of an upload is removed only when its material is ready, by whichever
\* attempt (removeResumableUpload after the attempt has returned).
RecordKept == [][record /\ ~record' => state = "ready"]_vars

\* What is settled, and above all what is ready, is the whole file, although Mac, phone
\* and connection may have stopped after any chunk, and nothing is stored behind it.
SettledIsWhole ==
  state \in {"settling", "ready", "failed"} =>
    received = FileSize /\ chunks = {ChunkAt(p) : p \in {q \in 0 .. FileSize - 1 : Aligned(q)}}

\* The upload keeps the contract of the library's rows, and its sessions that of
\* TransferSessions: this module leaves out how they are kept, and not what they promise.
Phase ==
  CASE state = "absent" -> "absent"
    [] state = "transferring" -> "receiving"
    [] state = "settling" -> "settling"
    [] state = "ready" -> "visible"
    [] state = "failed" -> "failed"
    [] state = "cancelled" -> "cancelled"

Contract == INSTANCE UploadContract WITH
  phase <- Phase, size <- IF state = "absent" THEN 0 ELSE FileSize

Slot == INSTANCE SessionSlot WITH
  live <- {live} \ {None},
  used <- {s \in Sessions : request[s] \notin {"none", "asked", "checked"}}

KeepsContract == Contract!Spec
KeepsSlot == Slot!Spec

-----------------------------------------------------------------------------
(* The inductive invariant *)

\* Bytes that the chunk at a position adds to it.
After(p) == p + ChunkAt(p).size

Quiet(s)  == work[s] = <<>> /\ toPhone[s] = <<>>
Unused(s) == request[s] = "none" /\ Quiet(s)

\* A session is asked for once, and nothing is sent in it before its channels are open.
Fresh(a) ==
  /\ phone[a].pc \notin Active => phone[a].round = 1
  /\ phone[a].pc = "idle" => Unused(<<a, 1>>)
  /\ phone[a].pc \in Active \union {"idle"} /\ phone[a].round = 1 => Unused(<<a, 2>>)
  /\ phone[a].pc \in {"requesting", "opening"} => Quiet(Session(a))

SessionsFresh == \A a \in Attempts : Fresh(a)

\* A session that a phone transfers in has been granted; the live one is at least connecting.
SessionsGranted ==
  /\ \A a \in Attempts :
       phone[a].pc \in {"opening"} \union Waiting => request[Session(a)] = "granted"
  /\ live # None => up /\ request[live] \in {"connecting", "granted"}

\* What the phone says at each point of a transfer, and what it waits for an answer to.
ToSay(pc, p) ==
  IF pc = "authorizing" THEN AuthorizeMessage
  ELSE IF pc = "sending" THEN ChunkMessage(p) ELSE CompleteMessage
Said(a) == ToSay(phone[a].pc, phone[a].pos)

\* The answers that may be under way to it.
MayHear(a, m) ==
  \/ m = Nack
  \/ /\ phone[a].pc = "authorizing"
     /\ \E n \in 0 .. received : Aligned(n) /\ m = Ack(n)
  \/ /\ phone[a].pc = "sending"
     /\ m = Ack(After(phone[a].pos)) /\ After(phone[a].pos) <= received
  \/ phone[a].pc = "completing" /\ m = Ready /\ state = "ready"

\* A phone waits for one answer at a time, and hears only what answers its last message.
Talk(a) ==
  /\ \A i \in {1, 2} : toPhone[<<a, i>>] # <<>> => phone[a].pc \in Waiting /\ phone[a].round = i
  /\ phone[a].pc \in Waiting =>
       /\ work[Session(a)] \in {<<>>, <<Said(a)>>}
       /\ \A m \in Answers : toPhone[Session(a)] = <<m>> => MayHear(a, m)

Conversations == \A a \in Attempts : Talk(a)

\* Chunks in a queue come from a position the library had reached.
Queued(s, p) == work[s] = <<ChunkMessage(p)>>
QueuesOK ==
  \A s \in Sessions : \A p \in 0 .. FileSize - 1 :
    Queued(s, p) => Aligned(p) /\ p <= received /\ s \in authorized

PositionsOK ==
  \A a \in Attempts :
    /\ phone[a].pc = "sending" =>
         phone[a].pos < FileSize /\ Aligned(phone[a].pos) /\ phone[a].pos <= received
    /\ phone[a].pc = "completing" => phone[a].pos = FileSize /\ received = FileSize

\* From p the library has moved by one chunk at most, and older sessions move it no further.
InStep(s, p) ==
  /\ s \in authorized /\ received \in {p, After(p)}
  /\ \A t \in Sessions \ {s} : \A q \in 0 .. FileSize - 1 : Queued(t, q) => q <= p

\* The phone in the live session is in step with the library.
Together(a) ==
  /\ phone[a].pc = "sending" => InStep(Session(a), phone[a].pos)
  /\ phone[a].pc = "authorizing" =>
       \A n \in 0 .. FileSize : toPhone[Session(a)] = <<Ack(n)>> => InStep(Session(a), n)

LiveInStep == \A a \in Attempts : live = Session(a) => Together(a)

\* One completion at a time settles the upload; a Mac that is down holds nothing.
MacOK ==
  /\ worker # None => state = "settling" /\ work[worker] = <<CompleteMessage>>
  /\ ~up => worker = None /\ live = None /\ \A s \in Sessions : work[s] = <<>>

\* What was begun is recorded, until the material is ready.
RecordOK ==
  \/ (\E a \in Attempts : phone[a].pc \in {"opening"} \union Waiting \/ phone[a].round = 2)
  \/ (\E s \in Sessions : work[s] # <<>>)
  \/ received > 0
  => record \/ state = "ready"

\* The inductive invariant: the typing, where the two ends of each session stand, and the
\* invariants above.
ProtocolInv ==
  /\ TypeOK /\ SuccessMeansReady /\ StoredIsPrefix
  /\ SessionsFresh /\ SessionsGranted /\ Conversations /\ QueuesOK /\ PositionsOK
  /\ LiveInStep /\ MacOK /\ RecordOK

-----------------------------------------------------------------------------
(* Liveness, and what the plan says *)

\* The steps an attempt has still to take, at most: to the end of the file, and once more
\* from its beginning in the session it refreshes to.
StepsIn(pc, pos) ==
  CASE pc = "requesting" -> FileSize + 5
    [] pc = "opening" -> FileSize + 4
    [] pc = "authorizing" -> FileSize + 3
    [] pc = "sending" -> FileSize + 2 - pos
    [] pc = "completing" -> 1

StepsLeft(a) ==
  (2 - phone[a].round) * (FileSize + 5) + StepsIn(phone[a].pc, phone[a].pos)

\* Each step of an attempt brings it nearer to its end, and no step of the Mac, or of
\* another attempt, takes it back: it moves on by a chunk at a time, and refreshes once.
AttemptsRunDown ==
  [][\A a \in Attempts : phone[a].pc \in Active /\ phone'[a].pc \in Active /\ phone'[a] # phone[a]
       => StepsLeft(a)' < StepsLeft(a)]_vars

\* Each attempt comes to its end: it succeeds, fails or goes with its page.  At most one
\* refresh (executeMobileUploadTransfer) and a timer on every wait see to that.
AttemptEnds ==
  \A a \in Attempts : phone[a].pc \in Active ~> phone[a].pc \notin Active

\* What the plan says of an attempt that failed: its upload is kept as one that can be
\* resumed.  The code refuses to resume an upload that has become ready unnoticed.
FailedIsResumable ==
  /\ \E a \in Attempts : phone[a].pc = "failed" /\ phone[a].known
  /\ \A a \in Attempts : phone[a].pc \notin Active
  /\ record /\ state \notin {"failed", "cancelled", "settling"}
  => state = "transferring"
=============================================================================
