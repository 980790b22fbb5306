----------------------------- MODULE UploadKeys -----------------------------
(***************************************************************************)
(* The Mac's authority over upload keys and paired phones, and the control *)
(* requests it decides: project-upload-key-service.ts, paired-device-      *)
(* registry.ts and their stores, project-upload-key-control.ts, and the    *)
(* project uploads of sqlite-material-library.ts, in apps/server/src.      *)
(*                                                                         *)
(* An action that ends the handling of a request is answered by            *)
(* ControlPlane, which composes it with the Mac's socket.                  *)
(* A creation checks its key before it waits in the creation queue; the    *)
(* library's row, the transfer binding and the session are separate steps. *)
(***************************************************************************)
EXTENDS ControlRequests, Integers, Sequences

VARIABLES
  keyState,     \* project_upload_keys.state of each key
  paired,       \* paired_devices: the public key registered for each device
  bindings,     \* project_upload_key_bindings
  uploadRow,    \* uploads.state of each upload, "ended" when no longer transferring
  transferOf,   \* project_upload_transfer_bindings
  creations,    \* the requests in the creation queue, the running one first
  work          \* where the handling of each request stands, what it asks, its upload

tables == <<keyState, paired, bindings, uploadRow, transferOf>>
keyVars == <<tables, creations, work>>

Grants == [key : Keys, device : Devices]
GrantOf(ask) == [key |-> ask.key, device |-> ask.device]
Away == [pc |-> "none", ask |-> None, upload |-> None]

ASSUME NoGrantIsNone == None \notin Grants

KeyInit ==
  /\ keyState = [k \in Keys |-> "none"]
  /\ paired = [d \in Devices |-> None]
  /\ bindings = {}
  /\ uploadRow = [u \in Uploads |-> "none"]
  /\ transferOf = [u \in Uploads |-> None]
  /\ creations = <<>>
  /\ work = [r \in Requests |-> Away]

-----------------------------------------------------------------------------
(* The desktop *)

CreateKey(k) ==
  /\ keyState[k] = "none"
  /\ keyState' = [keyState EXCEPT ![k] = "active"]
  /\ UNCHANGED <<paired, bindings, uploadRow, transferOf, creations, work>>

RevokeKey(k) ==
  /\ keyState[k] = "active"
  /\ keyState' = [keyState EXCEPT ![k] = "revoked"]
  /\ UNCHANGED <<paired, bindings, uploadRow, transferOf, creations, work>>

\* The material is committed or the upload cancelled, by way of its session.
UploadEnds(u) ==
  /\ uploadRow[u] = "transferring" /\ transferOf[u] # None
  /\ uploadRow' = [uploadRow EXCEPT ![u] = "ended"]
  /\ UNCHANGED <<keyState, paired, bindings, transferOf, creations, work>>

-----------------------------------------------------------------------------
(* Redemption: one stretch without an await *)

\* redeem and registerOrVerify: the key is active, the device new or unchanged.
Redeemable(ask) ==
  /\ keyState[ask.key] = "active"
  /\ paired[ask.device] \in {None, ask.public}

Registered(ask) == [paired EXCEPT ![ask.device] = ask.public]

\* Mutant: the key is bound only when the device is new.
AcceptRedeem_NewDevice(ask) ==
  /\ ask.kind = "redeem" /\ Redeemable(ask)
  /\ paired' = Registered(ask)
  /\ bindings' = IF paired[ask.device] = None THEN bindings \union {GrantOf(ask)} ELSE bindings
  /\ UNCHANGED <<keyState, uploadRow, transferOf, creations, work>>

AcceptRedeem(ask) ==
  /\ ask.kind = "redeem" /\ Redeemable(ask)
  /\ paired' = Registered(ask)
  /\ bindings' = bindings \union {GrantOf(ask)}
  /\ UNCHANGED <<keyState, uploadRow, transferOf, creations, work>>

RejectRedeem(ask) ==
  /\ ask.kind = "redeem" /\ ~Redeemable(ask)
  /\ UNCHANGED keyVars

\* The second insertion throws: nobody catches it, and the process ends.
RedeemThrows(ask) ==
  /\ ask.kind = "redeem" /\ Redeemable(ask)
  /\ paired' = Registered(ask)
  /\ UNCHANGED <<keyState, bindings, uploadRow, transferOf>>

-----------------------------------------------------------------------------
(* Uploads for a project *)

\* resolveBinding
Resolves(ask) == keyState[ask.key] = "active" /\ GrantOf(ask) \in bindings

QueueCreation(r, ask) ==
  /\ ask.kind = "create" /\ Resolves(ask)
  /\ creations' = Append(creations, r)
  /\ work' = [work EXCEPT ![r] = [pc |-> "queued", ask |-> ask, upload |-> None]]
  /\ UNCHANGED tables

\* resumeProjectUpload, and the first stretch of create of the transfer service
BeginResume(r, ask, u) ==
  /\ ask.kind = "resume" /\ Resolves(ask)
  /\ transferOf[u] = GrantOf(ask) /\ uploadRow[u] = "transferring"
  /\ work' = [work EXCEPT ![r] = [pc |-> "session", ask |-> ask, upload |-> u]]
  /\ UNCHANGED <<tables, creations>>

\* A resumption may also name an upload that is not this phone's, or not transferring.
RejectTransfer(ask) ==
  /\ ask.kind # "redeem"
  /\ ~Resolves(ask) \/ ask.kind = "resume"
  /\ UNCHANGED keyVars

AtWork(r, pc) == work[r].pc = pc
Goto(r, pc, u) == work' = [work EXCEPT ![r] = [pc |-> pc, ask |-> work[r].ask, upload |-> u]]
Finish(r) == work' = [work EXCEPT ![r] = Away]
Running(r) == creations # <<>> /\ Head(creations) = r

\* The queue goes on, whatever became of the creation.
Leave == creations' = Tail(creations)

\* createUploadExclusive: admission, staging, row and manifest (see MaterialLibrary)
CreateRow(r, u) ==
  /\ AtWork(r, "queued") /\ Running(r) /\ uploadRow[u] = "none"
  /\ uploadRow' = [uploadRow EXCEPT ![u] = "transferring"]
  /\ Goto(r, "bind", u)
  /\ UNCHANGED <<keyState, paired, bindings, transferOf, creations>>

\* Mutant: the free space is assessed after the row is inserted.
RefuseCreation_AfterRow(r) ==
  /\ work[r].pc \in {"queued", "bind"} /\ Running(r)
  /\ Leave
  /\ Finish(r)
  /\ UNCHANGED tables

RefuseCreation(r) ==
  /\ AtWork(r, "queued") /\ Running(r)
  /\ Leave
  /\ Finish(r)
  /\ UNCHANGED tables

BindUpload(r) ==
  /\ AtWork(r, "bind")
  /\ transferOf' = [transferOf EXCEPT ![work[r].upload] = GrantOf(work[r].ask)]
  /\ Leave
  /\ Goto(r, "session", work[r].upload)
  /\ UNCHANGED <<keyState, paired, bindings, uploadRow>>

\* The insertion throws: the caller never learns the identifier, so nothing is cancelled.
BindThrows(r) ==
  /\ AtWork(r, "bind")
  /\ Leave
  /\ Finish(r)
  /\ UNCHANGED tables

\* create of the transfer service returns (see TransferSessions)
SessionOpens(r) ==
  /\ AtWork(r, "session")
  /\ Finish(r)
  /\ UNCHANGED <<tables, creations>>

ResumeFails(r) ==
  /\ AtWork(r, "session") /\ work[r].ask.kind = "resume"
  /\ Finish(r)
  /\ UNCHANGED <<tables, creations>>

SessionFails(r) ==
  /\ AtWork(r, "session") /\ work[r].ask.kind = "create"
  /\ Goto(r, "cancel", work[r].upload)
  /\ UNCHANGED <<tables, creations>>

\* cancelUpload: its own failure is only reported.
CancelUpload(r) ==
  /\ AtWork(r, "cancel")
  /\ uploadRow' \in {uploadRow, [uploadRow EXCEPT ![work[r].upload] = "ended"]}
  /\ Finish(r)
  /\ UNCHANGED <<keyState, paired, bindings, transferOf, creations>>

\* The process ends: what it was doing is gone, the tables stay.
Forget ==
  /\ creations' = <<>>
  /\ work' = [r \in Requests |-> Away]
=============================================================================
