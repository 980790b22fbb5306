-------------------------- MODULE ControlRequests --------------------------
(***************************************************************************)
(* The control messages between a phone and the Mac, remote-control.ts of  *)
(* packages/contracts, in the abstraction that ControlRoom and UploadKeys  *)
(* share: who asks what of which key, and whether it was granted.          *)
(***************************************************************************)
CONSTANTS
  Requests,   \* identifiers of the control requests under way, one random UUID each
  Keys, Devices, PublicKeys,
  Uploads,    \* identifiers of uploads
  None,       \* no row, no upload
  Messages    \* what phones ask, and under which identifier

\* remoteControlMobileRequestSchema.  A raw key that is forged or mistyped names a key
\* that was never created; only a redemption carries a public key.
Contents ==
  [kind : {"redeem", "create", "resume"}, key : Keys, device : Devices, public : PublicKeys]

ASSUME MessagesType == Messages \subseteq [id : Requests, ask : Contents]
ASSUME NoneIsNothing == None \notin Uploads \union PublicKeys \union Contents

\* remoteControlMacResponseSchema: accepted or rejected, with the upload of a session.
\* The answer repeats what was asked, for the properties.
Answers == [id : Requests, ask : Contents, ok : BOOLEAN, upload : Uploads \union {None}]

Accepted(m, u) == [id |-> m.id, ask |-> m.ask, ok |-> TRUE, upload |-> u]
Rejected(m)    == [id |-> m.id, ask |-> m.ask, ok |-> FALSE, upload |-> None]
=============================================================================
