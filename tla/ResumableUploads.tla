-------------------------- MODULE ResumableUploads --------------------------
(***************************************************************************)
(* The list of resumable uploads in IndexedDB (mobile-state.ts): saving    *)
(* and removing an upload each read the list in one transaction and write  *)
(* it in another.  SerialTaskQueue runs those mutations one by one, in the *)
(* order of their calls, also after one that fails.                        *)
(***************************************************************************)
EXTENDS Sequences, SequencesExt

CONSTANT Uploads

VARIABLES
  records,   \* the uploads in the list
  mutations  \* the calls not settled: what each does, for which item, and in "read" the list
             \* that it has read, if it has

listVars == <<records, mutations>>

Call(op, u, i, read) == [op |-> op, upload |-> u, item |-> i, read |-> read]

\* resumableUploadMutations.enqueue
Saves(u, i) == mutations' = Append(mutations, Call("save", u, i, {}))
Removes(u, i) == mutations' = Append(mutations, Call("remove", u, i, {}))

\* Mutant: the mutations run side by side.
Turn_Any(k) == k \in DOMAIN mutations

\* The first call runs, and the next only after it.
Turn(k) == k = 1

ReadList(k) ==
  LET m == mutations[k] IN
  /\ Turn(k) /\ m.read = {}
  /\ mutations' = [mutations EXCEPT ![k] = Call(m.op, m.upload, m.item, {records})]
  /\ UNCHANGED records

WriteList(k) ==
  LET m == mutations[k] IN
  /\ Turn(k)
  /\ \E list \in m.read :
       records' = IF m.op = "save" THEN list \union {m.upload} ELSE list \ {m.upload}
  /\ mutations' = RemoveAt(mutations, k)

\* One of the two transactions fails or is aborted.
MutationFails(k) ==
  /\ Turn(k) /\ mutations' = RemoveAt(mutations, k)
  /\ UNCHANGED records
=============================================================================
