-------------------------- MODULE MCMaterialLibrary --------------------------
(* Instances of MaterialLibrary for TLC. *)
EXTENDS MaterialLibrary, TLC

CONSTANTS u1, u2, h1, h2, t1, t2

OneByteFiles == [h \in Shas |-> 1]
TwoByteFiles == [h \in Shas |-> 2]

\* Both uploads may declare the same file; the file of h2 is what a phone sends
\* when the file behind its upload has changed.
SameFile   == {[sha |-> h1, size |-> 1]}
OnePacket(h) == [index |-> 0, offset |-> 0, size |-> 1, data |-> h, checksum |-> h]
GoodPacket     == {OnePacket(h1)}
OneBytePackets == {OnePacket(h1), OnePacket(h2)}

\* A file of two bytes, as one chunk of two or two chunks of one, with a replay of
\* index 0 at another offset, a chunk past the end, and a damaged packet.
TwoByteFile == {[sha |-> h1, size |-> 2]}
Packet(i, o, n, d) == [index |-> i, offset |-> o, size |-> n, data |-> d, checksum |-> d]
TwoBytePackets ==
  {Packet(0, 0, 1, h1), Packet(1, 1, 1, h1), Packet(2, 0, 2, h1),
   Packet(0, 1, 1, h2), Packet(1, 1, 2, h1),
   [Packet(1, 1, 1, h1) EXCEPT !.data = h2]}

\* One file of one byte and one of two, each sent as one chunk, and the packet of a file that
\* has changed.
MixedSizes   == [h \in Shas |-> IF h = h1 THEN 1 ELSE 2]
MixedFiles   == {[sha |-> h, size |-> MixedSizes[h]] : h \in Shas}
MixedPackets == OneBytePackets \union {Packet(0, 0, 2, h2)}

\* The file of two bytes is there to compete for the volume: while a request or an upload is
\* about it, one fault at most, and no file changes.
OfTwoBytes ==
  {t \in Tasks : task[t].arg \in [sha : {h2}, size : {2}]}
    \union {u \in Uploads : row[u].size = 2}

Apart == OfTwoBytes = {} \/ (faults <= 1 /\ \A t \in Tasks : task[t].arg # OnePacket(h2))

\* What a request or a fault begins stays apart; the steps of a task cannot change that.
MCNext ==
  \/ Requests /\ Apart'
  \/ Stop /\ Apart'
  \/ \E t \in Runners : Fail(t) /\ Apart'
  \/ \E t \in Runners : TaskStep(t)
  \/ Recovering

MCSpec == Init /\ [][MCNext]_vars

Symmetric == Permutations(Tasks)
SymmetricUploads == Permutations(Tasks) \union Permutations(Uploads)
=============================================================================
