------------------------ MODULE MobileUploaderProofs ------------------------
(***************************************************************************)
(* Proofs about the upload page: PageInv and NothingForgotten, for any     *)
(* sets of items, recordings and uploads and any number of transfers at a  *)
(* time.                                                                   *)
(*                                                                         *)
(* The camera shares no variable with the rest, and is proved apart.  The  *)
(* two sequences, of tasks that wait and of calls on the list, come first; *)
(* then each action of the page has a lemma.  The last two parts are about *)
(* what single steps do: to the uploads, the records and the order of the  *)
(* queue, and to the captures of the camera.                               *)
(***************************************************************************)
EXTENDS MobileUploader, FiniteSetTheorems, TLAPS

-----------------------------------------------------------------------------
(* The calls on the list: the first one leaves *)

LEMMA FirstLeaves ==
  ASSUME NEW S, NEW q \in Seq(S), q # <<>>
  PROVE  /\ RemoveAt(q, 1) \in Seq(S)
         /\ DOMAIN q = 1..Len(q) /\ Len(q) \in Nat /\ 1 \in DOMAIN q
         /\ DOMAIN RemoveAt(q, 1) = 1..(Len(q) - 1)
         /\ \A k \in DOMAIN RemoveAt(q, 1) : k + 1 \in DOMAIN q /\ RemoveAt(q, 1)[k] = q[k + 1]
         /\ \A k \in DOMAIN q :
              k = 1 \/ (k - 1 \in DOMAIN RemoveAt(q, 1) /\ RemoveAt(q, 1)[k - 1] = q[k])
<1>1. SubSeq(q, 1, 0) = <<>>
  OBVIOUS
<1>2. SubSeq(q, 2, Len(q)) = Tail(q)
  OBVIOUS
<1>3. RemoveAt(q, 1) = <<>> \o Tail(q)
  BY <1>1, <1>2 DEF RemoveAt
<1>4. RemoveAt(q, 1) = Tail(q)
  BY <1>3
<1> QED
  BY <1>4

LEMMA LastComes ==
  ASSUME NEW S, NEW q \in Seq(S), NEW e \in S
  PROVE  /\ Append(q, e) \in Seq(S)
         /\ DOMAIN q = 1..Len(q) /\ Len(q) \in Nat
         /\ DOMAIN Append(q, e) = 1..(Len(q) + 1)
         /\ \A k \in DOMAIN q : Append(q, e)[k] = q[k]
         /\ Append(q, e)[Len(q) + 1] = e
OBVIOUS

-----------------------------------------------------------------------------
(* The queue of tasks *)

Distinct(q) == \A a, b \in DOMAIN q : q[a] = q[b] => a = b

\* The first n of the items that wait are n items.
LEMMA CountFirst ==
  ASSUME NEW q \in Seq(Items), Distinct(q), NEW n \in 0..Len(q)
  PROVE  LET first == {q[k] : k \in 1..n}
         IN  IsFiniteSet(first) /\ Cardinality(first) = n
<1> DEFINE first == {q[k] : k \in 1..n}
           f == [k \in 1..n |-> q[k]]
<1>1. 1..n \subseteq DOMAIN q
  OBVIOUS
<1>2. f \in [1..n -> first] /\ \A a, b \in 1..n : f[a] = f[b] => a = b
  BY <1>1 DEF Distinct
<1>3. \A i \in first : \E k \in 1..n : f[k] = i
  OBVIOUS
<1>4. ExistsBijection(1..n, first)
  BY <1>2, <1>3 DEF ExistsBijection, Bijection, Injection, Surjection, IsInjective
<1>5. IsFiniteSet(1..n) /\ Cardinality(1..n) = n
  BY FS_Interval
<1> QED
  BY <1>4, <1>5, FS_Bijection

\* The start of the tasks for which there is a place, from a list that is in order.
LEMMA StartKeepsOrder ==
  ASSUME NEW q \in Seq(Items), NEW going \in SUBSET Items, NEW shown \in [Items -> Statuses],
         Distinct(q), \A i \in Items : shown[i] = "queued" <=> \E k \in DOMAIN q : q[k] = i,
         going = {i \in Items : shown[i] \in AtWork}, IsFiniteSet(going),
         Cardinality(going) <= MaxConcurrent,
         StartAvailable(q, going, shown)
  PROVE  /\ QueueTypeOK' /\ QueueInOrder'
         /\ \A i \in Items :
              status'[i] = shown[i] \/ (shown[i] = "queued" /\ status'[i] = "hashing")
<1> DEFINE free == MaxConcurrent - Cardinality(going)
           n == IF Len(q) < free THEN Len(q) ELSE free
           started == {q[k] : k \in 1..n}
<1>1. Cardinality(going) \in Nat /\ MaxConcurrent \in Nat
  BY FS_CardinalityType, PageConstants
<1>2. n \in 0..Len(q) /\ Len(q) \in Nat /\ DOMAIN q = 1..Len(q) /\ n <= free
  BY <1>1
<1>3. /\ pending' = SubSeq(q, n + 1, Len(q))
      /\ running' = going \union started
      /\ status' = [i \in Items |-> IF i \in started THEN "hashing" ELSE shown[i]]
  BY DEF StartAvailable
<1> HIDE DEF n
<1>4. /\ pending' \in Seq(Items) /\ DOMAIN pending' = 1..(Len(q) - n)
      /\ \A k \in DOMAIN pending' : k + n \in DOMAIN q /\ pending'[k] = q[k + n]
  BY <1>2, <1>3
<1>41. \A k \in DOMAIN q : k > n => k - n \in DOMAIN pending' /\ pending'[k - n] = q[k]
  BY <1>2, <1>3
<1>5. started \subseteq Items /\ \A i \in started : shown[i] = "queued"
  BY <1>2
<1>6. started \intersect going = {}
  BY <1>5 DEF AtWork
<1>7. IsFiniteSet(started) /\ Cardinality(started) = n
  BY <1>2, CountFirst
<1>8. IsFiniteSet(running') /\ Cardinality(running') = Cardinality(going) + n
  <2>1. Cardinality(going \intersect started) = 0
    BY <1>6, FS_EmptySet
  <2>2. /\ IsFiniteSet(going \union started)
        /\ Cardinality(going \union started)
             = Cardinality(going) + Cardinality(started) - Cardinality(going \intersect started)
    BY <1>7, FS_Union
  <2> QED
    BY <1>1, <1>2, <1>3, <1>7, <2>1, <2>2
<1>9. QueueTypeOK'
  BY <1>3, <1>4, <1>5 DEF QueueTypeOK, Statuses, AtWork
<1>10. Distinct(q) /\ \A a, b \in DOMAIN pending' : pending'[a] = pending'[b] => a = b
  BY <1>2, <1>4 DEF Distinct
<1>11. ASSUME NEW i \in Items
       PROVE  status'[i] = "queued" <=> \E k \in DOMAIN pending' : pending'[k] = i
  <2>1. ASSUME status'[i] = "queued" PROVE \E k \in DOMAIN pending' : pending'[k] = i
    <3>1. i \notin started /\ shown[i] = "queued"
      BY <1>3, <2>1
    <3>2. PICK k \in DOMAIN q : q[k] = i
      BY <3>1
    <3>3. k > n
      BY <1>2, <3>1, <3>2
    <3> QED
      BY <1>2, <1>41, <3>2, <3>3
  <2>2. ASSUME NEW k \in DOMAIN pending', pending'[k] = i PROVE status'[i] = "queued"
    <3>1. k + n \in DOMAIN q /\ q[k + n] = i
      BY <1>4, <2>2
    <3>2. i \notin started
      <4> SUFFICES ASSUME NEW l \in 1..n, q[l] = i PROVE FALSE
        OBVIOUS
      <4>1. l \in DOMAIN q /\ k + n > l
        BY <1>2, <1>4
      <4>2. k + n \in Int /\ l \in Int
        BY <1>2, <1>4
      <4> QED
        BY <3>1, <4>1, <4>2 DEF Distinct
    <3> QED
      BY <1>3, <3>1, <3>2
  <2> QED
    BY <2>1, <2>2
<1>12. running' = {i \in Items : status'[i] \in AtWork}
  BY <1>3, <1>5 DEF AtWork
<1>13. Cardinality(running') <= MaxConcurrent
  BY <1>1, <1>2, <1>8
<1>14. pending' # <<>> => Cardinality(running') = MaxConcurrent
  BY <1>1, <1>2, <1>4, <1>8 DEF n
<1>15. \A i \in Items : status'[i] = shown[i] \/ (shown[i] = "queued" /\ status'[i] = "hashing")
  BY <1>3, <1>5
<1> QED
  BY <1>8, <1>9, <1>10, <1>11, <1>12, <1>13, <1>14, <1>15 DEF QueueInOrder

\* What the start of tasks does to an item.
Advances(i) == status'[i] = status[i] \/ (status[i] = "queued" /\ status'[i] = "hashing")

LEMMA EnqueueKeepsOrder ==
  ASSUME QueueTypeOK, QueueInOrder, NEW i \in Items, NEW u, Enqueue(i, u),
         status[i] \in {"none", "picked", "failed"}
  PROVE  /\ QueueTypeOK' /\ QueueInOrder'
         /\ status'[i] \in {"queued", "hashing"}
         /\ \A j \in Items \ {i} : Advances(j)
<1> DEFINE shown == [status EXCEPT ![i] = "queued"]
<1>1. shown \in [Items -> Statuses] /\ pending \in Seq(Items) /\ running \in SUBSET Items
  BY DEF QueueTypeOK, Statuses
<1>2. \A k \in DOMAIN pending : pending[k] # i
  BY DEF QueueTypeOK, QueueInOrder
<1>3. Append(pending, i) \in Seq(Items) /\ Distinct(Append(pending, i))
  BY <1>1, <1>2, LastComes DEF QueueInOrder, Distinct
<1>4. ASSUME NEW j \in Items
      PROVE  shown[j] = "queued"
               <=> \E k \in DOMAIN Append(pending, i) : Append(pending, i)[k] = j
  <2>1. CASE j = i
    BY <1>1, <2>1, LastComes DEF QueueTypeOK
  <2>2. CASE j # i
    <3>1. shown[j] = "queued" <=> \E k \in DOMAIN pending : pending[k] = j
      BY <2>2 DEF QueueTypeOK, QueueInOrder
    <3> QED
      BY <1>1, <2>2, <3>1, LastComes
  <2> QED
    BY <2>1, <2>2
<1>5. running = {j \in Items : shown[j] \in AtWork}
  BY DEF QueueTypeOK, QueueInOrder, AtWork
<1>6. StartAvailable(Append(pending, i), running, shown)
  BY DEF Enqueue
<1>7. /\ QueueTypeOK' /\ QueueInOrder'
      /\ \A j \in Items : status'[j] = shown[j] \/ (shown[j] = "queued" /\ status'[j] = "hashing")
  <2>1. IsFiniteSet(running) /\ Cardinality(running) <= MaxConcurrent
    BY DEF QueueInOrder
  <2> HIDE DEF shown
  <2> QED
    BY <1>1, <1>3, <1>4, <1>5, <1>6, <2>1, StartKeepsOrder
<1> QED
  BY <1>7 DEF QueueTypeOK, Advances

LEMMA TaskEndsKeepsOrder ==
  ASSUME QueueTypeOK, QueueInOrder, NEW i \in Items, NEW s \in {"failed", "completed"},
         TaskEnds(i, s), status[i] \in AtWork
  PROVE  /\ QueueTypeOK' /\ QueueInOrder'
         /\ status'[i] = s
         /\ \A j \in Items \ {i} : Advances(j)
<1> DEFINE shown == [status EXCEPT ![i] = s]
           going == running \ {i}
<1>1. shown \in [Items -> Statuses] /\ pending \in Seq(Items) /\ going \in SUBSET Items
  BY DEF QueueTypeOK, Statuses
<1>2. Distinct(pending)
  BY DEF QueueInOrder, Distinct
<1>3. \A j \in Items : shown[j] = "queued" <=> \E k \in DOMAIN pending : pending[k] = j
  BY DEF QueueTypeOK, QueueInOrder, AtWork
<1>4. going = {j \in Items : shown[j] \in AtWork}
  BY DEF QueueTypeOK, QueueInOrder, AtWork
<1>5. IsFiniteSet(going) /\ Cardinality(going) <= MaxConcurrent
  <2>1. IsFiniteSet(going) /\ Cardinality(going) <= Cardinality(running)
    BY FS_Subset DEF QueueInOrder
  <2>2. Cardinality(going) \in Nat /\ Cardinality(running) \in Nat /\ MaxConcurrent \in Nat
    BY <2>1, FS_CardinalityType, PageConstants DEF QueueInOrder
  <2> QED
    BY <2>1, <2>2 DEF QueueInOrder
<1>6. StartAvailable(pending, going, shown)
  BY DEF TaskEnds
<1>7. /\ QueueTypeOK' /\ QueueInOrder'
      /\ \A j \in Items : status'[j] = shown[j] \/ (shown[j] = "queued" /\ status'[j] = "hashing")
  <2> HIDE DEF shown, going
  <2> QED
    BY <1>1, <1>2, <1>3, <1>4, <1>5, <1>6, StartKeepsOrder
<1> QED
  BY <1>7 DEF QueueTypeOK, Advances

LEMMA ShowsKeepsOrder ==
  ASSUME QueueTypeOK, QueueInOrder, NEW i \in Items, NEW s \in Statuses, Shows(i, s),
         s # "queued", status[i] # "queued", status[i] \in AtWork <=> s \in AtWork
  PROVE  /\ QueueTypeOK' /\ QueueInOrder'
         /\ status'[i] = s
         /\ \A j \in Items \ {i} : status'[j] = status[j]
<1>1. status' = [status EXCEPT ![i] = s] /\ UNCHANGED <<pending, running>>
  BY DEF Shows
<1>2. QueueTypeOK' /\ status'[i] = s /\ \A j \in Items \ {i} : status'[j] = status[j]
  BY <1>1 DEF QueueTypeOK
<1>3. \A j \in Items : status'[j] = "queued" <=> \E k \in DOMAIN pending : pending[k] = j
  BY <1>2 DEF QueueInOrder
<1>4. running = {j \in Items : status'[j] \in AtWork}
  BY <1>2 DEF QueueInOrder
<1> QED
  BY <1>1, <1>2, <1>3, <1>4 DEF QueueInOrder

-----------------------------------------------------------------------------
(* The camera: it has its own variables *)

LEMMA CameraKeepsType ==
  ASSUME CameraTypeOK,
         \/ UNCHANGED cameraVars \/ CameraGone \/ StopAgain
         \/ \E c \in Recordings :
              \/ StartCamera(c) \/ CameraWaits(c)
              \/ StopCamera(c) \/ StopInactive(c) \/ RecorderStops(c) \/ RecorderStopsLate(c)
  PROVE  CameraTypeOK'
<1>1. CASE UNCHANGED cameraVars
  BY <1>1 DEF CameraTypeOK, cameraVars
<1>2. CASE CameraGone
  BY <1>2 DEF CameraTypeOK, CameraGone
<1>3. CASE StopAgain
  BY <1>3 DEF CameraTypeOK, StopAgain
<1>4. ASSUME NEW c \in Recordings, StartCamera(c) PROVE CameraTypeOK'
  BY <1>4 DEF CameraTypeOK, StartCamera, Requesting, Goes
<1>5. ASSUME NEW c \in Recordings, CameraWaits(c) PROVE CameraTypeOK'
  BY <1>5 DEF CameraTypeOK, CameraWaits, StartFails, CaptureGranted, RecorderEnds,
     RecorderErrors, Goes
<1>6. ASSUME NEW c \in Recordings, StopCamera(c) \/ StopInactive(c) PROVE CameraTypeOK'
  BY <1>6 DEF CameraTypeOK, StopCamera, StopInactive, Finish, Goes
<1>7. ASSUME NEW c \in Recordings, RecorderStops(c) \/ RecorderStopsLate(c) PROVE CameraTypeOK'
  BY <1>7 DEF CameraTypeOK, RecorderStops, RecorderStopsLate, Finish, Goes
<1> QED
  BY <1>1, <1>2, <1>3, <1>4, <1>5, <1>6, <1>7

-----------------------------------------------------------------------------
(* The items and the list *)

\* The invariant without the camera.
UploadsInv ==
  QueueTypeOK /\ ListTypeOK /\ QueueInOrder /\ CallsInOrder /\ ItemsInOrder /\ NothingForgotten

LEMMA CallsTyped ==
  ASSUME ListTypeOK, NEW k \in DOMAIN mutations
  PROVE  /\ mutations[k] \in Calls /\ mutations[k].op \in {"save", "remove"}
         /\ mutations[k].item \in Items /\ mutations[k].upload \in Uploads
         /\ mutations[k].read \subseteq SUBSET Uploads
<1>1. mutations[k] \in Calls
  BY DEF ListTypeOK
<1> QED
  BY <1>1 DEF Calls

\* The calls stay in order if nothing touches them, nor the items that await them.
LEMMA CallsStay ==
  ASSUME ListTypeOK, CallsInOrder, UNCHANGED listVars,
         \A j \in Items :
           \/ status'[j] = status[j] /\ upload'[j] = upload[j]
           \/ status[j] \notin {"saving", "removing"} /\ status'[j] \notin {"saving", "removing"}
  PROVE  CallsInOrder'
<1>1. \A k \in DOMAIN mutations : mutations[k].item \in Items
  BY CallsTyped
<1>2. \A k \in DOMAIN mutations : status[mutations[k].item] \in {"saving", "removing"}
  BY DEF CallsInOrder
<1> QED
  BY <1>1, <1>2 DEF CallsInOrder, listVars

LEMMA InitUploads == Init => CameraTypeOK /\ UploadsInv
<1> SUFFICES ASSUME Init PROVE CameraTypeOK /\ UploadsInv
  OBVIOUS
<1> USE DEF Init, PageInit
<1>1. CameraTypeOK
  BY DEF CameraInit, CameraTypeOK
<1>2. QueueTypeOK /\ ListTypeOK
  <2>1. mutations = <<>> /\ pending = <<>> /\ ready = FALSE
    OBVIOUS
  <2>2. status \in [Items -> Statuses] /\ running = {} /\ placeholders = {}
    BY DEF Statuses
  <2>3. /\ retryable \in [Items -> Uploads \union {None, NoRetry}]
        /\ upload \in [Items -> Uploads \union {None}]
        /\ unread = {} /\ lost \in [Items -> SUBSET Uploads]
    OBVIOUS
  <2>4. records \subseteq Uploads
    OBVIOUS
  <2> HIDE DEF Init, PageInit
  <2>5. mutations \in Seq(Calls) /\ pending \in Seq(Items)
    BY <2>1
  <2>6. ready \in BOOLEAN
    BY <2>1
  <2> QED
    BY <2>2, <2>3, <2>4, <2>5, <2>6 DEF QueueTypeOK, ListTypeOK
<1>3. QueueInOrder
  BY FS_EmptySet, PageConstants DEF QueueInOrder, AtWork
<1>4. CallsInOrder /\ ItemsInOrder /\ NothingForgotten
  BY DEF CallsInOrder, ItemsInOrder, ItemInOrder, NothingForgotten
<1> QED
  BY <1>1, <1>2, <1>3, <1>4 DEF UploadsInv

LEMMA InitializeKeeps ==
  ASSUME UploadsInv, Initialize \/ InitializeFails
  PROVE  UploadsInv'
<1> USE DEF UploadsInv, Initialize, InitializeFails, listVars
<1>1. QueueTypeOK' /\ ListTypeOK'
  BY DEF QueueTypeOK, ListTypeOK
<1>2. QueueInOrder'
  BY DEF QueueInOrder
<1>3. CallsInOrder' /\ ItemsInOrder'
  BY DEF CallsInOrder, ItemsInOrder, ItemInOrder
<1>4. NothingForgotten'
  BY DEF NothingForgotten, Finished
<1> QED
  BY <1>1, <1>2, <1>3, <1>4

LEMMA ReloadKeeps == ASSUME UploadsInv, Reload PROVE UploadsInv'
<1> USE DEF UploadsInv, Reload
<1>1. QueueTypeOK' /\ ListTypeOK'
  <2>1. mutations' = <<>> /\ pending' = <<>> /\ ready' = FALSE
    OBVIOUS
  <2>2. status' \in [Items -> Statuses] /\ running' = {} /\ placeholders' = {}
    BY DEF Statuses
  <2>3. /\ retryable' \in [Items -> Uploads \union {None, NoRetry}]
        /\ upload' \in [Items -> Uploads \union {None}]
        /\ unread' = {} /\ lost' \in [Items -> SUBSET Uploads]
    OBVIOUS
  <2>4. records' \subseteq Uploads
    BY DEF ListTypeOK
  <2> HIDE DEF Reload
  <2>5. mutations' \in Seq(Calls) /\ pending' \in Seq(Items)
    BY <2>1
  <2>6. ready' \in BOOLEAN
    BY <2>1
  <2> QED
    BY <2>2, <2>3, <2>4, <2>5, <2>6 DEF QueueTypeOK, ListTypeOK
<1>2. QueueInOrder'
  BY FS_EmptySet, PageConstants DEF QueueInOrder, AtWork
<1>3. CallsInOrder' /\ ItemsInOrder'
  BY DEF CallsInOrder, ItemsInOrder, ItemInOrder
<1>4. NothingForgotten'
  BY DEF NothingForgotten
<1> QED
  BY <1>1, <1>2, <1>3, <1>4

\* An item that waits for nothing yet is put in the queue.
LEMMA EnqueueKeeps ==
  ASSUME UploadsInv, NEW i \in Items, NEW u \in Uploads \union {None}, Enqueue(i, u),
         \/ status[i] = "none" /\ u = None
         \/ status[i] \in {"picked", "failed"} /\ u = retryable[i],
         UNCHANGED listVars, UNCHANGED ready
  PROVE  UploadsInv'
<1> USE DEF UploadsInv
<1>1. /\ QueueTypeOK' /\ QueueInOrder'
      /\ status'[i] \in {"queued", "hashing"}
      /\ \A j \in Items \ {i} : Advances(j)
  BY EnqueueKeepsOrder
<1>2. /\ retryable' = [retryable EXCEPT ![i] = u]
      /\ UNCHANGED <<records, mutations, ready, upload, placeholders, unread, lost>>
  BY DEF Enqueue, listVars
<1>3. retryable'[i] = u /\ u # NoRetry /\ \A j \in Items \ {i} : retryable'[j] = retryable[j]
  BY <1>2, PageConstants DEF ListTypeOK
<1>4. ListTypeOK'
  BY <1>2 DEF ListTypeOK
<1>5. CallsInOrder'
  BY <1>1, <1>2, CallsStay DEF Advances
<1>6. ItemsInOrder'
  <2>1. ASSUME NEW j \in Items \ {i} PROVE ItemInOrder(j)'
    BY <1>1, <1>2, <1>3, <2>1 DEF ItemsInOrder, ItemInOrder, Advances
  <2> QED
    BY <1>1, <1>2, <1>3, <2>1 DEF ItemsInOrder, ItemInOrder
<1>7. NothingForgotten'
  <2>1. ASSUME NEW j \in Items, Finished(upload[j]), upload[j] # None PROVE Finished(upload[j])'
    BY <1>2, <1>3, <2>1 DEF Finished, ItemsInOrder, ItemInOrder
  <2> QED
    BY <1>1, <1>2, <2>1 DEF NothingForgotten, ItemsInOrder, ItemInOrder, Advances
<1> QED
  BY <1>1, <1>4, <1>5, <1>6, <1>7
LEMMA PickFileKeeps ==
  ASSUME UploadsInv, NEW i \in Items, NEW u \in Uploads, PickFile(i, u)
  PROVE  UploadsInv'
<1> USE DEF UploadsInv
<1>1. /\ status[i] = "none" /\ Shows(i, "picked") /\ retryable' = [retryable EXCEPT ![i] = u]
      /\ UNCHANGED listVars /\ UNCHANGED <<ready, upload, placeholders, unread, lost>>
  BY DEF PickFile
<1>2. /\ QueueTypeOK' /\ QueueInOrder'
      /\ status'[i] = "picked" /\ \A j \in Items \ {i} : status'[j] = status[j]
  BY <1>1, ShowsKeepsOrder DEF Statuses, AtWork
<1>3. retryable'[i] = u /\ u # NoRetry /\ \A j \in Items \ {i} : retryable'[j] = retryable[j]
  BY <1>1, PageConstants DEF ListTypeOK
<1>4. ListTypeOK'
  BY <1>1 DEF ListTypeOK, listVars
<1>5. CallsInOrder'
  BY <1>1, <1>2, CallsStay
<1>6. ItemsInOrder'
  BY <1>1, <1>2, <1>3 DEF ItemsInOrder, ItemInOrder
<1>7. NothingForgotten'
  <2>1. ASSUME NEW j \in Items, Finished(upload[j]), upload[j] # None PROVE Finished(upload[j])'
    BY <1>1, <1>3, <2>1 DEF Finished, ItemsInOrder, ItemInOrder
  <2> QED
    BY <1>1, <1>2, <2>1 DEF NothingForgotten, ItemsInOrder, ItemInOrder, listVars
<1> QED
  BY <1>2, <1>4, <1>5, <1>6, <1>7

\* The Mac accepts: the item has one upload from here on.
LEMMA AcceptKeeps ==
  ASSUME UploadsInv, NEW i \in Items, NEW u \in Uploads, Accept(i, u)
  PROVE  UploadsInv'
<1> USE DEF UploadsInv
<1>1. /\ status[i] = "hashing" /\ Granted(i, u) /\ Shows(i, "saving")
      /\ upload' = [upload EXCEPT ![i] = u] /\ retryable' = [retryable EXCEPT ![i] = u]
      /\ placeholders' = placeholders \ {u}
      /\ mutations' = Append(mutations, Call("save", u, i, {}))
      /\ UNCHANGED <<records, ready, unread, lost>>
  BY DEF Accept, Saves
<1>2. /\ QueueTypeOK' /\ QueueInOrder'
      /\ status'[i] = "saving" /\ \A j \in Items \ {i} : status'[j] = status[j]
  BY <1>1, ShowsKeepsOrder DEF Statuses, AtWork
<1>3. /\ retryable'[i] = u /\ upload'[i] = u /\ u # NoRetry /\ u # None
      /\ \A j \in Items \ {i} : retryable'[j] = retryable[j] /\ upload'[j] = upload[j]
  BY <1>1, PageConstants DEF ListTypeOK
\* An item that had an upload before keeps it.
<1>4. upload[i] \in {None, u} /\ retryable[i] # NoRetry
  BY <1>1 DEF Granted, ItemsInOrder, ItemInOrder, ListTypeOK
<1>5. Call("save", u, i, {}) \in Calls
  BY DEF Call, Calls
<1>6. ListTypeOK'
  <2>1. mutations' \in Seq(Calls)
    BY <1>1, <1>5, LastComes DEF ListTypeOK
  <2> QED
    BY <1>1, <2>1 DEF ListTypeOK
<1>7. CallsInOrder'
  <2>1. /\ DOMAIN mutations = 1..Len(mutations) /\ Len(mutations) \in Nat
        /\ DOMAIN mutations' = 1..(Len(mutations) + 1)
        /\ \A k \in DOMAIN mutations : mutations'[k] = mutations[k]
        /\ mutations'[Len(mutations) + 1] = Call("save", u, i, {})
    BY <1>1, <1>5, LastComes DEF ListTypeOK
  <2>2. \A k \in DOMAIN mutations : mutations[k].item \in Items \ {i}
    BY <1>1, CallsTyped DEF CallsInOrder
  <2>3. \A k \in DOMAIN mutations' :
          \/ k \in DOMAIN mutations
          \/ k = Len(mutations) + 1 /\ mutations'[k] = Call("save", u, i, {})
    BY <2>1
  <2>4. \A k, l \in DOMAIN mutations' : mutations'[k].item = mutations'[l].item => k = l
    BY <2>1, <2>2, <2>3 DEF CallsInOrder, Call
  <2>5. ASSUME NEW k \in DOMAIN mutations'
        PROVE  LET m == mutations'[k] IN
               /\ status'[m.item] = IF m.op = "save" THEN "saving" ELSE "removing"
               /\ m.upload = upload'[m.item]
               /\ m.read # {} => k = 1 /\ m.read = {records'}
    <3>1. CASE k \in DOMAIN mutations
      BY <1>1, <1>2, <1>3, <2>1, <2>2, <3>1 DEF CallsInOrder
    <3>2. CASE mutations'[k] = Call("save", u, i, {})
      BY <1>2, <1>3, <3>2 DEF Call
    <3> QED
      BY <2>3, <3>1, <3>2
  <2>6. ASSUME NEW j \in Items, status'[j] \in {"saving", "removing"}
        PROVE  \E k \in DOMAIN mutations' : mutations'[k].item = j
    <3>1. CASE j = i
      BY <2>1, <3>1 DEF Call
    <3>2. CASE j # i
      <4>1. PICK k \in DOMAIN mutations : mutations[k].item = j
        BY <1>2, <2>6, <3>2 DEF CallsInOrder
      <4> QED
        BY <2>1, <4>1
    <3> QED
      BY <3>1, <3>2
  <2> QED
    BY <2>4, <2>5, <2>6 DEF CallsInOrder
<1>8. ItemsInOrder'
  <2>1. ASSUME NEW j \in Items PROVE ItemInOrder(j)'
    BY <1>2, <1>3, <2>1 DEF ItemsInOrder, ItemInOrder
  <2> QED
    BY <2>1 DEF ItemsInOrder
<1>9. NothingForgotten'
  <2>1. ASSUME NEW v \in Uploads, Finished(v) PROVE Finished(v)'
    <3>1. PICK j \in Items : upload[j] = v /\ retryable[j] = NoRetry
      BY <2>1 DEF Finished
    <3>2. j # i
      BY <1>4, <3>1
    <3> QED
      BY <1>3, <3>1, <3>2 DEF Finished
  <2>2. ASSUME NEW v \in records, ready
        PROVE  v \in placeholders' \union unread' \/ \E j \in Items : upload'[j] = v
    <3>1. CASE v = u
      BY <1>3, <3>1
    <3>2. CASE v # u /\ v \in placeholders \union unread
      BY <1>1, <3>2
    <3>3. CASE v # u /\ \E j \in Items : upload[j] = v
      <4>1. v # None
        BY PageConstants DEF ListTypeOK
      <4> QED
        BY <1>3, <1>4, <3>3, <4>1
    <3> QED
      BY <2>2, <3>1, <3>2, <3>3 DEF NothingForgotten
  <2>3. ASSUME NEW j \in Items, status'[j] = "transferring", ~Finished(upload[j])'
        PROVE  upload'[j] \in records'
    <3>1. j # i /\ status[j] = "transferring" /\ upload'[j] = upload[j]
      BY <1>2, <1>3, <2>3
    <3>2. PICK v \in Uploads : v = upload[j]
      BY <3>1, PageConstants DEF ListTypeOK, ItemsInOrder, ItemInOrder
    <3>3. ~Finished(v)
      BY <2>1, <2>3, <3>1, <3>2 DEF Finished
    <3> QED
      BY <1>1, <3>1, <3>2, <3>3 DEF NothingForgotten
  <2> QED
    BY <1>1, <2>2, <2>3 DEF NothingForgotten
<1> QED
  BY <1>2, <1>6, <1>7, <1>8, <1>9

\* A task ends without a call to wait for.
LEMMA TransferFailsKeeps ==
  ASSUME UploadsInv, NEW i \in Items, TransferFails(i)
  PROVE  UploadsInv'
<1> USE DEF UploadsInv
<1>1. /\ status[i] \in {"hashing", "transferring"} /\ TaskEnds(i, "failed")
      /\ UNCHANGED listVars
      /\ UNCHANGED <<records, ready, retryable, upload, placeholders, unread, lost>>
  BY DEF TransferFails, listVars
<1>2. /\ QueueTypeOK' /\ QueueInOrder'
      /\ status'[i] = "failed" /\ \A j \in Items \ {i} : Advances(j)
  BY <1>1, TaskEndsKeepsOrder DEF AtWork
<1>3. ListTypeOK'
  BY <1>1 DEF ListTypeOK, listVars
<1>4. CallsInOrder'
  BY <1>1, <1>2, CallsStay DEF Advances
<1>5. ItemsInOrder'
  BY <1>1, <1>2 DEF ItemsInOrder, ItemInOrder, Advances
<1>6. NothingForgotten'
  BY <1>1, <1>2 DEF NothingForgotten, Finished, Advances
<1> QED
  BY <1>2, <1>3, <1>4, <1>5, <1>6

\* The Mac has created an upload, and the page does not know it.
LEMMA AnswerLostKeeps ==
  ASSUME UploadsInv, NEW i \in Items, NEW u \in Uploads, AnswerLost(i, u)
  PROVE  UploadsInv'
<1> USE DEF UploadsInv
<1>1. /\ status[i] = "hashing" /\ TaskEnds(i, "failed")
      /\ UNCHANGED listVars /\ UNCHANGED <<records, ready, retryable, upload, placeholders, unread>>
      /\ lost' = [lost EXCEPT ![i] = @ \union {u}]
  BY DEF AnswerLost, listVars
<1>2. /\ QueueTypeOK' /\ QueueInOrder'
      /\ status'[i] = "failed" /\ \A j \in Items \ {i} : Advances(j)
  BY <1>1, TaskEndsKeepsOrder DEF AtWork
<1>3. ListTypeOK'
  <2>1. lost' \in [Items -> SUBSET Uploads]
    BY <1>1 DEF ListTypeOK
  <2> QED
    BY <1>1, <2>1 DEF ListTypeOK, listVars
<1>4. CallsInOrder'
  BY <1>1, <1>2, CallsStay DEF Advances
<1>5. ItemsInOrder'
  BY <1>1, <1>2 DEF ItemsInOrder, ItemInOrder, Advances
<1>6. NothingForgotten'
  BY <1>1, <1>2 DEF NothingForgotten, Finished, Advances
<1> QED
  BY <1>2, <1>3, <1>4, <1>5, <1>6

\* The transfer has succeeded: its record is to be removed.
LEMMA TransferDoneKeeps ==
  ASSUME UploadsInv, NEW i \in Items, TransferDone(i)
  PROVE  UploadsInv'
<1> USE DEF UploadsInv
<1> DEFINE call == Call("remove", upload[i], i, {})
<1>1. /\ status[i] = "transferring" /\ Shows(i, "removing")
      /\ retryable' = [retryable EXCEPT ![i] = NoRetry]
      /\ mutations' = Append(mutations, call)
      /\ UNCHANGED <<records, ready, upload, placeholders, unread, lost>>
  BY DEF TransferDone, Removes
<1>2. /\ QueueTypeOK' /\ QueueInOrder'
      /\ status'[i] = "removing" /\ \A j \in Items \ {i} : status'[j] = status[j]
  BY <1>1, ShowsKeepsOrder DEF Statuses, AtWork
<1>3. retryable'[i] = NoRetry /\ \A j \in Items \ {i} : retryable'[j] = retryable[j]
  BY <1>1 DEF ListTypeOK
<1>4. upload[i] \in Uploads
  BY <1>1 DEF ListTypeOK, ItemsInOrder, ItemInOrder
<1>5. call \in Calls
  BY <1>4 DEF Call, Calls
<1> HIDE DEF call
<1>6. ListTypeOK'
  <2>1. mutations' \in Seq(Calls)
    BY <1>1, <1>5, LastComes DEF ListTypeOK
  <2> QED
    BY <1>1, <2>1 DEF ListTypeOK
<1>7. CallsInOrder'
  <2>0. call.op = "remove" /\ call.upload = upload[i] /\ call.item = i /\ call.read = {}
    BY DEF call, Call
  <2>1. /\ DOMAIN mutations = 1..Len(mutations) /\ Len(mutations) \in Nat
        /\ DOMAIN mutations' = 1..(Len(mutations) + 1)
        /\ \A k \in DOMAIN mutations : mutations'[k] = mutations[k]
        /\ mutations'[Len(mutations) + 1] = call
    BY <1>1, <1>5, LastComes DEF ListTypeOK
  <2>2. \A k \in DOMAIN mutations : mutations[k].item \in Items \ {i}
    BY <1>1, CallsTyped DEF CallsInOrder
  <2>3. \A k \in DOMAIN mutations' :
          k \in DOMAIN mutations \/ (k = Len(mutations) + 1 /\ mutations'[k] = call)
    BY <2>1
  <2>4. \A k, l \in DOMAIN mutations' : mutations'[k].item = mutations'[l].item => k = l
    BY <2>0, <2>1, <2>2, <2>3 DEF CallsInOrder
  <2>5. ASSUME NEW k \in DOMAIN mutations'
        PROVE  LET m == mutations'[k] IN
               /\ status'[m.item] = IF m.op = "save" THEN "saving" ELSE "removing"
               /\ m.upload = upload'[m.item]
               /\ m.read # {} => k = 1 /\ m.read = {records'}
    <3>1. CASE k \in DOMAIN mutations
      BY <1>1, <1>2, <2>1, <2>2, <3>1 DEF CallsInOrder
    <3>2. CASE mutations'[k] = call
      BY <1>1, <1>2, <2>0, <3>2
    <3> QED
      BY <2>3, <3>1, <3>2
  <2>6. ASSUME NEW j \in Items, status'[j] \in {"saving", "removing"}
        PROVE  \E k \in DOMAIN mutations' : mutations'[k].item = j
    <3>1. CASE j = i
      BY <2>0, <2>1, <3>1
    <3>2. CASE j # i
      <4>1. PICK k \in DOMAIN mutations : mutations[k].item = j
        BY <1>2, <2>6, <3>2 DEF CallsInOrder
      <4> QED
        BY <2>1, <4>1
    <3> QED
      BY <3>1, <3>2
  <2> QED
    BY <2>4, <2>5, <2>6 DEF CallsInOrder
<1>8. ItemsInOrder'
  <2>1. ASSUME NEW j \in Items PROVE ItemInOrder(j)'
    BY <1>1, <1>2, <1>3, <2>1 DEF ItemsInOrder, ItemInOrder
  <2> QED
    BY <2>1 DEF ItemsInOrder
<1>9. NothingForgotten'
  <2>1. \A j \in Items : Finished(upload[j]) => Finished(upload[j])'
    BY <1>1, <1>3 DEF Finished
  <2> QED
    BY <1>1, <1>2, <2>1 DEF NothingForgotten
<1> QED
  BY <1>2, <1>6, <1>7, <1>8, <1>9

\* The first call reads the list.
LEMMA ReadKeeps ==
  ASSUME UploadsInv, NEW k \in DOMAIN mutations, Read(k)
  PROVE  UploadsInv'
<1> USE DEF UploadsInv
<1> DEFINE m == mutations[k]
           call == Call(m.op, m.upload, m.item, {records})
<1>1. /\ k = 1 /\ mutations' = [mutations EXCEPT ![1] = call]
      /\ UNCHANGED <<records, ready, status, retryable, upload, placeholders, pending, running,
                     unread, lost>>
  BY DEF Read, ReadList, Turn, pageVars
<1>2. mutations \in Seq(Calls) /\ 1 \in DOMAIN mutations
  BY <1>1 DEF ListTypeOK
<1>3. call \in Calls
  BY CallsTyped DEF Call, Calls, ListTypeOK
<1>4. /\ call.op = m.op /\ call.upload = m.upload /\ call.item = m.item /\ call.read = {records}
  BY DEF Call
<1> HIDE DEF call
<1>5. /\ mutations' \in Seq(Calls) /\ DOMAIN mutations' = DOMAIN mutations
      /\ mutations'[1] = call /\ \A l \in DOMAIN mutations \ {1} : mutations'[l] = mutations[l]
  BY <1>1, <1>2, <1>3
<1>6. QueueTypeOK' /\ QueueInOrder' /\ ListTypeOK'
  BY <1>1, <1>5 DEF QueueTypeOK, QueueInOrder, ListTypeOK
<1>7. \A l \in DOMAIN mutations :
        /\ mutations'[l].op = mutations[l].op /\ mutations'[l].upload = mutations[l].upload
        /\ mutations'[l].item = mutations[l].item
        /\ mutations'[l].read # {} => l = 1 /\ mutations'[l].read = {records}
  BY <1>1, <1>4, <1>5 DEF CallsInOrder
<1>8. CallsInOrder'
  BY <1>1, <1>5, <1>7 DEF CallsInOrder
<1>9. ItemsInOrder' /\ NothingForgotten'
  BY <1>1 DEF ItemsInOrder, ItemInOrder, NothingForgotten, Finished
<1> QED
  BY <1>6, <1>8, <1>9

\* The first call settles, and the next has not read anything yet.
LEMMA CallsLeave ==
  ASSUME ListTypeOK, CallsInOrder, mutations # <<>>, NEW i \in Items, i = mutations[1].item,
         mutations' = RemoveAt(mutations, 1), UNCHANGED upload,
         status'[i] \notin {"saving", "removing"}, \A j \in Items \ {i} : Advances(j)
  PROVE  CallsInOrder' /\ mutations' \in Seq(Calls)
<1>1. /\ mutations' \in Seq(Calls) /\ 1 \in DOMAIN mutations /\ DOMAIN mutations \subseteq Nat
      /\ \A k \in DOMAIN mutations' :
           k + 1 \in DOMAIN mutations /\ mutations'[k] = mutations[k + 1]
      /\ \A k \in DOMAIN mutations :
           k = 1 \/ (k - 1 \in DOMAIN mutations' /\ mutations'[k - 1] = mutations[k])
      /\ DOMAIN mutations' \subseteq Nat \ {0}
  BY FirstLeaves DEF ListTypeOK
<1>2. \A k \in DOMAIN mutations' : mutations'[k].item \in Items \ {i}
  BY <1>1, CallsTyped DEF CallsInOrder
<1>3. \A k, l \in DOMAIN mutations' : mutations'[k].item = mutations'[l].item => k = l
  <2> SUFFICES ASSUME NEW k \in DOMAIN mutations', NEW l \in DOMAIN mutations',
                      mutations'[k].item = mutations'[l].item
               PROVE  k = l
    OBVIOUS
  <2>1. k + 1 = l + 1
    BY <1>1 DEF CallsInOrder
  <2> QED
    BY <1>1, <2>1
<1>4. ASSUME NEW k \in DOMAIN mutations'
      PROVE  LET m == mutations'[k] IN
             /\ status'[m.item] = IF m.op = "save" THEN "saving" ELSE "removing"
             /\ m.upload = upload'[m.item]
             /\ m.read = {}
  <2>1. k + 1 \in DOMAIN mutations /\ k + 1 # 1 /\ mutations'[k] = mutations[k + 1]
    BY <1>1
  <2> QED
    BY <1>2, <2>1 DEF CallsInOrder, Advances
<1>5. ASSUME NEW j \in Items, status'[j] \in {"saving", "removing"}
      PROVE  \E k \in DOMAIN mutations' : mutations'[k].item = j
  <2>1. j # i /\ status[j] \in {"saving", "removing"}
    BY <1>5 DEF Advances
  <2>2. PICK k \in DOMAIN mutations : mutations[k].item = j
    BY <2>1 DEF CallsInOrder
  <2> QED
    BY <1>1, <2>1, <2>2
<1> QED
  BY <1>1, <1>3, <1>4, <1>5 DEF CallsInOrder

\* The list is written, from what was read of it: nothing has changed it since.
LEMMA WriteKeeps ==
  ASSUME UploadsInv, NEW k \in DOMAIN mutations, Write(k)
  PROVE  UploadsInv'
<1> USE DEF UploadsInv
<1> DEFINE i == mutations[1].item
           v == mutations[1].upload
<1>1. /\ k = 1 /\ 1 \in DOMAIN mutations /\ mutations # <<>>
      /\ mutations' = RemoveAt(mutations, 1)
      /\ UNCHANGED <<ready, retryable, upload, placeholders, unread, lost>>
  BY DEF Write, WriteList, Turn, ListTypeOK
<1>2. i \in Items /\ v \in Uploads /\ v = upload[i] /\ mutations[1].op \in {"save", "remove"}
  BY <1>1, CallsTyped DEF CallsInOrder
<1>3. records' = IF mutations[1].op = "save" THEN records \union {v} ELSE records \ {v}
  <2>1. PICK list \in mutations[1].read :
           records' = IF mutations[1].op = "save" THEN list \union {v} ELSE list \ {v}
    BY <1>1 DEF Write, WriteList
  <2>2. mutations[1].read = {records}
    BY <1>1, <2>1 DEF CallsInOrder
  <2> QED
    BY <2>1, <2>2
<1>4. ListTypeOK'
  <2>1. mutations' \in Seq(Calls)
    BY <1>1, FirstLeaves DEF ListTypeOK
  <2>2. records' \subseteq Uploads
    BY <1>2, <1>3 DEF ListTypeOK
  <2> QED
    BY <1>1, <2>1, <2>2 DEF ListTypeOK
<1>5. CASE mutations[1].op = "save"
  <2>1. status[i] = "saving" /\ Shows(i, "transferring")
    BY <1>1, <1>5 DEF Write, CallsInOrder
  <2>2. /\ QueueTypeOK' /\ QueueInOrder'
        /\ status'[i] = "transferring" /\ \A j \in Items \ {i} : status'[j] = status[j]
    BY <1>2, <2>1, ShowsKeepsOrder DEF Statuses, AtWork
  <2>3. CallsInOrder'
    BY <1>1, <1>2, <2>2, CallsLeave DEF Advances
  <2>4. ItemsInOrder'
    BY <1>1, <1>2, <2>1, <2>2 DEF ItemsInOrder, ItemInOrder
  <2>5. NothingForgotten'
    BY <1>1, <1>2, <1>3, <1>5, <2>2 DEF NothingForgotten, Finished
  <2> QED
    BY <1>4, <2>2, <2>3, <2>4, <2>5
<1>6. CASE mutations[1].op = "remove"
  <2>1. status[i] = "removing" /\ TaskEnds(i, "completed")
    BY <1>1, <1>6 DEF Write, CallsInOrder
  <2>2. /\ QueueTypeOK' /\ QueueInOrder'
        /\ status'[i] = "completed" /\ \A j \in Items \ {i} : Advances(j)
    BY <1>2, <2>1, TaskEndsKeepsOrder DEF AtWork
  <2>3. CallsInOrder'
    BY <1>1, <1>2, <2>2, CallsLeave
  <2>4. ItemsInOrder'
    BY <1>1, <1>2, <2>1, <2>2 DEF ItemsInOrder, ItemInOrder, Advances
  <2>5. retryable[i] = NoRetry /\ Finished(v)
    BY <1>2, <2>1 DEF ItemsInOrder, ItemInOrder, Finished
  <2>6. NothingForgotten'
    BY <1>1, <1>2, <1>3, <1>6, <2>2, <2>5 DEF NothingForgotten, Finished, Advances
  <2> QED
    BY <1>4, <2>2, <2>3, <2>4, <2>6
<1> QED
  BY <1>2, <1>5, <1>6

LEMMA WriteFailsKeeps ==
  ASSUME UploadsInv, NEW k \in DOMAIN mutations, WriteFails(k)
  PROVE  UploadsInv'
<1> USE DEF UploadsInv
<1> DEFINE i == mutations[1].item
<1>1. /\ k = 1 /\ 1 \in DOMAIN mutations /\ mutations # <<>>
      /\ mutations' = RemoveAt(mutations, 1)
      /\ UNCHANGED <<records, ready, retryable, upload, placeholders, unread, lost>>
      /\ TaskEnds(i, "failed")
  BY DEF WriteFails, MutationFails, Turn, ListTypeOK
<1>2. i \in Items /\ status[i] \in {"saving", "removing"}
  BY <1>1, CallsTyped DEF CallsInOrder
<1>3. /\ QueueTypeOK' /\ QueueInOrder'
      /\ status'[i] = "failed" /\ \A j \in Items \ {i} : Advances(j)
  BY <1>1, <1>2, TaskEndsKeepsOrder DEF AtWork
<1>4. CallsInOrder' /\ mutations' \in Seq(Calls)
  BY <1>1, <1>2, <1>3, CallsLeave
<1>5. ListTypeOK'
  BY <1>1, <1>4 DEF ListTypeOK
<1>6. ItemsInOrder'
  BY <1>1, <1>2, <1>3 DEF ItemsInOrder, ItemInOrder, Advances
<1>7. NothingForgotten'
  BY <1>1, <1>2, <1>3 DEF NothingForgotten, Finished, Advances
<1> QED
  BY <1>3, <1>4, <1>5, <1>6, <1>7

-----------------------------------------------------------------------------
(* The page as a whole *)

LEMMA SameKeeps ==
  ASSUME UploadsInv, UNCHANGED <<listVars, pageVars>>
  PROVE  UploadsInv'
<1> USE DEF UploadsInv, listVars, pageVars
<1>1. QueueTypeOK' /\ ListTypeOK' /\ QueueInOrder'
  BY DEF QueueTypeOK, ListTypeOK, QueueInOrder
<1>2. CallsInOrder' /\ ItemsInOrder' /\ NothingForgotten'
  BY DEF CallsInOrder, ItemsInOrder, ItemInOrder, NothingForgotten, Finished
<1> QED
  BY <1>1, <1>2

\* A file of the user, or of the camera, becomes an item.
LEMMA UploadFileKeeps ==
  ASSUME UploadsInv, NEW i \in Items, UploadFile(i), UNCHANGED listVars, UNCHANGED ready
  PROVE  UploadsInv'
BY EnqueueKeeps DEF UploadFile

LEMMA AgainKeeps ==
  ASSUME UploadsInv, NEW i \in Items, ResumeFile(i) \/ RetryUpload(i)
  PROVE  UploadsInv'
<1>1. /\ status[i] \in {"picked", "failed"} /\ Enqueue(i, retryable[i])
      /\ UNCHANGED listVars /\ UNCHANGED ready
  BY DEF ResumeFile, RetryUpload
<1>2. retryable[i] \in Uploads \union {None}
  BY DEF ResumeFile, RetryUpload, UploadsInv, ListTypeOK, ItemsInOrder, ItemInOrder
<1> QED
  BY <1>1, <1>2, EnqueueKeeps

Page == CameraTypeOK /\ UploadsInv

LEMMA CameraKeeps ==
  ASSUME Page, Camera, UNCHANGED listVars
  PROVE  Page'
<1> USE DEF Page
<1>1. CASE StopAgain /\ UNCHANGED pageVars
  BY <1>1, CameraKeepsType, SameKeeps
<1>2. ASSUME NEW c \in Recordings, (Begin(c) \/ CameraWaits(c)) /\ UNCHANGED pageVars PROVE Page'
  BY <1>2, CameraKeepsType, SameKeeps DEF Begin
<1>3. ASSUME NEW c \in Recordings, UserStops(c) \/ StopEvent(c) PROVE Page'
  <2>1. CameraTypeOK'
    BY <1>3, CameraKeepsType DEF UserStops, StopEvent
  <2>2. UNCHANGED pageVars \/ (UploadFile(c) /\ UNCHANGED ready)
    BY <1>3 DEF UserStops, StopEvent, FileComes
  <2>3. c \in Items
    BY PageConstants
  <2> QED
    BY <2>1, <2>2, <2>3, UploadFileKeeps, SameKeeps
<1> QED
  BY <1>1, <1>2, <1>3 DEF Camera

LEMMA NextKeeps ==
  ASSUME Page, [Next]_vars
  PROVE  Page'
<1> USE DEF Page
<1>1. CASE Initialize \/ InitializeFails \/ Reload
  BY <1>1, InitializeKeeps, ReloadKeeps, CameraKeepsType DEF Initialize, InitializeFails, Reload
<1>2. ASSUME NEW i \in Items, SelectFile(i) PROVE Page'
  BY <1>2, UploadFileKeeps, CameraKeepsType DEF SelectFile
<1>3. ASSUME NEW i \in Items, ResumeFile(i) \/ RetryUpload(i) PROVE Page'
  BY <1>3, AgainKeeps, CameraKeepsType DEF ResumeFile, RetryUpload
<1>4. ASSUME NEW i \in Items, Task(i) PROVE Page'
  <2>1. ASSUME NEW u \in Uploads, Accept(i, u) PROVE Page'
    BY <2>1, AcceptKeeps, CameraKeepsType DEF Accept
  <2>2. CASE TransferFails(i)
    BY <2>2, TransferFailsKeeps, CameraKeepsType DEF TransferFails
  <2>3. CASE TransferDone(i)
    BY <2>3, TransferDoneKeeps, CameraKeepsType DEF TransferDone
  <2>4. ASSUME NEW u \in Uploads, AnswerLost(i, u) PROVE Page'
    BY <2>4, AnswerLostKeeps, CameraKeepsType DEF AnswerLost
  <2> QED
    BY <1>4, <2>1, <2>2, <2>3, <2>4 DEF Task
<1>5. ASSUME NEW i \in Items, NEW u \in Uploads, PickFile(i, u) PROVE Page'
  BY <1>5, PickFileKeeps, CameraKeepsType DEF PickFile
<1>6. CASE List
  <2>1. PICK k \in DOMAIN mutations : Read(k) \/ Write(k) \/ WriteFails(k)
    BY <1>6 DEF List
  <2>2. UNCHANGED cameraVars
    BY <2>1 DEF Read, Write, WriteFails
  <2> QED
    BY <2>1, <2>2, ReadKeeps, WriteKeeps, WriteFailsKeeps, CameraKeepsType
<1>7. CASE Camera /\ UNCHANGED listVars
  BY <1>7, CameraKeeps
<1>8. CASE UNCHANGED vars
  BY <1>8, SameKeeps, CameraKeepsType DEF vars
<1> QED
  BY <1>1, <1>2, <1>3, <1>4, <1>5, <1>6, <1>7, <1>8 DEF Next

\* The lists of the page agree with each other, whatever the order of tasks, calls to
\* IndexedDB, events of the camera and reloads: three transfers run at most, none waits
\* while a place is free, and the calls on the records take turns.
THEOREM PageInvariant == Spec => []PageInv
<1>1. Init => Page
  BY InitUploads DEF Page
<1>2. Page /\ [Next]_vars => Page'
  BY NextKeeps
<1>3. Page => PageInv
  BY DEF Page, UploadsInv, PageInv, TypeOK
<1> QED
  BY <1>1, <1>2, <1>3, PTL DEF Spec

\* No transfer is lost by a reload, and no record is lost to the user.
THEOREM NothingIsForgotten == Spec => []NothingForgotten
<1>1. Init => Page
  BY InitUploads DEF Page
<1>2. Page /\ [Next]_vars => Page'
  BY NextKeeps
<1>3. Page => NothingForgotten
  BY DEF Page, UploadsInv
<1> QED
  BY <1>1, <1>2, <1>3, PTL DEF Spec

-----------------------------------------------------------------------------
(* What the steps of the page do: its uploads, its records, its queue *)

LEMMA PageStays == Spec => []Page
<1>1. Init => Page
  BY InitUploads DEF Page
<1>2. Page /\ [Next]_vars => Page'
  BY NextKeeps
<1> QED
  BY <1>1, <1>2, PTL DEF Spec

\* Only an acceptance by the Mac gives an item an upload, only a lost answer gives it one that
\* the page does not know, and only a reload takes them away.
LEMMA UploadSteps ==
  ASSUME [Next]_vars
  PROVE  \/ UNCHANGED <<upload, lost>>
         \/ ~ready'
         \/ \E i \in Items, u \in Uploads : Accept(i, u) \/ AnswerLost(i, u)
<1>1. CASE Initialize \/ InitializeFails \/ Reload
  BY <1>1 DEF Initialize, InitializeFails, Reload
<1>2. ASSUME NEW i \in Items, SelectFile(i) \/ ResumeFile(i) \/ RetryUpload(i)
      PROVE  UNCHANGED <<upload, lost>>
  BY <1>2 DEF SelectFile, ResumeFile, RetryUpload, UploadFile, Enqueue
<1>3. ASSUME NEW i \in Items, TransferFails(i) \/ TransferDone(i)
      PROVE  UNCHANGED <<upload, lost>>
  BY <1>3 DEF TransferFails, TransferDone
<1>4. ASSUME NEW i \in Items, NEW u \in Uploads, PickFile(i, u)
      PROVE  UNCHANGED <<upload, lost>>
  BY <1>4 DEF PickFile
<1>5. CASE List
  BY <1>5 DEF List, Read, Write, WriteFails, pageVars
<1>6. CASE Camera
  BY <1>6 DEF Camera, UserStops, StopEvent, FileComes, UploadFile, Enqueue, pageVars
<1>7. CASE UNCHANGED vars
  BY <1>7 DEF vars, pageVars
<1> QED
  BY <1>1, <1>2, <1>3, <1>4, <1>5, <1>6, <1>7 DEF Next, Task

\* Once the page knows an upload for a file, no retry creates another one: the entry for a
\* retry is filled before the first await of the task that the Mac has accepted, and the
\* item stays with that upload.  What a lost answer left on the Mac is known to nobody.
THEOREM OneUploadForEach == Spec => OneUploadEach
<1> DEFINE Keeps == \A i \in Items : ready' /\ Known(i) =>
                      lost'[i] = lost[i] /\ upload'[i] \in {upload[i], retryable[i]}
<1>1. Page /\ [Next]_vars => Keeps
  <2> SUFFICES ASSUME Page, [Next]_vars, NEW j \in Items, ready', Known(j)
               PROVE  lost'[j] = lost[j] /\ upload'[j] \in {upload[j], retryable[j]}
    OBVIOUS
  <2>1. retryable[j] # None
    <3>1. upload[j] # None /\ retryable[j] # NoRetry => retryable[j] = upload[j]
      BY DEF Page, UploadsInv, ItemsInOrder, ItemInOrder
    <3> QED
      BY <3>1, PageConstants DEF Known
  <2>2. ASSUME NEW i \in Items, NEW u \in Uploads, Accept(i, u)
        PROVE  lost'[j] = lost[j] /\ upload'[j] \in {upload[j], retryable[j]}
    <3>1. Granted(i, u) /\ upload' = [upload EXCEPT ![i] = u] /\ UNCHANGED lost
      BY <2>2 DEF Accept
    <3>2. i = j => u = retryable[j]
      BY <2>1, <3>1 DEF Granted
    <3> QED
      BY <3>1, <3>2 DEF Page, UploadsInv, ListTypeOK
  <2>3. ASSUME NEW i \in Items, NEW u \in Uploads, AnswerLost(i, u)
        PROVE  lost'[j] = lost[j] /\ upload'[j] \in {upload[j], retryable[j]}
    <3>1. i # j /\ lost' = [lost EXCEPT ![i] = @ \union {u}] /\ UNCHANGED upload
      BY <2>1, <2>3 DEF AnswerLost
    <3> QED
      BY <3>1 DEF Page, UploadsInv, ListTypeOK
  <2> QED
    BY <2>2, <2>3, UploadSteps
<1> QED
  BY <1>1, PageStays, PTL DEF Spec, OneUploadEach

\* Only the first call writes the list, and it writes back what the list is, changed by it.
LEMMA RecordSteps ==
  ASSUME Page, [Next]_vars
  PROVE  \/ UNCHANGED records
         \/ \E u \in Uploads : records' = records \union {u}
         \/ \E i \in Items : records' = records \ {upload[i]} /\ retryable[i] = NoRetry
<1>1. CASE Initialize \/ InitializeFails \/ Reload
  BY <1>1 DEF Initialize, InitializeFails, Reload, listVars
<1>2. ASSUME NEW i \in Items, SelectFile(i) \/ ResumeFile(i) \/ RetryUpload(i)
      PROVE  UNCHANGED records
  BY <1>2 DEF SelectFile, ResumeFile, RetryUpload, listVars
<1>3. ASSUME NEW i \in Items, Task(i) PROVE UNCHANGED records
  BY <1>3 DEF Task, Accept, AnswerLost, TransferFails, TransferDone, listVars
<1>4. ASSUME NEW i \in Items, NEW u \in Uploads, PickFile(i, u) PROVE UNCHANGED records
  BY <1>4 DEF PickFile, listVars
<1>5. ASSUME NEW k \in DOMAIN mutations, Read(k) \/ WriteFails(k) PROVE UNCHANGED records
  BY <1>5 DEF Read, ReadList, WriteFails, MutationFails
<1>6. ASSUME NEW k \in DOMAIN mutations, Write(k)
      PROVE  \/ \E u \in Uploads : records' = records \union {u}
             \/ \E i \in Items : records' = records \ {upload[i]} /\ retryable[i] = NoRetry
  <2> DEFINE m == mutations[k]
  <2>1. PICK list \in m.read :
          records' = IF m.op = "save" THEN list \union {m.upload} ELSE list \ {m.upload}
    BY <1>6 DEF Write, WriteList
  <2>2. m.item \in Items /\ m.upload \in Uploads /\ m.op \in {"save", "remove"}
    BY CallsTyped DEF Page, UploadsInv
  <2>3. m.upload = upload[m.item] /\ list = records
    BY <2>1 DEF Page, UploadsInv, CallsInOrder
  <2>4. CASE m.op = "save"
    BY <2>1, <2>2, <2>3, <2>4
  <2>5. CASE m.op = "remove"
    <3>1. status[m.item] = "removing"
      BY <2>5 DEF Page, UploadsInv, CallsInOrder
    <3>2. retryable[m.item] = NoRetry
      BY <2>2, <3>1 DEF Page, UploadsInv, ItemsInOrder, ItemInOrder
    <3> QED
      BY <2>1, <2>2, <2>3, <2>5, <3>2
  <2> QED
    BY <2>2, <2>4, <2>5
<1>7. CASE UNCHANGED listVars
  BY <1>7 DEF listVars
<1> QED
  BY <1>1, <1>2, <1>3, <1>4, <1>5, <1>6, <1>7 DEF Next, List, vars

\* The changes of the list take turns (SerialTaskQueue), and none undoes another one.
THEOREM ListIsKept == Spec => ListKept
<1> DEFINE Keeps ==
      /\ \A u, v \in records \ records' : u = v
      /\ \A u \in records \ records' : records' \subseteq records /\ Finished(u)
      /\ \A u, v \in records' \ records : u = v
<1>1. Page /\ [Next]_vars => Keeps
  <2> SUFFICES ASSUME Page, [Next]_vars PROVE Keeps
    OBVIOUS
  <2>1. CASE UNCHANGED records
    BY <2>1
  <2>2. ASSUME NEW w \in Uploads, records' = records \union {w} PROVE Keeps
    BY <2>2
  <2>3. ASSUME NEW i \in Items, records' = records \ {upload[i]}, retryable[i] = NoRetry
        PROVE  Keeps
    BY <2>3 DEF Finished
  <2> QED
    BY <2>1, <2>2, <2>3, RecordSteps
<1> QED
  BY <1>1, PageStays, PTL DEF Spec, ListKept

\* The queue loses items at its head, and gets one at its end.
Taken(q) == \E n \in 0..Len(q) : pending' = SubSeq(q, n + 1, Len(q))

LEMMA StartTakes ==
  ASSUME NEW q \in Seq(Items), NEW going, IsFiniteSet(going), NEW shown,
         Cardinality(going) <= MaxConcurrent, StartAvailable(q, going, shown)
  PROVE  Taken(q)
<1>1. Cardinality(going) \in Nat /\ MaxConcurrent \in Nat /\ Len(q) \in Nat
  BY FS_CardinalityType, PageConstants
<1> DEFINE free == MaxConcurrent - Cardinality(going)
           n == IF Len(q) < free THEN Len(q) ELSE free
<1>2. pending' = SubSeq(q, n + 1, Len(q))
  BY DEF StartAvailable
<1>3. n \in 0..Len(q)
  BY <1>1
<1> QED
  BY <1>2, <1>3 DEF Taken

LEMMA EndTakes ==
  ASSUME Page, NEW i, NEW shown, TaskEnds(i, shown)
  PROVE  Taken(pending)
<1> USE DEF Page, UploadsInv
<1>1. IsFiniteSet(running \ {i}) /\ Cardinality(running \ {i}) <= Cardinality(running)
  BY FS_Subset DEF QueueInOrder
<1>2. /\ Cardinality(running \ {i}) \in Nat /\ Cardinality(running) \in Nat
      /\ MaxConcurrent \in Nat /\ Cardinality(running) <= MaxConcurrent
  BY <1>1, FS_CardinalityType, PageConstants DEF QueueInOrder
<1> QED
  BY <1>1, <1>2, StartTakes DEF TaskEnds, QueueTypeOK

LEMMA EnqueueTakes ==
  ASSUME Page, NEW i \in Items, NEW u, Enqueue(i, u)
  PROVE  Taken(Append(pending, i))
<1>1. /\ Append(pending, i) \in Seq(Items) /\ IsFiniteSet(running)
      /\ Cardinality(running) <= MaxConcurrent
  BY DEF Page, UploadsInv, QueueTypeOK, QueueInOrder
<1> QED
  BY <1>1, StartTakes DEF Enqueue

LEMMA QueueSteps ==
  ASSUME Page, [Next]_vars
  PROVE  \/ UNCHANGED pending
         \/ pending' = <<>>
         \/ Taken(pending)
         \/ \E i \in Items : status[i] # "queued" /\ Taken(Append(pending, i))
<1> DEFINE Goal == \/ UNCHANGED pending
                   \/ pending' = <<>>
                   \/ Taken(pending)
                   \/ \E i \in Items : status[i] # "queued" /\ Taken(Append(pending, i))
<1>1. CASE Initialize \/ InitializeFails \/ Reload
  BY <1>1 DEF Initialize, InitializeFails, Reload
<1>2. ASSUME NEW i \in Items, SelectFile(i) \/ ResumeFile(i) \/ RetryUpload(i) \/ UploadFile(i)
      PROVE  Goal
  <2>1. status[i] # "queued" /\ \E u \in {None, retryable[i]} : Enqueue(i, u)
    BY <1>2 DEF SelectFile, ResumeFile, RetryUpload, UploadFile
  <2> QED
    BY <2>1, EnqueueTakes
<1>3. ASSUME NEW i \in Items, Task(i) PROVE Goal
  <2>1. CASE TransferFails(i) \/ \E u \in Uploads : AnswerLost(i, u)
    BY <2>1, EndTakes DEF TransferFails, AnswerLost
  <2>2. CASE (\E u \in Uploads : Accept(i, u)) \/ TransferDone(i)
    BY <2>2 DEF Accept, TransferDone, Shows
  <2> QED
    BY <1>3, <2>1, <2>2 DEF Task
<1>4. ASSUME NEW i \in Items, NEW u \in Uploads, PickFile(i, u) PROVE Goal
  BY <1>4 DEF PickFile, Shows
<1>5. ASSUME NEW k \in DOMAIN mutations, Read(k) \/ Write(k) \/ WriteFails(k) PROVE Goal
  <2>1. CASE Read(k)
    BY <2>1 DEF Read, pageVars
  <2>2. CASE Write(k)
    BY <2>2, EndTakes DEF Write, Shows
  <2>3. CASE WriteFails(k)
    BY <2>3, EndTakes DEF WriteFails
  <2> QED
    BY <1>5, <2>1, <2>2, <2>3
<1>6. CASE Camera
  <2>1. UNCHANGED pageVars \/ \E c \in Recordings : UploadFile(c)
    BY <1>6 DEF Camera, UserStops, StopEvent, FileComes
  <2>2. CASE UNCHANGED pageVars
    BY <2>2 DEF pageVars
  <2> QED
    BY <1>2, <2>1, <2>2, PageConstants
<1>7. CASE UNCHANGED vars
  BY <1>7 DEF vars, pageVars
<1> QED
  BY <1>1, <1>2, <1>3, <1>4, <1>5, <1>6, <1>7 DEF Next, List

\* What comes before an item that waits was before it already.
LEMMA TakenKeepsOrder ==
  ASSUME Page, NEW q \in Seq(Items), Taken(q), NEW i \in Items, status[i] = "queued",
         \/ q = pending
         \/ \E x \in Items : status[x] # "queued" /\ q = Append(pending, x)
  PROVE  Before(i)' \subseteq Before(i)
<1> SUFFICES ASSUME NEW j \in Items, NEW k \in DOMAIN pending', NEW l \in DOMAIN pending',
                    k < l, pending'[k] = j, pending'[l] = i
             PROVE  j \in Before(i)
  BY DEF Before
<1>1. PICK n \in 0..Len(q) : pending' = SubSeq(q, n + 1, Len(q))
  BY DEF Taken
<1>2. /\ k + n \in DOMAIN q /\ l + n \in DOMAIN q /\ k + n < l + n
      /\ q[k + n] = j /\ q[l + n] = i /\ k \in Nat /\ l \in Nat /\ n \in Nat
  BY <1>1
<1>3. CASE q = pending
  BY <1>2, <1>3 DEF Before
<1>4. ASSUME NEW x \in Items, status[x] # "queued", q = Append(pending, x)
      PROVE  j \in Before(i)
  <2>1. pending \in Seq(Items)
    BY DEF Page, UploadsInv, QueueTypeOK
  <2>2. /\ DOMAIN pending = 1..Len(pending) /\ Len(pending) \in Nat
        /\ DOMAIN q = 1..(Len(pending) + 1)
        /\ \A m \in DOMAIN pending : q[m] = pending[m]
        /\ q[Len(pending) + 1] = x
    BY <1>4, <2>1, LastComes
  <2>3. l + n # Len(pending) + 1
    BY <1>2, <1>4, <2>2
  <2>4. l + n \in DOMAIN pending /\ k + n \in DOMAIN pending
    BY <1>2, <2>2, <2>3
  <2> QED
    BY <1>2, <2>2, <2>4 DEF Before
<1> QED
  BY <1>3, <1>4

\* Files are sent in the order in which they were added (ConcurrentTaskQueue takes the
\* tasks from the head of the list, also when one fails).
THEOREM NoneOvertakes == Spec => NoOvertaking
<1> DEFINE Keeps == \A i \in Items : status[i] = "queued" /\ status'[i] = "queued"
                                       => Before(i)' \subseteq Before(i)
<1>1. Page /\ [Next]_vars => Keeps
  <2> SUFFICES ASSUME Page, [Next]_vars, NEW i \in Items, status[i] = "queued"
               PROVE  Before(i)' \subseteq Before(i)
    OBVIOUS
  <2>1. pending \in Seq(Items)
    BY DEF Page, UploadsInv, QueueTypeOK
  <2>2. CASE UNCHANGED pending
    BY <2>2 DEF Before
  <2>3. CASE pending' = <<>>
    BY <2>3 DEF Before
  <2>4. CASE Taken(pending)
    BY <2>1, <2>4, TakenKeepsOrder
  <2>5. ASSUME NEW x \in Items, status[x] # "queued", Taken(Append(pending, x))
        PROVE  Before(i)' \subseteq Before(i)
    <3>1. Append(pending, x) \in Seq(Items)
      BY <2>1
    <3> QED
      BY <2>5, <3>1, TakenKeepsOrder
  <2> QED
    BY <2>2, <2>3, <2>4, <2>5, QueueSteps
<1> QED
  BY <1>1, PageStays, PTL DEF Spec, NoOvertaking

-----------------------------------------------------------------------------
(* The camera *)

HeldByActive == held \subseteq {active} \union overlapped

\* A start that waits for the permission while another one does, or while a recording is
\* active, overlaps with it.
CameraGood ==
  /\ \A c, d \in Requesting : c # d => c \in overlapped /\ d \in overlapped
  /\ active # None => \A d \in Requesting : active \in overlapped /\ d \in overlapped
  /\ HeldByActive

LEMMA CameraStepKeepsHeld ==
  ASSUME CameraTypeOK, CameraGood, Camera
  PROVE  CameraGood'
<1> USE DEF CameraGood, HeldByActive, CameraTypeOK
<1>1. CASE StopAgain
  BY <1>1 DEF StopAgain, Requesting
<1>2. ASSUME NEW c \in Recordings, StartCamera(c) PROVE CameraGood'
  <2>1. /\ Requesting' = Requesting \union {c} /\ c \notin held
        /\ active = None /\ UNCHANGED <<held, active>>
    BY <1>2 DEF StartCamera, Goes, Requesting
  <2>2. CASE Requesting = {}
    BY <1>2, <2>1, <2>2 DEF StartCamera
  <2>3. CASE Requesting # {}
    <3>1. overlapped' = overlapped \union Requesting \union {c}
      BY <1>2, <2>3 DEF StartCamera
    <3> QED
      BY <2>1, <3>1
  <2> QED
    BY <2>2, <2>3
<1>3. ASSUME NEW c \in Recordings, CaptureGranted(c) PROVE CameraGood'
  <2>1. /\ c \in Requesting /\ Requesting' = Requesting \ {c}
        /\ held' = held \union {c} /\ active' = c /\ UNCHANGED overlapped
    BY <1>3 DEF CaptureGranted, Goes, Requesting
  <2>2. held \subseteq overlapped
    BY <2>1, CameraConstants
  <2> QED
    BY <2>1, <2>2
<1>4. ASSUME NEW c \in Recordings, StartFails(c) \/ RecorderEnds(c) \/ RecorderErrors(c)
      PROVE  CameraGood'
  <2>1. Requesting' \subseteq Requesting /\ UNCHANGED <<held, active, overlapped>>
    BY <1>4 DEF StartFails, RecorderEnds, RecorderErrors, Goes, Requesting
  <2> QED
    BY <2>1
<1>5. ASSUME NEW c \in Recordings, StopCamera(c) \/ RecorderStopsLate(c) PROVE CameraGood'
  <2>1. Requesting' \subseteq Requesting /\ UNCHANGED <<held, active, overlapped>>
    BY <1>5 DEF StopCamera, RecorderStopsLate, Goes, Requesting
  <2> QED
    BY <2>1
<1>6. ASSUME NEW c \in Recordings, StopInactive(c) \/ RecorderStops(c) PROVE CameraGood'
  <2>1. /\ Requesting' \subseteq Requesting /\ active = c /\ active' = None
        /\ held' = held \ {c} /\ UNCHANGED overlapped
    BY <1>6 DEF StopInactive, RecorderStops, Finish, Goes, Requesting
  <2> QED
    BY <2>1
<1> QED
  BY <1>1, <1>2, <1>3, <1>4, <1>5, <1>6 DEF Camera, Begin, CameraWaits, UserStops, StopEvent

LEMMA StepKeepsHeld ==
  ASSUME CameraTypeOK, CameraGood, [Next]_vars
  PROVE  CameraGood'
<1>1. CASE UNCHANGED cameraVars
  BY <1>1 DEF CameraGood, HeldByActive, Requesting, cameraVars
<1>2. CASE Reload
  BY <1>2 DEF Reload, CameraGone, CameraGood, HeldByActive, Requesting
<1>3. CASE Camera
  BY <1>3, CameraStepKeepsHeld
<1>4. UNCHANGED cameraVars \/ Reload \/ Camera
  <2>1. ASSUME NEW i \in Items, SelectFile(i) \/ ResumeFile(i) \/ RetryUpload(i) \/ Task(i)
        PROVE  UNCHANGED cameraVars
    BY <2>1 DEF SelectFile, ResumeFile, RetryUpload, Task, Accept, AnswerLost, TransferFails,
       TransferDone
  <2>2. ASSUME NEW i \in Items, NEW u \in Uploads, PickFile(i, u) PROVE UNCHANGED cameraVars
    BY <2>2 DEF PickFile
  <2>3. CASE Initialize \/ InitializeFails \/ List \/ UNCHANGED vars
    BY <2>3 DEF Initialize, InitializeFails, List, Read, Write, WriteFails, vars
  <2> QED
    BY <2>1, <2>2, <2>3 DEF Next
<1> QED
  BY <1>1, <1>2, <1>3, <1>4

\* The safe half of CameraSettles: on every path of errors, lost tracks and stops the camera
\* is released with the recording that took it, if no other start was under way with its own.
THEOREM CameraIsReleased == Spec => CameraReleased
<1>1. Init => CameraGood
  BY DEF Init, CameraInit, CameraGood, HeldByActive, Requesting
<1>2. CameraTypeOK /\ CameraGood /\ [Next]_vars => CameraGood'
  BY StepKeepsHeld
<1>3. Page => CameraTypeOK
  BY DEF Page
<1>4. CameraGood => HeldByActive
  BY DEF CameraGood
<1> QED
  BY <1>1, <1>2, <1>3, <1>4, PageStays, PTL DEF Spec, CameraReleased, HeldByActive

=============================================================================
