--------------------------- MODULE LocalStoreProofs ----------------------------
(***************************************************************************)
(* What the local store shows a reader, for every set of fields, values    *)
(* and mutations, every number of pending batches, and every combination   *)
(* of refusals, lost answers, writes of other devices and restarts: the    *)
(* overlay carries the id of the newest pending batch; the state keeps its *)
(* types; and as long as the writes of the device stand, the overlay shows *)
(* what the queue makes of the cached document, which is every write the   *)
(* device has made.                                                        *)
(***************************************************************************)
EXTENDS LocalStore, WellFoundedInduction, TLAPS

(***************************************************************************)
(* What the proof needs beside the property: answers belong to batches,    *)
(* and a saved overlay applies whatever the cached document is.            *)
(***************************************************************************)
AnswersToBatches ==
    /\ mutationQueue \in Seq(Batch)
    /\ results \in Seq(Result)
    /\ Len(results) <= Len(mutationQueue)
    /\ nextBatchId \in Nat
    /\ server.version \in Nat

OverlayApplies == overlay # Nil => ~overlay.mutation.exists

StoreInv == AnswersToBatches /\ OverlayApplies /\ OverlayOfNewest

\* A saved overlay has the id it is saved with and no precondition.
LEMMA SavedOverlay ==
    ASSUME NEW id, NEW doc, NEW mask, NEW old
    PROVE  \/ SaveOverlay(id, doc, mask, old) = old /\ doc.state # "local"
           \/ /\ SaveOverlay(id, doc, mask, old).largestBatchId = id
              /\ ~SaveOverlay(id, doc, mask, old).mutation.exists
  BY DEF SaveOverlay, CalculateOverlayMutation, SetMutation, PatchMutation

\* A pending mutation extends the overlay whenever there is one.
LEMMA LocalStays ==
    ASSUME NEW mutation, OverlayApplies, overlay # Nil
    PROVE  ApplyToLocalView(mutation, LocalBase.doc).state = "local"
<1>1. LocalBase.doc.state = "local"
  BY DEF LocalBase, ComputeView, OverlayApplies, ApplyToLocalView, IsValidFor
<1> QED
  BY <1>1 DEF ApplyToLocalView

\* The newest batch stays the newest when the oldest of several leaves.
LEMMA LastOfTail ==
    ASSUME NEW S, NEW q \in Seq(S), q # <<>>
    PROVE  /\ Tail(q) \in Seq(S) /\ Len(Tail(q)) = Len(q) - 1 /\ Len(q) \in Nat \ {0}
           /\ Tail(q) # <<>> => Last(Tail(q)) = Last(q)
           /\ Tail(q) = <<>> => Last(q) = Head(q)
  BY DEF Last

\* The overlay that is left when the oldest batch is answered.
LEMMA OldestAnswered ==
    ASSUME StoreInv, mutationQueue # <<>>,
           RemoveOverlaysForBatchId(Head(mutationQueue).id) # Nil
    PROVE  /\ ~RemoveOverlaysForBatchId(Head(mutationQueue).id).mutation.exists
           /\ Tail(mutationQueue) # <<>>
           /\ RemoveOverlaysForBatchId(Head(mutationQueue).id).largestBatchId
                = Last(Tail(mutationQueue)).id
  BY LastOfTail DEF StoreInv, AnswersToBatches, OverlayApplies, OverlayOfNewest,
                    RemoveOverlaysForBatchId

\* Recalculating over a queue keeps or renews the overlay of that queue.
LEMMA Recalculated ==
    ASSUME NEW queue, NEW doc, NEW old,
           old # Nil => ~old.mutation.exists /\ queue # <<>> /\ old.largestBatchId = Last(queue).id,
           RecalculateAndSaveOverlays(queue, doc, old) # Nil
    PROVE  /\ ~RecalculateAndSaveOverlays(queue, doc, old).mutation.exists
           /\ queue # <<>>
           /\ RecalculateAndSaveOverlays(queue, doc, old).largestBatchId = Last(queue).id
<1> DEFINE view == Replayed(queue, doc)
<1>1. CASE queue = <<>>
  BY <1>1 DEF RecalculateAndSaveOverlays
<1>2. CASE queue # <<>>
  <2>1. RecalculateAndSaveOverlays(queue, doc, old)
            = SaveOverlay(Last(queue).id, view.doc, view.mask, old)
    BY <1>2 DEF RecalculateAndSaveOverlays
  <2> QED
    BY <1>2, <2>1, SavedOverlay
<1> QED
  BY <1>1, <1>2

LEMMA StoreInitInv == StoreInit => StoreInv
  BY DEF StoreInit, StoreInv, AnswersToBatches, OverlayApplies, OverlayOfNewest

\* A step of StoreNext, or one that changes nothing, keeps the invariant.
LEMMA StoreStep == StoreInv /\ [StoreNext]_storeVars => StoreInv'
<1> SUFFICES ASSUME StoreInv, [StoreNext]_storeVars PROVE StoreInv'
  OBVIOUS
<1> USE DEF StoreInv
<1>1. ASSUME NEW mutation \in Updates, WriteLocally(mutation) PROVE StoreInv'
  <2> DEFINE doc == ApplyToLocalView(mutation, LocalBase.doc)
             mask == MergedMask(mutation, LocalBase.doc, LocalBase.mask)
             batch == [id |-> nextBatchId, mutation |-> mutation]
  <2>1. overlay' = SaveOverlay(nextBatchId, doc, mask, overlay)
    BY <1>1 DEF WriteLocally
  <2>2. mutationQueue' = Append(mutationQueue, batch) /\ batch \in Batch
        /\ mutationQueue \in Seq(Batch)
    BY <1>1, LocalStoreAssumption DEF WriteLocally, AnswersToBatches, Batch
  <2>3. mutationQueue' # <<>> /\ Last(mutationQueue').id = nextBatchId
    BY <2>2 DEF Last
  <2>4. overlay' # Nil => overlay'.largestBatchId = nextBatchId /\ ~overlay'.mutation.exists
    BY <2>1, SavedOverlay, LocalStays DEF OverlayApplies
  <2>5. AnswersToBatches'
    BY <1>1, <2>2 DEF WriteLocally, AnswersToBatches
  <2> QED
    BY <2>3, <2>4, <2>5 DEF OverlayApplies, OverlayOfNewest
<1>2. CASE AcknowledgeBatch
  <2>1. mutationQueue # <<>>
    BY <1>2 DEF AcknowledgeBatch, AnswersToBatches
  <2>2. overlay' = RemoveOverlaysForBatchId(Head(mutationQueue).id)
        /\ mutationQueue' = Tail(mutationQueue)
    BY <1>2 DEF AcknowledgeBatch
  <2>3. AnswersToBatches'
    BY <1>2, <2>1 DEF AcknowledgeBatch, AnswersToBatches
  <2> QED
    BY <2>1, <2>2, <2>3, OldestAnswered DEF OverlayApplies, OverlayOfNewest
<1>3. CASE RejectBatch
  <2>1. mutationQueue # <<>>
    BY <1>3 DEF RejectBatch, AnswersToBatches
  <2> DEFINE left == RemoveOverlaysForBatchId(Head(mutationQueue).id)
  <2>2. overlay' = RecalculateAndSaveOverlays(Tail(mutationQueue), remoteDocument, left)
        /\ mutationQueue' = Tail(mutationQueue)
    BY <1>3 DEF RejectBatch
  <2>3. left # Nil => /\ ~left.mutation.exists
                      /\ Tail(mutationQueue) # <<>>
                      /\ left.largestBatchId = Last(Tail(mutationQueue)).id
    BY <2>1, OldestAnswered
  <2>4. AnswersToBatches'
    BY <1>3, <2>1 DEF RejectBatch, AnswersToBatches
  <2> HIDE DEF left
  <2>5. overlay' # Nil => /\ ~overlay'.mutation.exists
                          /\ Tail(mutationQueue) # <<>>
                          /\ overlay'.largestBatchId = Last(Tail(mutationQueue)).id
    BY <2>2, <2>3, Recalculated
  <2> QED
    BY <2>2, <2>4, <2>5 DEF OverlayApplies, OverlayOfNewest
<1>4. CASE ApplyRemoteEvent
  <2>1. UNCHANGED <<mutationQueue, nextBatchId, server, results>>
    BY <1>4 DEF ApplyRemoteEvent
  <2>2. overlay' \in {overlay, RecalculateAndSaveOverlays(mutationQueue, snapshot, overlay)}
    BY <1>4 DEF ApplyRemoteEvent
  <2>3. overlay # Nil => /\ ~overlay.mutation.exists
                         /\ mutationQueue # <<>>
                         /\ overlay.largestBatchId = Last(mutationQueue).id
    BY DEF OverlayApplies, OverlayOfNewest
  <2>4. overlay' # Nil => /\ ~overlay'.mutation.exists
                          /\ mutationQueue # <<>>
                          /\ overlay'.largestBatchId = Last(mutationQueue).id
    BY <2>2, <2>3, Recalculated
  <2> QED
    BY <2>1, <2>4 DEF AnswersToBatches, OverlayApplies, OverlayOfNewest
<1>5. CASE DecideBatch
  <2>1. UNCHANGED <<mutationQueue, nextBatchId, overlay>>
    BY <1>5 DEF DecideBatch
  <2>2. server'.version \in Nat /\ \E result \in Result : results' = Append(results, result)
    <3> DEFINE mutation == mutationQueue[Len(results) + 1].mutation
    <3>1. CASE /\ server' = Commit(mutation)
               /\ results' = Append(results, [ok |-> TRUE, version |-> server'.version])
      <4>1. server'.version \in Nat
        BY <3>1 DEF Commit, AnswersToBatches
      <4> QED
        BY <3>1, <4>1 DEF Result
    <3>2. CASE /\ results' = Append(results, [ok |-> FALSE, version |-> 0])
               /\ UNCHANGED server
      BY <3>2 DEF Result, AnswersToBatches
    <3> QED
      BY <1>5, <3>1, <3>2 DEF DecideBatch
  <2>3. Len(results) < Len(mutationQueue)
    BY <1>5 DEF DecideBatch
  <2> QED
    BY <2>1, <2>2, <2>3 DEF AnswersToBatches, OverlayApplies, OverlayOfNewest
<1>6. CASE LoseResults
  BY <1>6 DEF LoseResults, AnswersToBatches, OverlayApplies, OverlayOfNewest
<1>7. CASE RestartStore
  <2>1. nextBatchId' \in Nat
    <3>1. nextBatchId' = LoadNextBatchIdFromDb
      BY <1>7 DEF RestartStore
    <3>2. mutationQueue # <<>> => mutationQueue[Len(mutationQueue)] \in Batch
      BY DEF AnswersToBatches
    <3>3. mutationQueue # <<>> => Last(mutationQueue).id \in Nat
      BY <3>2 DEF Last, Batch
    <3> QED
      BY <3>1, <3>3 DEF LoadNextBatchIdFromDb
  <2> QED
    BY <1>7, <2>1 DEF RestartStore, AnswersToBatches, OverlayApplies, OverlayOfNewest
<1>8. ASSUME NEW mutation \in Updates, OtherDeviceWrites(mutation) PROVE StoreInv'
  BY <1>8 DEF OtherDeviceWrites, Commit, AnswersToBatches, OverlayApplies, OverlayOfNewest
<1>9. CASE TakeSnapshot \/ UNCHANGED storeVars
  BY <1>9 DEF TakeSnapshot, storeVars, AnswersToBatches, OverlayApplies, OverlayOfNewest
<1> QED
  BY <1>1, <1>2, <1>3, <1>4, <1>5, <1>6, <1>7, <1>8, <1>9 DEF StoreNext

(***************************************************************************)
(* However answers, refusals, snapshots and restarts interleave, an        *)
(* overlay belongs to the newest pending batch of its document: it is      *)
(* removed with that batch, and without pending batches the reader is      *)
(* shown the cached document.                                              *)
(***************************************************************************)
THEOREM OverlaysEnd == StoreSpec => []OverlayOfNewest
<1>1. StoreInv => OverlayOfNewest
  BY DEF StoreInv
<1> QED
  BY StoreInitInv, StoreStep, <1>1, PTL DEF StoreSpec

-----------------------------------------------------------------------------
(***************************************************************************)
(* Induction up to a number, in the form the provers can use: a set of     *)
(* numbers that holds 0 and with each number the next one.                 *)
(***************************************************************************)
LEMMA LeastNumber ==
    ASSUME NEW T, T \subseteq Nat, T # {}
    PROVE  \E n \in T : \A m \in T : n <= m
<1> DEFINE R == OpToRel(<, Nat)
<1>1. IsWellFoundedOn(R, Nat)
  BY NatLessThanWellFounded, Zenon
<1>2. \A x, y \in Nat : y < x => <<y, x>> \in R
  BY DEF OpToRel
<1> HIDE DEF R
<1>3. \E x \in T : \A y \in T : ~(<<y, x>> \in R)
  BY <1>1, WFMin
<1>4. \A x \in T : x \in Nat
  OBVIOUS
<1>5. \A x, y \in T : ~(y < x) => x <= y
  BY <1>4
<1> QED
  BY <1>2, <1>3, <1>4, <1>5

LEMMA InductionTo ==
    ASSUME NEW n \in Nat, NEW G, 0 \in G,
           \A k \in 1 .. n : k - 1 \in G => k \in G
    PROVE  n \in G
<1> DEFINE T == (0 .. n) \ G
<1>1. SUFFICES ASSUME n \notin G PROVE FALSE
  OBVIOUS
<1>2. T \subseteq Nat /\ T # {}
  BY <1>1
<1>3. PICK k \in T : \A m \in T : k <= m
  BY <1>2, LeastNumber
<1>4. k \in 1 .. n /\ k - 1 \in 0 .. n /\ ~(k <= k - 1)
  BY <1>3
<1>5. k - 1 \in G
  BY <1>3, <1>4
<1> QED
  BY <1>3, <1>4, <1>5

-----------------------------------------------------------------------------
(***************************************************************************)
(* What Replayed computes: a view for each number of mutations applied.    *)
(***************************************************************************)
Views(queue, doc, n, view) ==
    [k \in 0 .. n |->
        IF k = 0 THEN [doc |-> doc, mask |-> {}] ELSE Replay(queue[k].mutation, view[k - 1])]

LEMMA ViewsExist ==
    ASSUME NEW queue, NEW doc, NEW n \in Nat
    PROVE  \E view : view = Views(queue, doc, n, view)
<1> DEFINE Has(k) == \E view : view = Views(queue, doc, k, view)
           G == {k \in Nat : Has(k)}
<1>1. 0 \in G
  <2> DEFINE v == [k \in 0 .. 0 |-> [doc |-> doc, mask |-> {}]]
  <2>1. v = Views(queue, doc, 0, v)
    BY DEF Views
  <2> QED
    BY <2>1
<1>2. ASSUME NEW k \in 1 .. n, k - 1 \in G
      PROVE  k \in G
  <2>1. PICK v : v = Views(queue, doc, k - 1, v)
    BY <1>2
  <2> DEFINE w == [i \in 0 .. k |-> IF i = k THEN Replay(queue[k].mutation, v[k - 1]) ELSE v[i]]
             u == Views(queue, doc, k, w)
  <2>2. ASSUME NEW i \in 0 .. k PROVE w[i] = u[i]
    <3>1. u[i] = IF i = 0 THEN [doc |-> doc, mask |-> {}] ELSE Replay(queue[i].mutation, w[i - 1])
      BY DEF Views
    <3>2. CASE i = k
      <4>1. w[i - 1] = v[k - 1] /\ w[i] = Replay(queue[k].mutation, v[k - 1]) /\ i # 0
        BY <3>2
      <4> QED
        BY <3>1, <3>2, <4>1
    <3>3. CASE i # k
      <4>1. i \in 0 .. k - 1 /\ w[i] = v[i]
        BY <3>3
      <4>2. v[i] = IF i = 0 THEN [doc |-> doc, mask |-> {}] ELSE Replay(queue[i].mutation, v[i - 1])
        BY <2>1, <4>1 DEF Views
      <4>3. i # 0 => w[i - 1] = v[i - 1]
        BY <4>1
      <4> QED
        BY <3>1, <4>1, <4>2, <4>3
    <3> QED
      BY <3>2, <3>3
  <2>3. w = u
    BY <2>2 DEF Views
  <2>4. k \in Nat
    OBVIOUS
  <2> QED
    BY <2>3, <2>4
<1> HIDE DEF G
<1>3. n \in G
  BY <1>1, <1>2, InductionTo, Zenon
<1> QED
  BY <1>3 DEF G

LEMMA ReplayedSteps ==
    ASSUME NEW S, NEW queue \in Seq(S), NEW doc
    PROVE  \E view : /\ Replayed(queue, doc) = view[Len(queue)]
                     /\ view[0] = [doc |-> doc, mask |-> {}]
                     /\ \A k \in 1 .. Len(queue) : view[k] = Replay(queue[k].mutation, view[k - 1])
<1> DEFINE n == Len(queue)
           w == CHOOSE v : v = Views(queue, doc, n, v)
<1>1. n \in Nat
  OBVIOUS
<1>2. w = Views(queue, doc, n, w)
  <2>1. \E v : v = Views(queue, doc, n, v)
    BY <1>1, ViewsExist, Zenon
  <2> QED
    BY <2>1, Zenon
<1>3. Replayed(queue, doc) = w[n]
  BY DEF Replayed, Views
<1> HIDE DEF w, n
<1>4. ASSUME NEW k \in 0 .. n
      PROVE  w[k] = IF k = 0 THEN [doc |-> doc, mask |-> {}] ELSE Replay(queue[k].mutation, w[k - 1])
  <2>1. Views(queue, doc, n, w)[k]
            = IF k = 0 THEN [doc |-> doc, mask |-> {}] ELSE Replay(queue[k].mutation, w[k - 1])
    BY DEF Views
  <2> QED
    BY <1>2, <2>1, Zenon
<1>5. 0 \in 0 .. n /\ \A k \in 1 .. n : k \in 0 .. n /\ k # 0
  BY <1>1
<1> QED
  BY <1>3, <1>4, <1>5 DEF n

-----------------------------------------------------------------------------
(***************************************************************************)
(* Single mutations.                                                       *)
(***************************************************************************)
Mask == (SUBSET Fields) \cup {Nil}

View == [doc : Document, mask : Mask]

Found(doc) == doc.kind = "found"

Writes(mutation, f) == mutation.type = "set" \/ f \in mutation.mask

LEMMA UpdateParts ==
    ASSUME NEW mutation \in Updates
    PROVE  /\ mutation \in Mutation /\ mutation.data \in Data
           /\ \/ mutation.type = "set" /\ ~mutation.exists
              \/ mutation.type = "patch" /\ mutation.exists /\ mutation.mask \in SUBSET Fields
<1>1. mutation \in Mutation /\ (IsSetData(mutation) \/ IsUpdateData(mutation))
  BY LocalStoreAssumption, Zenon
<1> QED
  BY <1>1 DEF Mutation, IsSetData, IsUpdateData

LEMMA AppliedTyped ==
    ASSUME NEW mutation \in Mutation, NEW data \in Data
    PROVE  Applied(mutation, data) \in Data
BY DEF Applied, Mutation, Data

LEMMA LocalViewTyped ==
    ASSUME NEW mutation \in Mutation, NEW doc \in Document
    PROVE  ApplyToLocalView(mutation, doc) \in Document
<1>1. Applied(mutation, doc.data) \in Data
  BY AppliedTyped DEF Document
<1> QED
  BY <1>1 DEF ApplyToLocalView, Document

\* What the local view shows after a setData or updateData.
LEMMA LocalViewShows ==
    ASSUME NEW mutation \in Updates, NEW doc \in Document
    PROVE  LET new == ApplyToLocalView(mutation, doc)
           IN  /\ mutation.type # "set" /\ ~Found(doc) => new = doc
               /\ mutation.type = "set" \/ Found(doc) =>
                     /\ Found(new) /\ new.state = "local"
                     /\ \A f \in Fields : new.data[f] = IF Writes(mutation, f) THEN mutation.data[f]
                                                                             ELSE doc.data[f]
<1>1. CASE mutation.type # "set" /\ ~Found(doc)
  BY <1>1, UpdateParts DEF ApplyToLocalView, IsValidFor, Found
<1>2. CASE mutation.type = "set" \/ Found(doc)
  <2>1. IsValidFor(mutation, doc)
    BY <1>2, UpdateParts DEF IsValidFor, Found
  <2> DEFINE data == Applied(mutation, doc.data)
  <2>2. \A f \in Fields : data[f] = IF Writes(mutation, f) THEN mutation.data[f] ELSE doc.data[f]
    BY UpdateParts DEF Applied, Writes
  <2> HIDE DEF data
  <2>3. ApplyToLocalView(mutation, doc)
            = [kind |-> "found", version |-> 0, data |-> data, state |-> "local"]
    BY <2>1 DEF ApplyToLocalView, data
  <2> QED
    BY <1>2, <2>2, <2>3 DEF Found
<1> QED
  BY <1>1, <1>2

\* Which fields are changed so far.
LEMMA MaskGrows ==
    ASSUME NEW mutation \in Updates, NEW doc \in Document, NEW mask \in Mask
    PROVE  LET new == MergedMask(mutation, doc, mask)
           IN  /\ new \in Mask
               /\ mutation.type # "set" /\ ~Found(doc) => new = mask
               /\ mutation.type = "set" => new = Nil
               /\ mask = Nil => new = Nil
               /\ mutation.type # "set" /\ Found(doc) /\ mask # Nil =>
                     new = mask \cup mutation.mask /\ new # Nil
<1>1. \A m \in SUBSET Fields : m # Nil
  BY LocalStoreAssumption, Zenon
<1> QED
  BY <1>1, UpdateParts DEF MergedMask, IsValidFor, Found, Mask

LEMMA ReplayTyped ==
    ASSUME NEW mutation \in Updates, NEW view \in View
    PROVE  Replay(mutation, view) \in View
<1>1. view.doc \in Document /\ view.mask \in Mask
  BY DEF View
<1>2. ApplyToLocalView(mutation, view.doc) \in Document
  BY <1>1, UpdateParts, LocalViewTyped
<1>3. MergedMask(mutation, view.doc, view.mask) \in Mask
  BY <1>1, MaskGrows
<1> QED
  BY <1>2, <1>3 DEF Replay, View

-----------------------------------------------------------------------------
(***************************************************************************)
(* All pending mutations.                                                  *)
(***************************************************************************)
UpdateQueue == {queue \in Seq(Batch) : \A i \in DOMAIN queue : queue[i].mutation \in Updates}

HasSet(queue) == \E i \in DOMAIN queue : queue[i].mutation.type = "set"

UnwrittenAfter(queue, i, f) == \A j \in i + 1 .. Len(queue) : ~Writes(queue[j].mutation, f)

\* The fields nobody writes after the i-th mutation have these values.
UnwrittenAgree(queue, i, doc, data) ==
    \A f \in Fields : UnwrittenAfter(queue, i, f) => doc.data[f] = data[f]

\* The other fields have the value of the last mutation that writes them.
LastWritesAgree(queue, data) ==
    \A i \in DOMAIN queue, f \in Fields :
        Writes(queue[i].mutation, f) /\ UnwrittenAfter(queue, i, f) =>
            data[f] = queue[i].mutation.data[f]

LEMMA ReplayedTyped ==
    ASSUME NEW queue \in UpdateQueue, NEW doc \in Document
    PROVE  Replayed(queue, doc) \in View
<1>1. queue \in Seq(Batch) /\ Len(queue) \in Nat /\ DOMAIN queue = 1 .. Len(queue)
      /\ \A i \in DOMAIN queue : queue[i].mutation \in Updates
  BY DEF UpdateQueue
<1>2. PICK view : /\ Replayed(queue, doc) = view[Len(queue)]
                  /\ view[0] = [doc |-> doc, mask |-> {}]
                  /\ \A k \in 1 .. Len(queue) : view[k] = Replay(queue[k].mutation, view[k - 1])
  BY <1>1, ReplayedSteps
<1> DEFINE n == Len(queue)
           G == {k \in Nat : view[k] \in View}
<1>3. 0 \in G
  BY <1>2 DEF View, Mask
<1>4. ASSUME NEW k \in 1 .. n, k - 1 \in G
      PROVE  k \in G
  <2>1. view[k - 1] \in View /\ queue[k].mutation \in Updates /\ k \in Nat
    BY <1>1, <1>4
  <2> QED
    BY <1>2, <2>1, ReplayTyped
<1>5. n \in Nat
  BY <1>1
<1> HIDE DEF G, n
<1>6. n \in G
  BY <1>3, <1>4, <1>5, InductionTo, Zenon
<1> QED
  BY <1>2, <1>6 DEF G, n

\* Without a document and without a set nothing is shown.
LEMMA ReplayedNothing ==
    ASSUME NEW queue \in UpdateQueue, NEW doc \in Document, ~Found(doc), ~HasSet(queue)
    PROVE  Replayed(queue, doc).doc = doc
<1>1. queue \in Seq(Batch) /\ Len(queue) \in Nat /\ DOMAIN queue = 1 .. Len(queue)
      /\ \A i \in DOMAIN queue : queue[i].mutation \in Updates
  BY DEF UpdateQueue
<1>2. PICK view : /\ Replayed(queue, doc) = view[Len(queue)]
                  /\ view[0] = [doc |-> doc, mask |-> {}]
                  /\ \A k \in 1 .. Len(queue) : view[k] = Replay(queue[k].mutation, view[k - 1])
  BY <1>1, ReplayedSteps
<1> DEFINE n == Len(queue)
           G == {k \in Nat : view[k].doc = doc}
<1>3. 0 \in G
  BY <1>2
<1>4. ASSUME NEW k \in 1 .. n, k - 1 \in G
      PROVE  k \in G
  <2>1. /\ view[k - 1].doc = doc /\ k \in Nat
        /\ queue[k].mutation \in Updates /\ queue[k].mutation.type # "set"
    BY <1>1, <1>4 DEF HasSet
  <2>2. view[k].doc = ApplyToLocalView(queue[k].mutation, view[k - 1].doc)
    <3>1. view[k] = Replay(queue[k].mutation, view[k - 1])
      BY <1>2
    <3> QED
      BY <3>1 DEF Replay
  <2> QED
    BY <2>1, <2>2, LocalViewShows
<1>5. n \in Nat
  BY <1>1
<1> HIDE DEF G, n
<1>6. n \in G
  BY <1>3, <1>4, <1>5, InductionTo, Zenon
<1> QED
  BY <1>2, <1>6 DEF G, n

\* Otherwise the document shows the data that agrees with it and with the last writes.
LEMMA ReplayedShows ==
    ASSUME NEW queue \in UpdateQueue, NEW doc \in Document, NEW data \in Data,
           Found(doc) \/ HasSet(queue),
           Found(doc) => UnwrittenAgree(queue, 0, doc, data),
           LastWritesAgree(queue, data)
    PROVE  LET view == Replayed(queue, doc)
           IN  /\ Found(view.doc) /\ view.doc.data = data
               /\ queue # <<>> => view.doc.state = "local"
<1>1. queue \in Seq(Batch) /\ Len(queue) \in Nat /\ DOMAIN queue = 1 .. Len(queue)
      /\ \A i \in DOMAIN queue : queue[i].mutation \in Updates
  BY DEF UpdateQueue
<1>2. PICK view : /\ Replayed(queue, doc) = view[Len(queue)]
                  /\ view[0] = [doc |-> doc, mask |-> {}]
                  /\ \A k \in 1 .. Len(queue) : view[k] = Replay(queue[k].mutation, view[k - 1])
  BY <1>1, ReplayedSteps
<1> DEFINE n == Len(queue)
           Sets(k) == \E i \in 1 .. k : queue[i].mutation.type = "set"
           Good(k) == /\ view[k] \in View
                      /\ Found(doc) \/ Sets(k) =>
                            /\ Found(view[k].doc)
                            /\ UnwrittenAgree(queue, k, view[k].doc, data)
                            /\ k > 0 => view[k].doc.state = "local"
                      /\ ~Found(doc) /\ ~Sets(k) => ~Found(view[k].doc)
           G == {k \in Nat : Good(k)}
<1>3. 0 \in G
  <2>1. view[0] \in View /\ view[0].doc = doc
    BY <1>2 DEF View, Mask
  <2>2. ~Sets(0)
    OBVIOUS
  <2> QED
    BY <2>1, <2>2
<1>4. ASSUME NEW k \in 1 .. n, k - 1 \in G
      PROVE  k \in G
  <2> DEFINE m == queue[k].mutation
             old == view[k - 1].doc
             new == view[k].doc
  <2>1. m \in Updates /\ view[k - 1] \in View /\ k \in Nat /\ k > 0
    BY <1>1, <1>4
  <2>2. view[k] \in View /\ new = ApplyToLocalView(m, old) /\ old \in Document
    <3>1. view[k] = Replay(m, view[k - 1])
      BY <1>2
    <3> QED
      BY <2>1, <3>1, ReplayTyped DEF Replay, View
  <2>3. Sets(k) <=> Sets(k - 1) \/ m.type = "set"
    <3>1. \A i \in 1 .. k : i = k \/ i \in 1 .. k - 1
      OBVIOUS
    <3>2. \A i \in 1 .. k - 1 : i \in 1 .. k
      OBVIOUS
    <3>3. k \in 1 .. k
      OBVIOUS
    <3> QED
      BY <3>1, <3>2, <3>3, Zenon
  <2>4. /\ Found(doc) \/ Sets(k - 1) => Found(old) /\ UnwrittenAgree(queue, k - 1, old, data)
        /\ ~Found(doc) /\ ~Sets(k - 1) => ~Found(old)
    BY <1>4
  <2>5. CASE ~Found(doc) /\ ~Sets(k)
    <3>1. m.type # "set" /\ ~Found(old)
      BY <2>3, <2>4, <2>5
    <3>2. new = old
      BY <2>1, <2>2, <3>1, LocalViewShows
    <3> HIDE DEF Sets, new, old
    <3> QED
      BY <2>1, <2>2, <2>5, <3>1, <3>2 DEF new
  <2>6. CASE Found(doc) \/ Sets(k)
    <3>1. m.type = "set" \/ Found(old)
      BY <2>3, <2>4, <2>6
    <3>2. /\ Found(new) /\ new.state = "local"
          /\ \A f \in Fields : new.data[f] = IF Writes(m, f) THEN m.data[f] ELSE old.data[f]
      BY <2>1, <2>2, <3>1, LocalViewShows
    <3>3. ASSUME NEW f \in Fields, UnwrittenAfter(queue, k, f)
          PROVE  new.data[f] = data[f]
      <4>1. CASE Writes(m, f)
        BY <1>1, <3>2, <3>3, <4>1 DEF LastWritesAgree
      <4>2. CASE ~Writes(m, f)
        <5>1. Found(old) /\ UnwrittenAgree(queue, k - 1, old, data)
          BY <2>3, <2>4, <2>6, <4>2 DEF Writes
        <5>2. UnwrittenAfter(queue, k - 1, f)
          <6>1. \A j \in (k - 1) + 1 .. Len(queue) : j = k \/ j \in k + 1 .. Len(queue)
            BY <1>1
          <6> QED
            BY <3>3, <4>2, <6>1 DEF UnwrittenAfter
        <5> QED
          BY <3>2, <4>2, <5>1, <5>2 DEF UnwrittenAgree
      <4> QED
        BY <4>1, <4>2
    <3>4. UnwrittenAgree(queue, k, new, data)
      BY <3>3 DEF UnwrittenAgree
    <3> HIDE DEF Sets, new, old
    <3> QED
      BY <2>1, <2>2, <2>6, <3>2, <3>4 DEF new
  <2> QED
    BY <2>5, <2>6
<1>5. n \in Nat
  BY <1>1
<1> HIDE DEF G, n
<1>6. n \in G
  BY <1>3, <1>4, <1>5, InductionTo, Zenon
<1>7. /\ view[n] \in View /\ Found(view[n].doc)
      /\ UnwrittenAgree(queue, n, view[n].doc, data)
      /\ n > 0 => view[n].doc.state = "local"
  BY <1>1, <1>6 DEF G, n, HasSet
<1>8. \A f \in Fields : view[n].doc.data[f] = data[f]
  <2>1. \A f \in Fields : UnwrittenAfter(queue, n, f)
    BY <1>1, <1>5 DEF UnwrittenAfter, n
  <2> QED
    BY <1>7, <2>1 DEF UnwrittenAgree
<1>9. view[n].doc.data = data
  <2>1. view[n].doc.data \in Data
    BY <1>7 DEF View, Document
  <2> QED
    BY <1>8, <2>1 DEF Data
<1>10. queue # <<>> => n > 0
  BY <1>1 DEF n
<1> QED
  BY <1>2, <1>7, <1>9, <1>10 DEF n

\* The fields that are changed when no set is among the mutations.
LEMMA ReplayedMask ==
    ASSUME NEW queue \in UpdateQueue, NEW doc \in Document, Found(doc), ~HasSet(queue)
    PROVE  LET mask == Replayed(queue, doc).mask
           IN  /\ mask \in SUBSET Fields /\ mask # Nil
               /\ \A f \in Fields : f \notin mask => UnwrittenAfter(queue, 0, f)
<1>1. queue \in Seq(Batch) /\ Len(queue) \in Nat /\ DOMAIN queue = 1 .. Len(queue)
      /\ \A i \in DOMAIN queue : queue[i].mutation \in Updates
  BY DEF UpdateQueue
<1>2. PICK view : /\ Replayed(queue, doc) = view[Len(queue)]
                  /\ view[0] = [doc |-> doc, mask |-> {}]
                  /\ \A k \in 1 .. Len(queue) : view[k] = Replay(queue[k].mutation, view[k - 1])
  BY <1>1, ReplayedSteps
<1>0. \A mask \in SUBSET Fields : mask # Nil
  BY LocalStoreAssumption, Zenon
<1> DEFINE n == Len(queue)
           Good(k) == /\ view[k] \in View /\ Found(view[k].doc)
                      /\ view[k].mask # Nil
                      /\ \A i \in 1 .. k : queue[i].mutation.mask \subseteq view[k].mask
           G == {k \in Nat : Good(k)}
<1>3. 0 \in G
  BY <1>0, <1>2 DEF View, Mask
<1>4. ASSUME NEW k \in 1 .. n, k - 1 \in G
      PROVE  k \in G
  <2> DEFINE m == queue[k].mutation
             old == view[k - 1]
  <2>1. m \in Updates /\ m.type # "set" /\ old \in View /\ k \in Nat
    BY <1>1, <1>4 DEF HasSet
  <2>2. Found(old.doc) /\ old.mask # Nil /\ old.doc \in Document /\ old.mask \in Mask
    BY <1>4, <2>1 DEF View
  <2>3. /\ view[k] \in View
        /\ view[k].doc = ApplyToLocalView(m, old.doc)
        /\ view[k].mask = MergedMask(m, old.doc, old.mask)
    <3>1. view[k] = Replay(m, old)
      BY <1>2
    <3> QED
      BY <2>1, <3>1, ReplayTyped DEF Replay, View
  <2>4. Found(view[k].doc)
    BY <2>1, <2>2, <2>3, LocalViewShows
  <2>5. view[k].mask # Nil /\ m.mask \subseteq view[k].mask /\ old.mask \subseteq view[k].mask
    BY <2>1, <2>2, <2>3, MaskGrows
  <2>6. ASSUME NEW i \in 1 .. k
        PROVE  queue[i].mutation.mask \subseteq view[k].mask
    <3>1. CASE i = k
      BY <2>5, <3>1
    <3>2. CASE i # k
      <4>1. queue[i].mutation.mask \subseteq old.mask
        BY <1>4, <3>2
      <4> QED
        BY <2>5, <4>1
    <3> QED
      BY <3>1, <3>2
  <2> QED
    BY <2>1, <2>3, <2>4, <2>5, <2>6
<1>5. n \in Nat
  BY <1>1
<1> HIDE DEF G, n
<1>6. n \in G
  BY <1>3, <1>4, <1>5, InductionTo, Zenon
<1>7. /\ view[n] \in View /\ view[n].mask # Nil
      /\ \A i \in 1 .. n : queue[i].mutation.mask \subseteq view[n].mask
  BY <1>6 DEF G
<1>8. view[n].mask \in SUBSET Fields
  BY <1>7 DEF View, Mask
<1>9. ASSUME NEW f \in Fields, f \notin view[n].mask
      PROVE  UnwrittenAfter(queue, 0, f)
  <2>1. \A j \in 0 + 1 .. Len(queue) : j \in 1 .. n /\ j \in DOMAIN queue
    BY <1>1 DEF n
  <2> QED
    BY <1>7, <1>9, <2>1 DEF UnwrittenAfter, Writes, HasSet
<1> QED
  BY <1>2, <1>7, <1>8, <1>9 DEF n

\* A set among them leaves no mask.
LEMMA ReplayedNoMask ==
    ASSUME NEW queue \in UpdateQueue, NEW doc \in Document, HasSet(queue)
    PROVE  Replayed(queue, doc).mask = Nil
<1>1. queue \in Seq(Batch) /\ Len(queue) \in Nat /\ DOMAIN queue = 1 .. Len(queue)
      /\ \A i \in DOMAIN queue : queue[i].mutation \in Updates
  BY DEF UpdateQueue
<1>2. PICK view : /\ Replayed(queue, doc) = view[Len(queue)]
                  /\ view[0] = [doc |-> doc, mask |-> {}]
                  /\ \A k \in 1 .. Len(queue) : view[k] = Replay(queue[k].mutation, view[k - 1])
  BY <1>1, ReplayedSteps
<1>3. PICK s \in 1 .. Len(queue) : queue[s].mutation.type = "set"
  BY <1>1 DEF HasSet
<1> DEFINE n == Len(queue)
           G == {k \in Nat : view[k] \in View /\ (s <= k => view[k].mask = Nil)}
<1>4. 0 \in G
  BY <1>2 DEF View, Mask
<1>5. ASSUME NEW k \in 1 .. n, k - 1 \in G
      PROVE  k \in G
  <2> DEFINE m == queue[k].mutation
             old == view[k - 1]
  <2>1. m \in Updates /\ old \in View /\ k \in Nat /\ (s <= k - 1 => old.mask = Nil)
    BY <1>1, <1>5
  <2>2. /\ view[k] \in View
        /\ view[k].mask = MergedMask(m, old.doc, old.mask)
        /\ old.doc \in Document /\ old.mask \in Mask
    <3>1. view[k] = Replay(m, old)
      BY <1>2
    <3> QED
      BY <2>1, <3>1, ReplayTyped DEF Replay, View
  <2>3. m.type = "set" \/ old.mask = Nil => view[k].mask = Nil
    BY <2>1, <2>2, MaskGrows
  <2>4. s <= k => s = k \/ s <= k - 1
    OBVIOUS
  <2> QED
    BY <1>3, <2>1, <2>2, <2>3, <2>4
<1>6. n \in Nat
  BY <1>1
<1>7. s <= n
  OBVIOUS
<1> HIDE DEF G, n
<1>8. n \in G
  BY <1>4, <1>5, <1>6, InductionTo, Zenon
<1> QED
  BY <1>2, <1>7, <1>8 DEF G, n

-----------------------------------------------------------------------------
(***************************************************************************)
(* Types.                                                                  *)
(***************************************************************************)
TypedInv == StoreTypeOK /\ mutationQueue \in UpdateQueue

LEMMA TypedFacts ==
    ASSUME TypedInv
    PROVE  /\ remoteDocument \in Document /\ server \in Document
           /\ mutationQueue \in Seq(Batch) /\ mutationQueue \in UpdateQueue
           /\ Len(mutationQueue) \in Nat /\ DOMAIN mutationQueue = 1 .. Len(mutationQueue)
           /\ \A i \in DOMAIN mutationQueue : mutationQueue[i].mutation \in Updates
           /\ results \in Seq(Result) /\ Len(results) \in Nat
           /\ DOMAIN results = 1 .. Len(results) /\ Len(results) <= Len(mutationQueue)
           /\ nextBatchId \in Nat
           /\ overlay \in Overlay \cup {Nil}
           /\ snapshot \in Document \cup {Nil} /\ promised \in Document \cup {Nil}
BY DEF TypedInv, StoreTypeOK, UpdateQueue

LEMMA OverlayTyped ==
    ASSUME NEW id \in Nat, NEW doc \in Document, NEW mask \in Mask, NEW old \in Overlay \cup {Nil}
    PROVE  SaveOverlay(id, doc, mask, old) \in Overlay \cup {Nil}
<1>1. CalculateOverlayMutation(doc, mask) \in Mutation
  <2>1. doc.data \in Data
    BY DEF Document
  <2>2. SetMutation(doc.data) \in Mutation
    BY <2>1 DEF SetMutation, Mutation
  <2>3. mask # Nil => PatchMutation(doc.data, mask, FALSE) \in Mutation
    BY <2>1 DEF PatchMutation, Mutation, Mask, Data
  <2> QED
    BY <2>2, <2>3 DEF CalculateOverlayMutation
<1> QED
  BY <1>1 DEF SaveOverlay, Overlay

LEMMA RecalculatedTyped ==
    ASSUME NEW queue \in UpdateQueue, NEW doc \in Document, NEW old \in Overlay \cup {Nil}
    PROVE  RecalculateAndSaveOverlays(queue, doc, old) \in Overlay \cup {Nil}
<1>1. CASE queue = <<>>
  BY <1>1 DEF RecalculateAndSaveOverlays
<1>2. CASE queue # <<>>
  <2>1. Last(queue).id \in Nat
    <3>1. queue \in Seq(Batch) /\ queue[Len(queue)] \in Batch
      BY <1>2 DEF UpdateQueue
    <3> QED
      BY <3>1 DEF Last, Batch
  <2>2. Replayed(queue, doc).doc \in Document /\ Replayed(queue, doc).mask \in Mask
    BY ReplayedTyped DEF View
  <2> QED
    BY <1>2, <2>1, <2>2, OverlayTyped DEF RecalculateAndSaveOverlays
<1> QED
  BY <1>1, <1>2

LEMMA LocalBaseTyped ==
    ASSUME TypedInv
    PROVE  LocalBase.doc \in Document /\ LocalBase.mask \in Mask
<1>1. CASE overlay = Nil
  BY <1>1, TypedFacts DEF LocalBase, ComputeView, Mask
<1>2. CASE overlay # Nil
  <2>1. overlay.mutation \in Mutation /\ overlay.mutation.mask \in Mask
    BY <1>2, TypedFacts DEF Overlay, Mutation, Mask
  <2>2. ApplyToLocalView(overlay.mutation, remoteDocument) \in Document
    BY <2>1, TypedFacts, LocalViewTyped
  <2> QED
    BY <1>2, <2>1, <2>2 DEF LocalBase, ComputeView
<1> QED
  BY <1>1, <1>2

\* A batch is added at the end of the queue, or the oldest one leaves.
LEMMA QueueGrows ==
    ASSUME NEW queue \in UpdateQueue, NEW id \in Nat, NEW mutation \in Updates
    PROVE  LET new == Append(queue, [id |-> id, mutation |-> mutation])
           IN  /\ new \in UpdateQueue /\ new # <<>> /\ Len(new) = Len(queue) + 1
               /\ \A i \in 1 .. Len(queue) : new[i] = queue[i]
               /\ new[Len(queue) + 1].mutation = mutation
<1> DEFINE batch == [id |-> id, mutation |-> mutation]
           new == Append(queue, batch)
<1>1. batch \in Batch /\ batch.mutation = mutation
  BY UpdateParts DEF Batch
<1>2. queue \in Seq(Batch) /\ \A i \in 1 .. Len(queue) : queue[i].mutation \in Updates
  BY DEF UpdateQueue
<1> HIDE DEF batch
<1>3. /\ new \in Seq(Batch) /\ new # <<>> /\ Len(new) = Len(queue) + 1
      /\ \A i \in 1 .. Len(queue) : new[i] = queue[i]
      /\ new[Len(queue) + 1] = batch
  BY <1>1, <1>2
<1>4. new \in UpdateQueue
  <2>1. \A i \in DOMAIN new : i \in 1 .. Len(queue) \/ i = Len(queue) + 1
    BY <1>2, <1>3
  <2> QED
    BY <1>1, <1>2, <1>3, <2>1 DEF UpdateQueue
<1> QED
  BY <1>1, <1>3, <1>4 DEF batch

LEMMA QueueShrinks ==
    ASSUME NEW queue \in UpdateQueue, queue # <<>>
    PROVE  /\ Tail(queue) \in UpdateQueue /\ Len(Tail(queue)) = Len(queue) - 1 /\ Len(queue) > 0
           /\ \A i \in 1 .. Len(queue) - 1 : Tail(queue)[i] = queue[i + 1]
           /\ Head(queue) = queue[1] /\ 1 \in DOMAIN queue
<1>1. queue \in Seq(Batch) /\ \A i \in 1 .. Len(queue) : queue[i].mutation \in Updates
  BY DEF UpdateQueue
<1>2. /\ Tail(queue) \in Seq(Batch) /\ Len(Tail(queue)) = Len(queue) - 1 /\ Len(queue) > 0
      /\ Len(queue) \in Nat
      /\ \A i \in 1 .. Len(queue) - 1 : Tail(queue)[i] = queue[i + 1]
      /\ Head(queue) = queue[1] /\ 1 \in DOMAIN queue
      /\ DOMAIN Tail(queue) = 1 .. Len(Tail(queue))
  BY <1>1
<1>3. \A i \in DOMAIN Tail(queue) : Tail(queue)[i].mutation \in Updates
  <2> DEFINE n == Len(queue)
  <2>1. n \in Nat /\ DOMAIN Tail(queue) = 1 .. n - 1
    BY <1>2
  <2> HIDE DEF n
  <2>2. \A i \in 1 .. n - 1 : i + 1 \in 1 .. n
    BY <2>1
  <2> QED
    BY <1>1, <1>2, <2>1, <2>2 DEF n
<1> QED
  BY <1>2, <1>3 DEF UpdateQueue

LEMMA StoreInitTyped == StoreInit => TypedInv
<1> SUFFICES ASSUME StoreInit PROVE TypedInv
  OBVIOUS
<1>1. PICK kind \in {"found", "none"}, data \in Data :
          server = [kind |-> kind, version |-> 1, data |-> data, state |-> "synced"]
  BY DEF StoreInit
<1>2. server \in Document
  BY <1>1 DEF Document
<1>3. InvalidDocument \in Document
  BY DEF InvalidDocument, Document, NoData, Data
<1>4. mutationQueue \in UpdateQueue
  BY DEF StoreInit, UpdateQueue
<1> QED
  BY <1>2, <1>3, <1>4 DEF StoreInit, TypedInv, StoreTypeOK

LEMMA CommitTyped ==
    ASSUME server \in Document, NEW mutation \in Mutation
    PROVE  Commit(mutation) \in Document
<1>1. server.data \in Data /\ server.version + 1 \in Nat
  BY DEF Document
<1>2. Applied(mutation, server.data) \in Data
  BY <1>1, AppliedTyped
<1> QED
  BY <1>1, <1>2 DEF Commit, Document

LEMMA RemoteTyped ==
    ASSUME NEW mutation \in Mutation, NEW doc \in Document, NEW version \in Nat
    PROVE  ApplyToRemoteDocument(mutation, doc, version) \in Document
<1>1. Applied(mutation, doc.data) \in Data /\ NoData \in Data
  BY AppliedTyped DEF Document, NoData, Data
<1> QED
  BY <1>1 DEF ApplyToRemoteDocument, Document

LEMMA TypedStep == TypedInv /\ [StoreNext]_storeVars => TypedInv'
<1> SUFFICES ASSUME TypedInv, [StoreNext]_storeVars PROVE TypedInv'
  OBVIOUS
<1>0. /\ remoteDocument \in Document /\ server \in Document
      /\ mutationQueue \in Seq(Batch) /\ mutationQueue \in UpdateQueue
      /\ Len(mutationQueue) \in Nat
      /\ results \in Seq(Result) /\ Len(results) \in Nat /\ Len(results) <= Len(mutationQueue)
      /\ nextBatchId \in Nat /\ overlay \in Overlay \cup {Nil}
      /\ snapshot \in Document \cup {Nil} /\ promised \in Document \cup {Nil}
  BY TypedFacts
<1> DEFINE Rest == /\ remoteDocument' \in Document /\ server' \in Document
                   /\ mutationQueue' \in UpdateQueue
                   /\ results' \in Seq(Result) /\ Len(results') <= Len(mutationQueue')
                   /\ nextBatchId' \in Nat /\ overlay' \in Overlay \cup {Nil}
                   /\ snapshot' \in Document \cup {Nil} /\ promised' \in Document \cup {Nil}
<1>1. SUFFICES Rest
  BY <1>1 DEF TypedInv, StoreTypeOK, UpdateQueue
<1>2. ASSUME NEW mutation \in Updates, WriteLocally(mutation) PROVE Rest
  <2> DEFINE doc == ApplyToLocalView(mutation, LocalBase.doc)
             mask == MergedMask(mutation, LocalBase.doc, LocalBase.mask)
  <2>1. overlay' = SaveOverlay(nextBatchId, doc, mask, overlay)
    BY <1>2 DEF WriteLocally
  <2>2. doc \in Document /\ mask \in Mask
    BY LocalBaseTyped, UpdateParts, LocalViewTyped, MaskGrows
  <2> HIDE DEF doc, mask
  <2>3. overlay' \in Overlay \cup {Nil}
    BY <1>0, <2>1, <2>2, OverlayTyped
  <2>4. mutationQueue' \in UpdateQueue /\ Len(mutationQueue') = Len(mutationQueue) + 1
    BY <1>0, <1>2, QueueGrows DEF WriteLocally
  <2>5. promised' \in Document \cup {Nil}
    BY <1>0, <1>2, UpdateParts, LocalViewTyped DEF WriteLocally
  <2>6. UNCHANGED <<remoteDocument, server, results, snapshot>> /\ nextBatchId' = nextBatchId + 1
    BY <1>2 DEF WriteLocally
  <2> QED
    BY <1>0, <2>3, <2>4, <2>5, <2>6
<1>3. ASSUME AcknowledgeBatch \/ RejectBatch PROVE Rest
  <2>1. results # <<>> /\ mutationQueue' = Tail(mutationQueue) /\ results' = Tail(results)
        /\ UNCHANGED <<nextBatchId, server, snapshot, promised>>
    BY <1>3 DEF AcknowledgeBatch, RejectBatch
  <2>2. mutationQueue # <<>>
    BY <1>0, <2>1
  <2>3. /\ mutationQueue' \in UpdateQueue /\ Len(mutationQueue') = Len(mutationQueue) - 1
        /\ Head(mutationQueue) = mutationQueue[1] /\ mutationQueue[1].mutation \in Mutation
    BY <1>0, <2>1, <2>2, QueueShrinks, UpdateParts DEF UpdateQueue
  <2>4. results' \in Seq(Result) /\ Len(results') = Len(results) - 1 /\ Head(results) \in Result
    BY <1>0, <2>1
  <2>5. RemoveOverlaysForBatchId(Head(mutationQueue).id) \in Overlay \cup {Nil}
    BY <1>0 DEF RemoveOverlaysForBatchId
  <2>6. CASE AcknowledgeBatch
    <3>1. overlay' \in Overlay \cup {Nil}
      BY <2>5, <2>6 DEF AcknowledgeBatch
    <3>2. remoteDocument' \in Document
      <4>1. Head(results).version \in Nat
        BY <2>4 DEF Result
      <4>2. ApplyToRemoteDocument(Head(mutationQueue).mutation, remoteDocument, Head(results).version)
                \in Document
        BY <1>0, <2>3, <4>1, RemoteTyped
      <4> QED
        BY <1>0, <2>6, <4>2 DEF AcknowledgeBatch
    <3> QED
      BY <1>0, <2>1, <2>3, <2>4, <3>1, <3>2
  <2>7. CASE RejectBatch
    <3>1. overlay' \in Overlay \cup {Nil} /\ remoteDocument' = remoteDocument
      BY <1>0, <2>1, <2>3, <2>5, <2>7, RecalculatedTyped DEF RejectBatch
    <3> QED
      BY <1>0, <2>1, <2>3, <2>4, <3>1
  <2> QED
    BY <1>3, <2>6, <2>7
<1>4. ASSUME ApplyRemoteEvent PROVE Rest
  <2>1. snapshot \in Document /\ UNCHANGED <<mutationQueue, nextBatchId, server, results, promised>>
        /\ snapshot' = Nil
    BY <1>0, <1>4 DEF ApplyRemoteEvent
  <2>2. RecalculateAndSaveOverlays(mutationQueue, snapshot, overlay) \in Overlay \cup {Nil}
    BY <1>0, <2>1, RecalculatedTyped
  <2>3. /\ remoteDocument' \in {remoteDocument, snapshot}
        /\ overlay' \in {overlay, RecalculateAndSaveOverlays(mutationQueue, snapshot, overlay)}
    BY <1>4 DEF ApplyRemoteEvent
  <2> QED
    BY <1>0, <2>1, <2>2, <2>3
<1>5. ASSUME DecideBatch PROVE Rest
  <2> DEFINE mutation == mutationQueue[Len(results) + 1].mutation
  <2>1. Len(results) < Len(mutationQueue) /\ mutation \in Mutation
        /\ UNCHANGED <<remoteDocument, mutationQueue, nextBatchId, overlay, snapshot>>
    BY <1>0, <1>5, UpdateParts DEF DecideBatch, UpdateQueue
  <2>2. Commit(mutation) \in Document
    BY <1>0, <2>1, CommitTyped
  <2> HIDE DEF mutation
  <2>3. server' \in Document /\ server'.version \in Nat /\ promised' \in Document \cup {Nil}
    BY <1>0, <1>5, <2>2 DEF DecideBatch, mutation, Document
  <2>4. \E result \in Result : results' = Append(results, result)
    BY <1>5, <2>3 DEF DecideBatch, Result
  <2> QED
    BY <1>0, <2>1, <2>3, <2>4
<1>6. ASSUME TakeSnapshot PROVE Rest
  BY <1>0, <1>6 DEF TakeSnapshot
<1>7. ASSUME LoseResults PROVE Rest
  BY <1>0, <1>7 DEF LoseResults
<1>8. ASSUME NEW mutation \in Updates, OtherDeviceWrites(mutation) PROVE Rest
  <2>1. Commit(mutation) \in Document
    BY <1>0, UpdateParts, CommitTyped
  <2> QED
    BY <1>0, <1>8, <2>1 DEF OtherDeviceWrites
<1>9. ASSUME RestartStore PROVE Rest
  <2>1. nextBatchId' \in Nat
    <3>1. mutationQueue # <<>> => mutationQueue[Len(mutationQueue)] \in Batch
      BY <1>0
    <3> QED
      BY <1>9, <3>1 DEF RestartStore, LoadNextBatchIdFromDb, Last, Batch
  <2> QED
    BY <1>0, <1>9, <2>1 DEF RestartStore
<1>10. CASE UNCHANGED storeVars
  BY <1>0, <1>10 DEF storeVars
<1> QED
  BY <1>2, <1>3, <1>4, <1>5, <1>6, <1>7, <1>8, <1>9, <1>10 DEF StoreNext

(***************************************************************************)
(* The queue, the overlay, the documents and the answers on their way keep *)
(* their types, also where an overlay is recalculated from a whole queue.  *)
(***************************************************************************)
THEOREM StoreTyped == StoreSpec => []StoreTypeOK
<1>1. TypedInv => StoreTypeOK
  BY DEF TypedInv
<1> QED
  BY StoreInitTyped, TypedStep, <1>1, PTL DEF StoreSpec

-----------------------------------------------------------------------------
(***************************************************************************)
(* Versions: a snapshot or an answer is never newer than the backend, and  *)
(* answers are in order.  A document that exists is not taken for missing  *)
(* by an old snapshot.                                                     *)
(***************************************************************************)
VersionInv ==
    /\ server.kind \in {"found", "none"} /\ server.state = "synced" /\ server.version > 0
    /\ remoteDocument.version <= server.version /\ remoteDocument.state # "local"
    /\ remoteDocument.kind = "invalid" => remoteDocument.version = 0
    /\ snapshot # Nil => /\ snapshot.kind \in {"found", "none"} /\ snapshot.state = "synced"
                         /\ snapshot.version <= server.version
    /\ \A i \in DOMAIN results :
          results[i].ok => 0 < results[i].version /\ results[i].version <= server.version
    /\ \A i, j \in DOMAIN results : i < j => results[i].ok
    /\ \A i, j \in DOMAIN results : i < j /\ results[j].ok => results[i].version < results[j].version

ExistsInv ==
    /\ ~Found(server) => /\ ~Found(remoteDocument)
                         /\ snapshot # Nil => ~Found(snapshot)
                         /\ \A i \in DOMAIN results : ~results[i].ok
    /\ snapshot # Nil /\ ~Found(snapshot) =>
          /\ Found(remoteDocument) => snapshot.version < remoteDocument.version
          /\ \A i \in DOMAIN results : results[i].ok => snapshot.version < results[i].version
    /\ \A i \in DOMAIN results :
          results[i].ok /\ results[i].version <= remoteDocument.version => Found(remoteDocument)

HistoryInv == TypedInv /\ VersionInv /\ ExistsInv

LEMMA VersionTypes ==
    ASSUME TypedInv
    PROVE  /\ remoteDocument.version \in Nat /\ server.version \in Nat
           /\ snapshot # Nil => snapshot.version \in Nat
           /\ \A i \in DOMAIN results : results[i].version \in Nat /\ results[i].ok \in BOOLEAN
<1>1. \A i \in DOMAIN results : results[i] \in Result
  BY TypedFacts
<1> QED
  BY <1>1, TypedFacts DEF Document, Result

\* The answer of the oldest batch has arrived.
LEMMA ResultsShrink ==
    ASSUME TypedInv, results # <<>>, results' = Tail(results)
    PROVE  /\ 1 \in DOMAIN results /\ Head(results) = results[1]
           /\ Len(results') = Len(results) - 1
           /\ \A i \in DOMAIN results' :
                 i \in Nat /\ i > 0 /\ i + 1 \in DOMAIN results /\ results'[i] = results[i + 1]
<1>1. results \in Seq(Result) /\ Len(results) \in Nat /\ DOMAIN results = 1 .. Len(results)
  BY TypedFacts
<1>2. /\ 1 \in DOMAIN results /\ Head(results) = results[1]
      /\ Len(results') = Len(results) - 1 /\ DOMAIN results' = 1 .. Len(results) - 1
      /\ \A i \in 1 .. Len(results) - 1 : results'[i] = results[i + 1]
  BY <1>1
<1> DEFINE n == Len(results)
<1>3. n \in Nat /\ DOMAIN results' = 1 .. n - 1 /\ DOMAIN results = 1 .. n
  BY <1>1, <1>2
<1> HIDE DEF n
<1>4. \A i \in DOMAIN results' : i \in Nat /\ i > 0 /\ i + 1 \in DOMAIN results
  BY <1>3
<1> QED
  BY <1>2, <1>4

LEMMA ResultsGrow ==
    ASSUME TypedInv, NEW result \in Result, results' = Append(results, result)
    PROVE  /\ Len(results') = Len(results) + 1
           /\ \A i \in DOMAIN results : results'[i] = results[i] /\ i < Len(results) + 1
           /\ results'[Len(results) + 1] = result
           /\ \A i \in DOMAIN results' : i \in DOMAIN results \/ i = Len(results) + 1
<1>1. results \in Seq(Result) /\ Len(results) \in Nat /\ DOMAIN results = 1 .. Len(results)
  BY TypedFacts
<1>2. /\ Len(results') = Len(results) + 1 /\ DOMAIN results' = 1 .. Len(results) + 1
      /\ \A i \in 1 .. Len(results) : results'[i] = results[i]
      /\ results'[Len(results) + 1] = result
  BY <1>1
<1> DEFINE n == Len(results)
<1>3. n \in Nat /\ DOMAIN results' = 1 .. n + 1 /\ DOMAIN results = 1 .. n
  BY <1>1, <1>2
<1> HIDE DEF n
<1>4. /\ \A i \in DOMAIN results' : i \in DOMAIN results \/ i = n + 1
      /\ \A i \in DOMAIN results : i < n + 1
  BY <1>3
<1> QED
  BY <1>1, <1>2, <1>4 DEF n

\* The cached document after an answer.
LEMMA CachedAfterAnswer ==
    ASSUME TypedInv, AcknowledgeBatch
    PROVE  LET mutation == mutationQueue[1].mutation
           IN  /\ mutationQueue # <<>> /\ Head(mutationQueue) = mutationQueue[1]
               /\ mutation \in Updates /\ results[1].ok
               /\ remoteDocument.version >= results[1].version => remoteDocument' = remoteDocument
               /\ remoteDocument.version < results[1].version =>
                     /\ remoteDocument'.version = results[1].version
                     /\ remoteDocument'.state = "committed"
                     /\ IF mutation.type = "set" \/ Found(remoteDocument)
                        THEN /\ Found(remoteDocument')
                             /\ \A f \in Fields :
                                   remoteDocument'.data[f] = IF Writes(mutation, f)
                                                             THEN mutation.data[f]
                                                             ELSE remoteDocument.data[f]
                        ELSE remoteDocument'.kind = "unknown"
<1> DEFINE mutation == mutationQueue[1].mutation
           version == results[1].version
<1>1. results # <<>> /\ results' = Tail(results) /\ Head(results).ok
  BY DEF AcknowledgeBatch
<1>2. Head(results) = results[1] /\ version \in Nat /\ remoteDocument.version \in Nat
  BY <1>1, ResultsShrink, VersionTypes
<1>3. mutationQueue # <<>>
  BY <1>1, TypedFacts
<1>4. Head(mutationQueue) = mutationQueue[1] /\ mutation \in Updates
  BY <1>3, TypedFacts, QueueShrinks
<1>5. remoteDocument' = IF remoteDocument.version < version
                        THEN ApplyToRemoteDocument(mutation, remoteDocument, version)
                        ELSE remoteDocument
  BY <1>2, <1>4 DEF AcknowledgeBatch, NewerThanCached
<1> DEFINE data == Applied(mutation, remoteDocument.data)
<1>6. \A f \in Fields : data[f] = IF Writes(mutation, f) THEN mutation.data[f]
                                                         ELSE remoteDocument.data[f]
  BY <1>4, UpdateParts DEF Applied, Writes
<1>7. IsValidFor(mutation, remoteDocument) <=> mutation.type = "set" \/ Found(remoteDocument)
  BY <1>4, UpdateParts DEF IsValidFor, Found
<1> HIDE DEF data, mutation, version
<1>8. ASSUME remoteDocument.version < version
      PROVE  /\ remoteDocument'.version = version /\ remoteDocument'.state = "committed"
             /\ IF mutation.type = "set" \/ Found(remoteDocument)
                THEN Found(remoteDocument') /\ remoteDocument'.data = data
                ELSE remoteDocument'.kind = "unknown"
  <2>1. remoteDocument' = ApplyToRemoteDocument(mutation, remoteDocument, version)
    BY <1>5, <1>8
  <2> QED
    BY <1>7, <2>1 DEF ApplyToRemoteDocument, Found, data
<1>9. remoteDocument.version >= version => remoteDocument' = remoteDocument
  BY <1>2, <1>5 DEF version
<1> QED
  BY <1>1, <1>2, <1>3, <1>4, <1>6, <1>8, <1>9 DEF mutation, version

LEMMA HistoryInit == StoreInit => HistoryInv
<1> SUFFICES ASSUME StoreInit PROVE HistoryInv
  OBVIOUS
<1>1. PICK kind \in {"found", "none"}, data \in Data :
          server = [kind |-> kind, version |-> 1, data |-> data, state |-> "synced"]
  BY DEF StoreInit
<1>2. server.kind \in {"found", "none"} /\ server.state = "synced" /\ server.version = 1
  BY <1>1
<1>3. remoteDocument = server \/ remoteDocument = InvalidDocument
  BY DEF StoreInit
<1>4. InvalidDocument.version = 0 /\ InvalidDocument.kind = "invalid" /\ InvalidDocument.state = "synced"
  BY DEF InvalidDocument
<1>5. snapshot = Nil /\ results = <<>> /\ DOMAIN results = {}
  BY DEF StoreInit
<1>6. VersionInv
  BY <1>2, <1>3, <1>4, <1>5 DEF VersionInv
<1>7. ExistsInv
  BY <1>3, <1>4, <1>5 DEF ExistsInv, Found
<1> QED
  BY <1>6, <1>7, StoreInitTyped DEF HistoryInv

\* The answer of the oldest batch leaves, and the cached document stays.
LEMMA HistoryAnswered ==
    ASSUME HistoryInv, results # <<>>, results' = Tail(results),
           UNCHANGED <<remoteDocument, server, snapshot>>
    PROVE  VersionInv' /\ ExistsInv'
<1>1. TypedInv /\ VersionInv /\ ExistsInv
  BY DEF HistoryInv
<1>2. \A i \in DOMAIN results' :
          i \in Nat /\ i + 1 \in DOMAIN results /\ results'[i] = results[i + 1]
  BY <1>1, ResultsShrink
<1>3. \A i, j \in DOMAIN results' : i < j => i + 1 < j + 1
  BY <1>2
<1>4. VersionInv'
  BY <1>1, <1>2, <1>3 DEF VersionInv
<1>5. ExistsInv'
  BY <1>1, <1>2 DEF ExistsInv
<1> QED
  BY <1>4, <1>5

LEMMA HistoryAcknowledged ==
    ASSUME HistoryInv, AcknowledgeBatch
    PROVE  VersionInv' /\ ExistsInv'
<1>1. TypedInv /\ VersionInv /\ ExistsInv
  BY DEF HistoryInv
<1>2. results # <<>> /\ results' = Tail(results) /\ UNCHANGED <<server, snapshot>>
  BY DEF AcknowledgeBatch
<1>3. CASE remoteDocument' = remoteDocument
  BY <1>2, <1>3, HistoryAnswered
<1>4. CASE remoteDocument' # remoteDocument
  <2> DEFINE version == results[1].version
  <2>1. /\ \A i \in DOMAIN results' :
              i \in Nat /\ i > 0 /\ i + 1 \in DOMAIN results /\ results'[i] = results[i + 1]
        /\ 1 \in DOMAIN results
    BY <1>1, <1>2, ResultsShrink
  <2>2. /\ version \in Nat /\ remoteDocument.version \in Nat
        /\ results[1].ok /\ 0 < version /\ version <= server.version /\ Found(server)
    BY <1>1, <2>1, VersionTypes, CachedAfterAnswer DEF VersionInv, ExistsInv
  <2>3. /\ remoteDocument'.version = version /\ remoteDocument'.state = "committed"
        /\ remoteDocument'.kind # "invalid"
    <3>1. remoteDocument.version < version
      BY <1>1, <1>4, <2>2, CachedAfterAnswer
    <3> QED
      BY <1>1, <3>1, CachedAfterAnswer DEF Found
  <2>4. \A i, j \in DOMAIN results' : i < j => i + 1 < j + 1
    BY <2>1
  <2>5. \A i \in DOMAIN results' : results'[i].ok => version < results'[i].version
    <3>1. \A i \in DOMAIN results' : 1 < i + 1
      BY <2>1
    <3> QED
      BY <1>1, <2>1, <3>1 DEF VersionInv
  <2>6. \A i \in DOMAIN results' : results'[i].version \in Nat
    BY <1>1, <2>1, VersionTypes
  <2> HIDE DEF version
  <2>7. VersionInv'
    BY <1>1, <1>2, <2>1, <2>2, <2>3, <2>4 DEF VersionInv
  <2>8. snapshot # Nil /\ ~Found(snapshot) => snapshot.version < version
    BY <1>1, <2>1, <2>2 DEF ExistsInv, version
  <2>9. \A i \in DOMAIN results' : results'[i].ok => ~(results'[i].version <= version)
    BY <2>2, <2>5, <2>6
  <2>10. ExistsInv'
    BY <1>1, <1>2, <2>1, <2>2, <2>3, <2>8, <2>9 DEF ExistsInv
  <2> QED
    BY <2>7, <2>10
<1> QED
  BY <1>3, <1>4

LEMMA HistoryDecided ==
    ASSUME HistoryInv, DecideBatch
    PROVE  VersionInv' /\ ExistsInv'
<1>1. TypedInv /\ VersionInv /\ ExistsInv
  BY DEF HistoryInv
<1>2. UNCHANGED <<remoteDocument, snapshot>> /\ \A i \in DOMAIN results : results[i].ok
  BY DEF DecideBatch
<1>3. /\ remoteDocument.version \in Nat /\ server.version \in Nat
      /\ snapshot # Nil => snapshot.version \in Nat
      /\ \A i \in DOMAIN results : results[i].version \in Nat
  BY <1>1, VersionTypes
<1>0. Len(results) \in Nat /\ DOMAIN results = 1 .. Len(results)
  BY <1>1, TypedFacts
<1> DEFINE n == Len(results) + 1
           v == server.version + 1
<1>4. CASE \E mutation : /\ server' = Commit(mutation)
                         /\ results' = Append(results, [ok |-> TRUE, version |-> server'.version])
  <2>1. Found(server') /\ server'.version = v /\ server'.state = "synced"
        /\ server'.kind \in {"found", "none"}
    BY <1>4 DEF Commit, Found
  <2>2. [ok |-> TRUE, version |-> server'.version] \in Result
    BY <1>3, <2>1 DEF Result
  <2>3. /\ \A i \in DOMAIN results : results'[i] = results[i] /\ i < n
        /\ results'[n] = [ok |-> TRUE, version |-> v]
        /\ \A i \in DOMAIN results' : i \in DOMAIN results \/ i = n
    BY <1>1, <1>4, <2>1, <2>2, ResultsGrow
  <2>4. n \in Nat /\ \A i \in DOMAIN results : i \in Nat /\ ~(n < i)
    BY <1>0
  <2>5. /\ v \in Nat /\ server.version < v /\ 0 < v
        /\ remoteDocument.version < v
        /\ snapshot # Nil => snapshot.version < v
        /\ \A i \in DOMAIN results : results[i].version < v
    BY <1>1, <1>2, <1>3 DEF VersionInv
  <2> HIDE DEF n, v
  <2>6. VersionInv'
    <3>1. /\ server'.kind \in {"found", "none"} /\ server'.state = "synced" /\ server'.version > 0
          /\ remoteDocument'.version <= server'.version /\ remoteDocument'.state # "local"
          /\ remoteDocument'.kind = "invalid" => remoteDocument'.version = 0
          /\ snapshot' # Nil => /\ snapshot'.kind \in {"found", "none"} /\ snapshot'.state = "synced"
                                /\ snapshot'.version <= server'.version
      BY <1>1, <1>2, <1>3, <2>1, <2>5 DEF VersionInv
    <3>2. \A i \in DOMAIN results' :
             results'[i].ok => 0 < results'[i].version /\ results'[i].version <= server'.version
      BY <1>1, <1>3, <2>1, <2>3, <2>5 DEF VersionInv
    <3>3. \A i \in DOMAIN results' : results'[i].ok
      BY <1>2, <2>3
    <3>4. ASSUME NEW i \in DOMAIN results', NEW j \in DOMAIN results', i < j
          PROVE  results'[i].version < results'[j].version
      <4>1. i \in DOMAIN results
        BY <2>3, <2>4, <3>4
      <4>2. CASE j = n
        BY <2>3, <2>5, <4>1, <4>2
      <4>3. CASE j \in DOMAIN results
        BY <1>1, <1>2, <2>3, <3>4, <4>1, <4>3 DEF VersionInv
      <4> QED
        BY <2>3, <4>2, <4>3
    <3> QED
      BY <3>1, <3>2, <3>3, <3>4 DEF VersionInv
  <2>7. ExistsInv'
    <3>1. \A i \in DOMAIN results' :
             results'[i].ok /\ results'[i].version <= remoteDocument'.version => Found(remoteDocument')
      BY <1>1, <1>2, <1>3, <2>3, <2>5 DEF ExistsInv
    <3>2. snapshot' # Nil /\ ~Found(snapshot') =>
             /\ Found(remoteDocument') => snapshot'.version < remoteDocument'.version
             /\ \A i \in DOMAIN results' : results'[i].ok => snapshot'.version < results'[i].version
      BY <1>1, <1>2, <2>3, <2>5 DEF ExistsInv
    <3> QED
      BY <2>1, <3>1, <3>2 DEF ExistsInv
  <2> QED
    BY <2>6, <2>7
<1>5. CASE server' = server /\ results' = Append(results, [ok |-> FALSE, version |-> 0])
  <2>1. [ok |-> FALSE, version |-> 0] \in Result
    BY DEF Result
  <2>2. /\ \A i \in DOMAIN results : results'[i] = results[i]
        /\ ~results'[n].ok
        /\ \A i \in DOMAIN results' : i \in DOMAIN results \/ i = n
    BY <1>1, <1>5, <2>1, ResultsGrow
  <2>4. n \in Nat /\ \A i \in DOMAIN results : i \in Nat /\ ~(n < i)
    BY <1>0
  <2>5. \A i, j \in DOMAIN results' : i < j => i \in DOMAIN results
    BY <2>2, <2>4
  <2> HIDE DEF n
  <2>6. VersionInv'
    BY <1>1, <1>2, <1>5, <2>2, <2>5 DEF VersionInv
  <2>7. ExistsInv'
    BY <1>1, <1>2, <1>5, <2>2 DEF ExistsInv
  <2> QED
    BY <2>6, <2>7
<1> QED
  BY <1>4, <1>5 DEF DecideBatch

LEMMA HistoryStep == HistoryInv /\ [StoreNext]_storeVars => HistoryInv'
<1> SUFFICES ASSUME HistoryInv, [StoreNext]_storeVars PROVE VersionInv' /\ ExistsInv'
  BY TypedStep DEF HistoryInv
<1>1. TypedInv /\ VersionInv /\ ExistsInv
  BY DEF HistoryInv
<1>2. CASE UNCHANGED <<remoteDocument, server, results, snapshot>>
  BY <1>1, <1>2 DEF VersionInv, ExistsInv
<1>3. CASE AcknowledgeBatch
  BY <1>3, HistoryAcknowledged
<1>4. CASE RejectBatch
  BY <1>4, HistoryAnswered DEF RejectBatch
<1>5. CASE ApplyRemoteEvent
  <2>1. /\ snapshot # Nil /\ snapshot' = Nil /\ UNCHANGED <<server, results>>
        /\ remoteDocument' = remoteDocument \/ remoteDocument' = snapshot
    BY <1>5 DEF ApplyRemoteEvent
  <2>2. /\ snapshot.kind # "invalid" /\ snapshot.state # "local"
        /\ snapshot.version <= server.version
    BY <1>1, <2>1 DEF VersionInv
  <2>3. VersionInv'
    BY <1>1, <2>1, <2>2 DEF VersionInv
  <2>4. \A i \in DOMAIN results :
            results[i].ok /\ results[i].version <= snapshot.version => Found(snapshot)
    <3>1. snapshot.version \in Nat /\ \A i \in DOMAIN results : results[i].version \in Nat
      BY <1>1, <2>1, VersionTypes
    <3>2. ~Found(snapshot) => \A i \in DOMAIN results :
              results[i].ok => snapshot.version < results[i].version
      BY <1>1, <2>1 DEF ExistsInv
    <3> QED
      BY <3>1, <3>2
  <2>5. ExistsInv'
    BY <1>1, <2>1, <2>4 DEF ExistsInv
  <2> QED
    BY <2>3, <2>5
<1>6. CASE DecideBatch
  BY <1>6, HistoryDecided
<1>7. CASE TakeSnapshot
  <2>1. snapshot' = server /\ UNCHANGED <<remoteDocument, server, results>> /\ server.version \in Nat
    BY <1>1, <1>7, VersionTypes DEF TakeSnapshot
  <2>2. VersionInv'
    BY <1>1, <2>1 DEF VersionInv
  <2>3. ExistsInv'
    BY <1>1, <2>1 DEF ExistsInv
  <2> QED
    BY <2>2, <2>3
<1>8. CASE LoseResults
  <2>1. results' = <<>> /\ DOMAIN results' = {} /\ UNCHANGED <<remoteDocument, server, snapshot>>
    BY <1>8 DEF LoseResults
  <2> QED
    BY <1>1, <2>1 DEF VersionInv, ExistsInv
<1>9. CASE RestartStore
  <2>1. results' = <<>> /\ DOMAIN results' = {} /\ UNCHANGED <<remoteDocument, server>>
        /\ snapshot' = Nil
    BY <1>9 DEF RestartStore
  <2> QED
    BY <1>1, <2>1 DEF VersionInv, ExistsInv
<1>10. ASSUME NEW mutation \in Updates, OtherDeviceWrites(mutation)
       PROVE  VersionInv' /\ ExistsInv'
  <2>1. UNCHANGED <<remoteDocument, results, snapshot>> /\ server' = Commit(mutation)
    BY <1>10 DEF OtherDeviceWrites
  <2>2. Found(server') /\ server'.version = server.version + 1 /\ server'.state = "synced"
        /\ server'.kind \in {"found", "none"}
    BY <2>1 DEF Commit, Found
  <2>3. /\ remoteDocument.version \in Nat /\ server.version \in Nat
        /\ snapshot # Nil => snapshot.version \in Nat
        /\ \A i \in DOMAIN results : results[i].version \in Nat
    BY <1>1, VersionTypes
  <2>4. VersionInv'
    BY <1>1, <2>1, <2>2, <2>3 DEF VersionInv
  <2>5. ExistsInv'
    BY <1>1, <2>1, <2>2 DEF ExistsInv
  <2> QED
    BY <2>4, <2>5
<1>11. ASSUME NEW mutation \in Updates, WriteLocally(mutation)
       PROVE  VersionInv' /\ ExistsInv'
  BY <1>2, <1>11 DEF WriteLocally
<1>12. CASE UNCHANGED storeVars
  BY <1>2, <1>12 DEF storeVars
<1> QED
  BY <1>3, <1>4, <1>5, <1>6, <1>7, <1>8, <1>9, <1>10, <1>11, <1>12 DEF StoreNext

-----------------------------------------------------------------------------
(***************************************************************************)
(* How a queue that grows or shrinks changes what is said about it.        *)
(***************************************************************************)
LEMMA GrownQueue ==
    ASSUME NEW queue \in UpdateQueue, NEW id \in Nat, NEW mutation \in Updates
    PROVE  LET new == Append(queue, [id |-> id, mutation |-> mutation])
           IN  /\ HasSet(new) <=> HasSet(queue) \/ mutation.type = "set"
               /\ \A i \in 0 .. Len(queue), f \in Fields :
                     UnwrittenAfter(new, i, f) <=> UnwrittenAfter(queue, i, f) /\ ~Writes(mutation, f)
<1> DEFINE new == Append(queue, [id |-> id, mutation |-> mutation])
           n == Len(queue)
<1>1. /\ new \in UpdateQueue /\ Len(new) = n + 1
      /\ \A i \in 1 .. n : new[i] = queue[i]
      /\ new[n + 1].mutation = mutation
  BY QueueGrows
<1>2. n \in Nat /\ DOMAIN queue = 1 .. n /\ DOMAIN new = 1 .. n + 1
  BY <1>1 DEF UpdateQueue
<1> HIDE DEF new, n
<1>3. /\ \A i \in 1 .. n + 1 : i \in 1 .. n \/ i = n + 1
      /\ \A i \in 1 .. n : i \in 1 .. n + 1
      /\ n + 1 \in 1 .. n + 1
  BY <1>2
<1>4. HasSet(new) <=> HasSet(queue) \/ mutation.type = "set"
  BY <1>1, <1>2, <1>3 DEF HasSet
<1>5. ASSUME NEW i \in 0 .. n, NEW f \in Fields
      PROVE  UnwrittenAfter(new, i, f) <=> UnwrittenAfter(queue, i, f) /\ ~Writes(mutation, f)
  <2>1. /\ \A j \in i + 1 .. n + 1 : j \in i + 1 .. n \/ j = n + 1
        /\ \A j \in i + 1 .. n : j \in i + 1 .. n + 1 /\ j \in 1 .. n
        /\ n + 1 \in i + 1 .. n + 1
    BY <1>2
  <2> QED
    BY <1>1, <2>1 DEF UnwrittenAfter, n
<1> QED
  BY <1>4, <1>5 DEF new, n

LEMMA ShrunkQueue ==
    ASSUME NEW queue \in UpdateQueue, queue # <<>>
    PROVE  /\ HasSet(queue) <=> queue[1].mutation.type = "set" \/ HasSet(Tail(queue))
           /\ \A i \in 0 .. Len(queue) - 1, f \in Fields :
                 UnwrittenAfter(Tail(queue), i, f) <=> UnwrittenAfter(queue, i + 1, f)
<1> DEFINE n == Len(queue) - 1
           new == Tail(queue)
<1>1. /\ new \in UpdateQueue /\ Len(new) = n /\ Len(queue) = n + 1 /\ Len(queue) > 0
      /\ Len(queue) \in Nat
      /\ \A i \in 1 .. n : new[i] = queue[i + 1]
  BY QueueShrinks DEF UpdateQueue
<1>2. n \in Nat /\ DOMAIN queue = 1 .. n + 1 /\ DOMAIN new = 1 .. n
  BY <1>1 DEF UpdateQueue
<1> HIDE DEF new, n
<1>3. /\ \A i \in 1 .. n + 1 : i = 1 \/ (i - 1 \in 1 .. n /\ (i - 1) + 1 = i)
      /\ \A i \in 1 .. n : i + 1 \in 1 .. n + 1
      /\ 1 \in 1 .. n + 1
  BY <1>2
<1>4. HasSet(queue) <=> queue[1].mutation.type = "set" \/ HasSet(new)
  <2>1. ASSUME HasSet(queue), queue[1].mutation.type # "set" PROVE HasSet(new)
    <3>1. PICK i \in 1 .. n + 1 : queue[i].mutation.type = "set"
      BY <1>2, <2>1 DEF HasSet
    <3>2. i - 1 \in 1 .. n /\ (i - 1) + 1 = i
      BY <1>3, <2>1, <3>1
    <3>3. new[i - 1] = queue[i]
      BY <1>1, <3>2
    <3> QED
      BY <1>2, <3>1, <3>2, <3>3 DEF HasSet
  <2>2. queue[1].mutation.type = "set" \/ HasSet(new) => HasSet(queue)
    BY <1>1, <1>2, <1>3 DEF HasSet
  <2> QED
    BY <2>1, <2>2
<1>5. ASSUME NEW i \in 0 .. n, NEW f \in Fields
      PROVE  UnwrittenAfter(new, i, f) <=> UnwrittenAfter(queue, i + 1, f)
  <2>1. /\ \A j \in (i + 1) + 1 .. n + 1 : j - 1 \in i + 1 .. n /\ j - 1 \in 1 .. n /\ (j - 1) + 1 = j
        /\ \A j \in i + 1 .. n : j + 1 \in (i + 1) + 1 .. n + 1 /\ j \in 1 .. n
    BY <1>2
  <2>2. UnwrittenAfter(new, i, f) => UnwrittenAfter(queue, i + 1, f)
    BY <1>1, <2>1 DEF UnwrittenAfter
  <2>3. UnwrittenAfter(queue, i + 1, f) => UnwrittenAfter(new, i, f)
    BY <1>1, <2>1 DEF UnwrittenAfter
  <2> QED
    BY <2>2, <2>3
<1> QED
  BY <1>4, <1>5 DEF new, n

\* The last writes after one more mutation, and without the oldest one.
LEMMA LastWritesGrow ==
    ASSUME NEW queue \in UpdateQueue, NEW id \in Nat, NEW mutation \in Updates,
           NEW data, NEW old,
           mutation.type = "set" \/ LastWritesAgree(queue, old),
           \A f \in Fields : data[f] = IF Writes(mutation, f) THEN mutation.data[f] ELSE old[f]
    PROVE  LastWritesAgree(Append(queue, [id |-> id, mutation |-> mutation]), data)
<1> DEFINE new == Append(queue, [id |-> id, mutation |-> mutation])
           n == Len(queue)
<1>1. /\ Len(new) = n + 1 /\ new \in UpdateQueue
      /\ \A i \in 1 .. n : new[i] = queue[i]
      /\ new[n + 1].mutation = mutation
  BY QueueGrows
<1>2. n \in Nat /\ DOMAIN queue = 1 .. n /\ DOMAIN new = 1 .. n + 1
  BY <1>1 DEF UpdateQueue
<1>3. \A i \in 0 .. n, f \in Fields :
         UnwrittenAfter(new, i, f) <=> UnwrittenAfter(queue, i, f) /\ ~Writes(mutation, f)
  BY GrownQueue
<1> HIDE DEF new, n
<1>4. ASSUME NEW i \in 1 .. n + 1, NEW f \in Fields,
             Writes(new[i].mutation, f), UnwrittenAfter(new, i, f)
      PROVE  data[f] = new[i].mutation.data[f]
  <2>1. CASE i = n + 1
    BY <1>1, <1>4, <2>1
  <2>2. CASE i \in 1 .. n
    <3>1. i \in 0 .. n
      BY <1>2, <2>2
    <3>2. UnwrittenAfter(queue, i, f) /\ ~Writes(mutation, f)
      BY <1>3, <1>4, <3>1
    <3>3. LastWritesAgree(queue, old)
      BY <3>2 DEF Writes
    <3> QED
      BY <1>1, <1>2, <1>4, <2>2, <3>2, <3>3 DEF LastWritesAgree
  <2> QED
    BY <1>2, <2>1, <2>2
<1> QED
  BY <1>2, <1>4 DEF LastWritesAgree, new

LEMMA LastWritesShrink ==
    ASSUME NEW queue \in UpdateQueue, queue # <<>>, NEW data, LastWritesAgree(queue, data)
    PROVE  LastWritesAgree(Tail(queue), data)
<1> DEFINE n == Len(queue) - 1
           new == Tail(queue)
<1>1. /\ new \in UpdateQueue /\ Len(new) = n /\ Len(queue) = n + 1 /\ Len(queue) > 0
      /\ Len(queue) \in Nat
      /\ \A i \in 1 .. n : new[i] = queue[i + 1]
  BY QueueShrinks DEF UpdateQueue
<1>2. n \in Nat /\ DOMAIN queue = 1 .. n + 1 /\ DOMAIN new = 1 .. n
  BY <1>1 DEF UpdateQueue
<1>3. \A i \in 0 .. n, f \in Fields : UnwrittenAfter(new, i, f) <=> UnwrittenAfter(queue, i + 1, f)
  BY ShrunkQueue
<1> HIDE DEF new, n
<1>4. \A i \in 1 .. n : i + 1 \in 1 .. n + 1 /\ i \in 0 .. n
  BY <1>2
<1> QED
  BY <1>1, <1>2, <1>3, <1>4 DEF LastWritesAgree, new

-----------------------------------------------------------------------------
(***************************************************************************)
(* A document that holds the writes of the first i batches agrees with the *)
(* promised one in every field that later batches leave alone.  Batch i is *)
(* in a document as new as its answer.  Where there is no document yet,    *)
(* one that is promised is made by a pending set.                          *)
(***************************************************************************)
Covers(doc, i, answers) == i = 0 \/ (answers[i].ok /\ answers[i].version <= doc.version)

Carries(doc, promise, queue, answers) ==
    IF Found(doc)
    THEN /\ Found(promise)
         /\ \A i \in 0 .. Len(answers) :
               Covers(doc, i, answers) => UnwrittenAgree(queue, i, doc, promise.data)
    ELSE Found(promise) => HasSet(queue)

\* One more write of this device.
LEMMA CarriesWrite ==
    ASSUME NEW doc \in Document, NEW promise \in Document, NEW queue \in UpdateQueue,
           NEW answers \in Seq(Result), Len(answers) <= Len(queue),
           NEW id \in Nat, NEW mutation \in Updates, Carries(doc, promise, queue, answers)
    PROVE  Carries(doc, ApplyToLocalView(mutation, promise),
                   Append(queue, [id |-> id, mutation |-> mutation]), answers)
<1> DEFINE new == Append(queue, [id |-> id, mutation |-> mutation])
           after == ApplyToLocalView(mutation, promise)
<1>1. /\ HasSet(new) <=> HasSet(queue) \/ mutation.type = "set"
      /\ \A i \in 0 .. Len(queue), f \in Fields :
            UnwrittenAfter(new, i, f) <=> UnwrittenAfter(queue, i, f) /\ ~Writes(mutation, f)
  BY GrownQueue
<1>2. /\ mutation.type # "set" /\ ~Found(promise) => after = promise
      /\ mutation.type = "set" \/ Found(promise) =>
            /\ Found(after)
            /\ \A f \in Fields : after.data[f] = IF Writes(mutation, f) THEN mutation.data[f]
                                                                      ELSE promise.data[f]
  BY LocalViewShows
<1>3. \A i \in 0 .. Len(answers) : i \in 0 .. Len(queue)
  <2>1. Len(answers) \in Nat /\ Len(queue) \in Nat
    BY DEF UpdateQueue
  <2> QED
    BY <2>1
<1> HIDE DEF new, after
<1>4. CASE Found(doc)
  <2>1. Found(promise) /\ Found(after)
    BY <1>2, <1>4 DEF Carries
  <2>2. ASSUME NEW i \in 0 .. Len(answers), Covers(doc, i, answers),
               NEW f \in Fields, UnwrittenAfter(new, i, f)
        PROVE  doc.data[f] = after.data[f]
    <3>1. UnwrittenAfter(queue, i, f) /\ ~Writes(mutation, f)
      BY <1>1, <1>3, <2>2
    <3>2. doc.data[f] = promise.data[f]
      BY <1>4, <2>2, <3>1 DEF Carries, UnwrittenAgree
    <3> QED
      BY <1>2, <2>1, <3>1, <3>2
  <2> QED
    BY <1>4, <2>1, <2>2 DEF Carries, UnwrittenAgree, new, after
<1>5. CASE ~Found(doc)
  BY <1>1, <1>2, <1>5 DEF Carries, new, after
<1> QED
  BY <1>4, <1>5

\* An answer that is newer than the document, or a refusal.
LEMMA CarriesAnswer ==
    ASSUME NEW doc \in Document, NEW promise, NEW queue, NEW answers \in Seq(Result),
           NEW answer \in Result, answer.ok => ~(answer.version <= doc.version),
           Carries(doc, promise, queue, answers)
    PROVE  Carries(doc, promise, queue, Append(answers, answer))
<1> DEFINE new == Append(answers, answer)
           n == Len(answers)
<1>1. /\ n \in Nat /\ Len(new) = n + 1 /\ new[n + 1] = answer
      /\ \A i \in 1 .. n : new[i] = answers[i]
  OBVIOUS
<1> HIDE DEF new, n
<1>2. \A i \in 0 .. n + 1 : i = 0 \/ i = n + 1 \/ i \in 1 .. n
  BY <1>1
<1>3. 0 \in 0 .. n /\ (\A i \in 1 .. n : i \in 0 .. n) /\ n + 1 # 0
  BY <1>1
<1>4. ASSUME NEW i \in 0 .. n + 1, Covers(doc, i, new)
      PROVE  i \in 0 .. n /\ Covers(doc, i, answers)
  BY <1>1, <1>2, <1>3, <1>4 DEF Covers
<1> QED
  BY <1>1, <1>4 DEF Carries, n, new

\* The answers on their way are lost.
LEMMA CarriesLost ==
    ASSUME NEW doc, NEW promise, NEW queue, NEW answers \in Seq(Result),
           Carries(doc, promise, queue, answers)
    PROVE  Carries(doc, promise, queue, <<>>)
<1>1. Len(<<>>) = 0 /\ 0 .. 0 = {0} /\ 0 \in 0 .. Len(answers)
  OBVIOUS
<1> QED
  BY <1>1 DEF Carries, Covers

\* The oldest batch leaves, and the document holds it.
LEMMA CarriesShift ==
    ASSUME NEW doc \in Document, NEW promise, NEW queue \in UpdateQueue, queue # <<>>,
           NEW answers \in Seq(Result), answers # <<>>, Len(answers) <= Len(queue),
           Found(doc), Covers(doc, 1, answers), Carries(doc, promise, queue, answers)
    PROVE  Carries(doc, promise, Tail(queue), Tail(answers))
<1> DEFINE new == Tail(queue)
           left == Tail(answers)
           n == Len(answers)
<1>1. n \in Nat /\ Len(left) = n - 1 /\ \A i \in 1 .. n - 1 : left[i] = answers[i + 1]
  OBVIOUS
<1>2. Len(queue) \in Nat /\ n <= Len(queue) /\ n > 0
  BY DEF UpdateQueue
<1>3. \A i \in 0 .. Len(queue) - 1, f \in Fields :
          UnwrittenAfter(new, i, f) <=> UnwrittenAfter(queue, i + 1, f)
  BY ShrunkQueue
<1> HIDE DEF new, left, n
<1>4. ASSUME NEW i \in 0 .. n - 1, Covers(doc, i, left)
      PROVE  i + 1 \in 0 .. n /\ i \in 0 .. Len(queue) - 1 /\ Covers(doc, i + 1, answers)
  <2>1. i + 1 \in 0 .. n /\ i \in 0 .. Len(queue) - 1 /\ (i = 0 \/ i \in 1 .. n - 1)
    BY <1>1, <1>2
  <2>2. CASE i = 0
    BY <2>1, <2>2
  <2>3. CASE i \in 1 .. n - 1
    BY <1>1, <1>4, <2>1, <2>3 DEF Covers
  <2> QED
    BY <2>1, <2>2, <2>3
<1>5. ASSUME NEW i \in 0 .. n - 1, Covers(doc, i, left)
      PROVE  UnwrittenAgree(new, i, doc, promise.data)
  <2>1. UnwrittenAgree(queue, i + 1, doc, promise.data)
    BY <1>4, <1>5 DEF Carries, n
  <2> QED
    BY <1>3, <1>4, <1>5, <2>1 DEF UnwrittenAgree
<1> QED
  BY <1>1, <1>5 DEF Carries, new, left

\* Nothing is pending that a field of the document could be waiting for.
LEMMA CarriesAll ==
    ASSUME NEW doc \in Document, NEW promise \in Document, NEW answers \in Seq(Result), Found(doc),
           Carries(doc, promise, <<>>, answers)
    PROVE  Found(promise) /\ doc.data = promise.data
<1>1. 0 \in 0 .. Len(answers) /\ 0 + 1 .. Len(<<>>) = {}
  OBVIOUS
<1>2. Found(promise) /\ \A f \in Fields : doc.data[f] = promise.data[f]
  BY <1>1 DEF Carries, Covers, UnwrittenAgree, UnwrittenAfter
<1>3. doc.data \in Data /\ promise.data \in Data
  BY DEF Document
<1> QED
  BY <1>2, <1>3 DEF Data

-----------------------------------------------------------------------------
(***************************************************************************)
(* An overlay shows the promised document: whole, or in the fields it      *)
(* names while no pending batch writes another.  Without an overlay no     *)
(* pending batch shows anything.                                           *)
(***************************************************************************)
OverlayShows(over, doc, promise, queue) ==
    IF over = Nil
    THEN queue # <<>> => ~Found(doc) /\ ~HasSet(queue)
    ELSE /\ Found(promise) /\ ~over.mutation.exists
         /\ \/ /\ over.mutation.type = "set" /\ over.mutation.mask = Nil
               /\ over.mutation.data = promise.data
               /\ Found(doc) \/ HasSet(queue)
            \/ /\ over.mutation.type = "patch" /\ over.mutation.mask \in SUBSET Fields
               /\ Found(doc)
               /\ \A f \in over.mutation.mask : over.mutation.data[f] = promise.data[f]
               /\ \A f \in Fields \ over.mutation.mask : UnwrittenAfter(queue, 0, f)

\* The cached document under such an overlay.
LEMMA OverlayView ==
    ASSUME NEW over \in Overlay, NEW doc \in Document, NEW promise \in Document,
           NEW queue \in UpdateQueue, NEW answers \in Seq(Result),
           OverlayShows(over, doc, promise, queue),
           Found(doc) => Carries(doc, promise, queue, answers)
    PROVE  LET view == ApplyToLocalView(over.mutation, doc)
           IN  Found(view) /\ view.state = "local" /\ view.data = promise.data
<1>0. over # Nil
  BY LocalStoreAssumption
<1> DEFINE m == over.mutation
           data == Applied(m, doc.data)
<1>1. m \in Mutation /\ doc.data \in Data /\ promise.data \in Data /\ ~m.exists
  BY <1>0 DEF Overlay, Document, OverlayShows
<1>2. data \in Data
  BY <1>1, AppliedTyped
<1>3. ASSUME m.type = "set" PROVE data = promise.data
  BY <1>0, <1>3 DEF OverlayShows, Applied
<1>4. ASSUME m.type # "set" PROVE data = promise.data
  <2>1. /\ Found(doc)
        /\ \A f \in m.mask : m.data[f] = promise.data[f]
        /\ \A f \in Fields \ m.mask : UnwrittenAfter(queue, 0, f)
    BY <1>0, <1>4 DEF OverlayShows
  <2>2. 0 \in 0 .. Len(answers)
    OBVIOUS
  <2>3. \A f \in Fields : UnwrittenAfter(queue, 0, f) => doc.data[f] = promise.data[f]
    BY <2>1, <2>2 DEF Carries, Covers, UnwrittenAgree
  <2>4. ASSUME NEW f \in Fields PROVE data[f] = promise.data[f]
    BY <1>4, <2>1, <2>3 DEF Applied
  <2> QED
    BY <1>1, <1>2, <2>4 DEF Data
<1> HIDE DEF m, data
<1>5. ApplyToLocalView(m, doc) = [kind |-> "found", version |-> 0, data |-> data, state |-> "local"]
  BY <1>1 DEF ApplyToLocalView, IsValidFor, data
<1>6. data = promise.data => ApplyToLocalView(m, doc).data = promise.data
  BY <1>5
<1>7. Found(ApplyToLocalView(m, doc)) /\ ApplyToLocalView(m, doc).state = "local"
  BY <1>5 DEF Found
<1> QED
  BY <1>3, <1>4, <1>6, <1>7 DEF m, data

\* A view that shows the promised document is saved as such an overlay.
LEMMA SavedShows ==
    ASSUME NEW id \in Nat, NEW new \in Document, NEW mask \in Mask, NEW old \in Overlay \cup {Nil},
           NEW doc, NEW promise, NEW queue,
           new.state = "local", Found(promise), new.data = promise.data,
           mask = Nil => Found(doc) \/ HasSet(queue),
           mask # Nil => Found(doc) /\ \A f \in Fields : f \notin mask => UnwrittenAfter(queue, 0, f)
    PROVE  OverlayShows(SaveOverlay(id, new, mask, old), doc, promise, queue)
<1> DEFINE over == SaveOverlay(id, new, mask, old)
           m == CalculateOverlayMutation(new, mask)
<1>1. over = [largestBatchId |-> id, mutation |-> m]
  BY DEF SaveOverlay
<1>2. over # Nil
  <2>1. m \in Mutation
    <3>1. new.data \in Data
      BY DEF Document
    <3>2. mask = Nil => m \in Mutation
      BY <3>1 DEF CalculateOverlayMutation, SetMutation, Mutation
    <3>3. mask # Nil => m \in Mutation
      BY <3>1 DEF CalculateOverlayMutation, PatchMutation, Mutation, Mask, Data
    <3> QED
      BY <3>2, <3>3
  <2>2. over \in Overlay
    BY <1>1, <2>1 DEF Overlay
  <2> QED
    BY <2>2, LocalStoreAssumption
<1>3. over.mutation = m
  BY <1>1
<1>4. CASE mask = Nil
  <2>1. m.type = "set" /\ m.mask = Nil /\ m.data = new.data /\ ~m.exists
    BY <1>4 DEF CalculateOverlayMutation, SetMutation
  <2> HIDE DEF over, m
  <2> QED
    BY <1>2, <1>3, <1>4, <2>1 DEF OverlayShows, over
<1>5. CASE mask # Nil
  <2>1. m.type = "patch" /\ m.mask = mask /\ ~m.exists /\ mask \in SUBSET Fields
    BY <1>5 DEF CalculateOverlayMutation, PatchMutation, Mask
  <2>2. \A f \in mask : m.data[f] = promise.data[f]
    BY <1>5, <2>1 DEF CalculateOverlayMutation, PatchMutation
  <2> HIDE DEF over, m
  <2> QED
    BY <1>2, <1>3, <1>5, <2>1, <2>2 DEF OverlayShows, over
<1> QED
  BY <1>4, <1>5

-----------------------------------------------------------------------------
(***************************************************************************)
(* The inductive invariant of a device whose writes stand.  Batch ids are  *)
(* handed out in increasing order, so that an answer removes an overlay    *)
(* only when its batch was the last.                                       *)
(***************************************************************************)
IdsIncrease ==
    /\ \A i, j \in DOMAIN mutationQueue : i < j => mutationQueue[i].id < mutationQueue[j].id
    /\ \A i \in DOMAIN mutationQueue : mutationQueue[i].id < nextBatchId

\* Only an update of a missing document is refused.
OnlyMissingRefused ==
    \A i \in DOMAIN results :
        ~results[i].ok => ~Found(server) /\ mutationQueue[i].mutation.type # "set"

PromiseOfQueue ==
    /\ HasSet(mutationQueue) => Found(promised)
    /\ Found(promised) => LastWritesAgree(mutationQueue, promised.data)

DocumentsCarry ==
    /\ Carries(server, promised, mutationQueue, results)
    /\ snapshot # Nil /\ AcceptsUpdate(snapshot) =>
          Carries(snapshot, promised, mutationQueue, results)
    /\ remoteDocument.kind \in {"found", "none"} =>
          Carries(remoteDocument, promised, mutationQueue, results)

OwnInv ==
    promised # Nil => /\ OnlyMissingRefused /\ PromiseOfQueue /\ DocumentsCarry
                      /\ OverlayShows(overlay, remoteDocument, promised, mutationQueue)

ReadInv == HistoryInv /\ StoreInv /\ IdsIncrease /\ OwnInv

LEMMA IdsStep ==
    ASSUME TypedInv, IdsIncrease, [StoreNext]_storeVars
    PROVE  IdsIncrease'
<1>0. /\ mutationQueue \in Seq(Batch) /\ mutationQueue \in UpdateQueue
      /\ Len(mutationQueue) \in Nat /\ DOMAIN mutationQueue = 1 .. Len(mutationQueue)
      /\ nextBatchId \in Nat
      /\ results \in Seq(Result) /\ Len(results) <= Len(mutationQueue) /\ Len(results) \in Nat
  BY TypedFacts
<1> DEFINE n == Len(mutationQueue)
<1>6. \A i \in DOMAIN mutationQueue : mutationQueue[i].id \in Nat
  <2>1. \A i \in DOMAIN mutationQueue : mutationQueue[i] \in Batch
    BY <1>0
  <2> QED
    BY <2>1 DEF Batch
<1>1. ASSUME NEW mutation \in Updates, WriteLocally(mutation) PROVE IdsIncrease'
  <2> DEFINE batch == [id |-> nextBatchId, mutation |-> mutation]
  <2>1. mutationQueue' = Append(mutationQueue, batch) /\ nextBatchId' = nextBatchId + 1
    BY <1>1 DEF WriteLocally
  <2>2. /\ \A i \in 1 .. n : mutationQueue'[i] = mutationQueue[i]
        /\ mutationQueue'[n + 1] = batch /\ DOMAIN mutationQueue' = 1 .. n + 1
    <3>1. batch \in Batch
      BY <1>0, UpdateParts DEF Batch
    <3> HIDE DEF batch
    <3> QED
      BY <1>0, <2>1, <3>1
  <2>3. n \in Nat /\ batch.id = nextBatchId /\ DOMAIN mutationQueue = 1 .. n
    BY <1>0
  <2> HIDE DEF n, batch
  <2>4. \A i \in 1 .. n + 1 : i \in 1 .. n \/ i = n + 1
    BY <2>3
  <2>5. \A i \in 1 .. n + 1 : mutationQueue'[i].id < nextBatchId'
    BY <1>0, <1>6, <2>1, <2>2, <2>3, <2>4 DEF IdsIncrease
  <2>6. \A i, j \in 1 .. n + 1 : i < j => mutationQueue'[i].id < mutationQueue'[j].id
    <3>1. \A i, j \in 1 .. n + 1 : i < j => i \in 1 .. n
      BY <2>3
    <3> QED
      BY <2>2, <2>3, <2>4, <3>1 DEF IdsIncrease
  <2> QED
    BY <2>2, <2>5, <2>6 DEF IdsIncrease
<1>2. ASSUME AcknowledgeBatch \/ RejectBatch PROVE IdsIncrease'
  <2>1. results # <<>> /\ mutationQueue' = Tail(mutationQueue) /\ nextBatchId' = nextBatchId
    BY <1>2 DEF AcknowledgeBatch, RejectBatch
  <2>2. /\ mutationQueue # <<>> /\ n > 0
    BY <1>0, <2>1
  <2>3. /\ DOMAIN mutationQueue' = 1 .. n - 1
        /\ \A i \in 1 .. n - 1 : mutationQueue'[i] = mutationQueue[i + 1]
    BY <1>0, <2>1, <2>2
  <2>4. n \in Nat /\ DOMAIN mutationQueue = 1 .. n
    BY <1>0
  <2> HIDE DEF n
  <2>5. /\ \A i \in 1 .. n - 1 : i + 1 \in 1 .. n
        /\ \A i, j \in 1 .. n - 1 : i < j => i + 1 < j + 1
    BY <2>4
  <2> QED
    BY <2>1, <2>3, <2>4, <2>5 DEF IdsIncrease
<1>3. ASSUME RestartStore PROVE IdsIncrease'
  <2>1. mutationQueue' = mutationQueue /\ nextBatchId' = LoadNextBatchIdFromDb
    BY <1>3 DEF RestartStore
  <2>2. n \in Nat /\ DOMAIN mutationQueue = 1 .. n
    BY <1>0
  <2>3. \A i \in DOMAIN mutationQueue : mutationQueue[i].id < nextBatchId'
    <3>1. SUFFICES ASSUME NEW i \in DOMAIN mutationQueue
                   PROVE  mutationQueue[i].id < nextBatchId'
      OBVIOUS
    <3>2. mutationQueue # <<>> /\ Last(mutationQueue) = mutationQueue[n]
      BY <1>0 DEF Last
    <3>3. nextBatchId' = 1 + mutationQueue[n].id
      BY <2>1, <3>2 DEF LoadNextBatchIdFromDb
    <3> HIDE DEF n
    <3>4. n \in DOMAIN mutationQueue /\ (i = n \/ i < n)
      BY <2>2
    <3>5. i = n \/ mutationQueue[i].id < mutationQueue[n].id
      BY <3>4 DEF IdsIncrease
    <3> QED
      BY <1>6, <3>3, <3>4, <3>5
  <2> QED
    BY <2>1, <2>3 DEF IdsIncrease
<1>4. ASSUME UNCHANGED <<mutationQueue, nextBatchId>> PROVE IdsIncrease'
  BY <1>4 DEF IdsIncrease
<1>5. CASE \/ ApplyRemoteEvent \/ DecideBatch \/ TakeSnapshot \/ LoseResults
           \/ (\E mutation \in Updates : OtherDeviceWrites(mutation))
           \/ UNCHANGED storeVars
  BY <1>4, <1>5 DEF ApplyRemoteEvent, DecideBatch, TakeSnapshot, LoseResults, OtherDeviceWrites,
                    storeVars
<1> QED
  BY <1>1, <1>2, <1>3, <1>5 DEF StoreNext

\* The overlay goes with the last batch and not before.
LEMMA OverlayGoesLast ==
    ASSUME TypedInv, StoreInv, IdsIncrease, mutationQueue # <<>>
    PROVE  \/ RemoveOverlaysForBatchId(Head(mutationQueue).id) = overlay
           \/ Tail(mutationQueue) = <<>>
<1>1. SUFFICES ASSUME overlay # Nil, overlay.largestBatchId = Head(mutationQueue).id
               PROVE  Tail(mutationQueue) = <<>>
  BY DEF RemoveOverlaysForBatchId
<1>2. Last(mutationQueue).id = Head(mutationQueue).id
  BY <1>1 DEF StoreInv, OverlayOfNewest
<1> DEFINE n == Len(mutationQueue)
<1>3. /\ mutationQueue \in Seq(Batch) /\ n \in Nat /\ DOMAIN mutationQueue = 1 .. n /\ n > 0
      /\ Head(mutationQueue) = mutationQueue[1]
      /\ Last(mutationQueue) = mutationQueue[n]
      /\ n = 1 => Tail(mutationQueue) = <<>>
  BY TypedFacts DEF Last
<1>4. mutationQueue[1].id \in Nat /\ mutationQueue[n].id \in Nat
  <2>1. mutationQueue[1] \in Batch /\ mutationQueue[n] \in Batch
    BY <1>3
  <2> QED
    BY <2>1 DEF Batch
<1> HIDE DEF n
<1>5. 1 \in 1 .. n /\ n \in 1 .. n /\ (n = 1 \/ 1 < n)
  BY <1>3
<1>6. 1 < n => mutationQueue[1].id < mutationQueue[n].id
  BY <1>3, <1>5 DEF IdsIncrease
<1> QED
  BY <1>2, <1>3, <1>4, <1>5, <1>6

LEMMA ReadInit == StoreInit => ReadInv
<1> SUFFICES ASSUME StoreInit PROVE IdsIncrease /\ OwnInv
  BY HistoryInit, StoreInitInv DEF ReadInv
<1>1. /\ mutationQueue = <<>> /\ results = <<>> /\ overlay = Nil /\ snapshot = Nil
      /\ promised = server /\ remoteDocument \in {server, InvalidDocument}
  BY DEF StoreInit
<1>2. DOMAIN mutationQueue = {} /\ DOMAIN results = {} /\ ~HasSet(mutationQueue)
  BY <1>1 DEF HasSet
<1>3. IdsIncrease /\ OnlyMissingRefused /\ PromiseOfQueue
  BY <1>2 DEF IdsIncrease, OnlyMissingRefused, PromiseOfQueue, LastWritesAgree
<1>4. Carries(server, promised, mutationQueue, results)
  BY <1>1 DEF Carries, UnwrittenAgree
<1>5. InvalidDocument.kind = "invalid"
  BY DEF InvalidDocument
<1>6. DocumentsCarry
  BY <1>1, <1>4, <1>5 DEF DocumentsCarry
<1>7. OverlayShows(overlay, remoteDocument, promised, mutationQueue)
  BY <1>1 DEF OverlayShows
<1> QED
  BY <1>3, <1>6, <1>7 DEF OwnInv

\* The parts of the invariant as the actions use them.
LEMMA OwnFacts ==
    ASSUME ReadInv, promised # Nil
    PROVE  /\ TypedInv /\ VersionInv /\ ExistsInv /\ StoreInv /\ IdsIncrease
           /\ promised \in Document
           /\ OnlyMissingRefused /\ PromiseOfQueue /\ DocumentsCarry
           /\ OverlayShows(overlay, remoteDocument, promised, mutationQueue)
           /\ Found(remoteDocument) => Carries(remoteDocument, promised, mutationQueue, results)
<1>1. TypedInv /\ VersionInv /\ ExistsInv /\ StoreInv /\ IdsIncrease /\ OwnInv
  BY DEF ReadInv, HistoryInv
<1>2. promised \in Document
  BY <1>1, TypedFacts
<1> QED
  BY <1>1, <1>2 DEF OwnInv, DocumentsCarry, Found

\* A write extends the overlay, or shows nothing as long as no document is known.
LEMMA WriteShows ==
    ASSUME ReadInv, promised # Nil, NEW mutation \in Updates, WriteLocally(mutation)
    PROVE  OverlayShows(overlay', remoteDocument, ApplyToLocalView(mutation, promised),
                        mutationQueue')
<1> DEFINE base == LocalBase
           new == ApplyToLocalView(mutation, base.doc)
           mask == MergedMask(mutation, base.doc, base.mask)
           after == ApplyToLocalView(mutation, promised)
<1>1. /\ TypedInv /\ VersionInv /\ promised \in Document
      /\ OverlayShows(overlay, remoteDocument, promised, mutationQueue)
      /\ Found(remoteDocument) => Carries(remoteDocument, promised, mutationQueue, results)
  BY OwnFacts
<1>2. /\ overlay' = SaveOverlay(nextBatchId, new, mask, overlay)
      /\ mutationQueue' = Append(mutationQueue, [id |-> nextBatchId, mutation |-> mutation])
  BY DEF WriteLocally
<1>3. /\ remoteDocument \in Document /\ overlay \in Overlay \cup {Nil} /\ nextBatchId \in Nat
      /\ results \in Seq(Result) /\ mutationQueue \in UpdateQueue
      /\ Len(mutationQueue) \in Nat
  BY <1>1, TypedFacts
<1>4. /\ HasSet(mutationQueue') <=> HasSet(mutationQueue) \/ mutation.type = "set"
      /\ \A f \in Fields : UnwrittenAfter(mutationQueue', 0, f)
                              <=> UnwrittenAfter(mutationQueue, 0, f) /\ ~Writes(mutation, f)
  <2>1. 0 \in 0 .. Len(mutationQueue)
    BY <1>3
  <2> QED
    BY <1>2, <1>3, <2>1, GrownQueue
<1>5. base.doc \in Document /\ base.mask \in Mask
  BY <1>1, LocalBaseTyped
<1>6. new \in Document /\ mask \in Mask /\ after \in Document
  BY <1>1, <1>5, UpdateParts, LocalViewTyped, MaskGrows
<1>7. /\ mutation.type # "set" /\ ~Found(base.doc) => new = base.doc
      /\ mutation.type = "set" \/ Found(base.doc) =>
            /\ Found(new) /\ new.state = "local"
            /\ \A f \in Fields : new.data[f] = IF Writes(mutation, f) THEN mutation.data[f]
                                                                      ELSE base.doc.data[f]
  BY <1>5, LocalViewShows
<1>8. /\ mutation.type # "set" /\ ~Found(promised) => after = promised
      /\ mutation.type = "set" \/ Found(promised) =>
            /\ Found(after) /\ after.state = "local"
            /\ \A f \in Fields : after.data[f] = IF Writes(mutation, f) THEN mutation.data[f]
                                                                        ELSE promised.data[f]
  BY <1>1, LocalViewShows
<1>9. /\ mutation.type = "set" => mask = Nil
      /\ base.mask = Nil => mask = Nil
      /\ mutation.type # "set" /\ Found(base.doc) /\ base.mask # Nil =>
            mask = base.mask \cup mutation.mask /\ mask # Nil
  BY <1>5, MaskGrows
\* The view the write is applied to, and what it makes of it.
<1>10. overlay = Nil => base.doc = remoteDocument /\ base.mask = Nil
  BY DEF LocalBase, ComputeView
<1>11. overlay # Nil => /\ Found(base.doc) /\ base.doc.data = promised.data /\ Found(promised)
                        /\ base.mask = overlay.mutation.mask
  <2>1. SUFFICES ASSUME overlay # Nil
                 PROVE  /\ Found(base.doc) /\ base.doc.data = promised.data /\ Found(promised)
                        /\ base.mask = overlay.mutation.mask
    BY <2>1
  <2>2. base.doc = ApplyToLocalView(overlay.mutation, remoteDocument)
        /\ base.mask = overlay.mutation.mask
    BY <2>1 DEF LocalBase, ComputeView
  <2>3. overlay \in Overlay /\ Found(promised)
    BY <1>1, <1>3, <2>1 DEF OverlayShows
  <2>4. Found(base.doc) /\ base.doc.data = promised.data
    BY <1>1, <1>3, <2>2, <2>3, OverlayView
  <2> QED
    BY <2>2, <2>3, <2>4
<1>12. overlay = Nil /\ Found(remoteDocument) =>
          Found(promised) /\ remoteDocument.data = promised.data
  BY <1>1, <1>3, CarriesAll DEF OverlayShows
<1> HIDE DEF base, new, mask, after
<1>13. ASSUME mutation.type = "set" \/ Found(base.doc)
       PROVE  Found(after) /\ new.data = after.data
  <2>1. mutation.type = "set" \/ (Found(promised) /\ base.doc.data = promised.data)
    BY <1>10, <1>11, <1>12, <1>13
  <2>2. Found(after) /\ \A f \in Fields : new.data[f] = after.data[f]
    BY <1>7, <1>8, <1>13, <2>1 DEF Writes
  <2>3. new.data \in Data /\ after.data \in Data
    BY <1>6 DEF Document
  <2> QED
    BY <2>2, <2>3 DEF Data
<1>14. CASE mutation.type = "set" \/ Found(base.doc)
  <2>1. new.state = "local" /\ Found(after) /\ new.data = after.data
    BY <1>7, <1>13, <1>14
  <2>2. mask = Nil => Found(remoteDocument) \/ HasSet(mutationQueue')
    BY <1>1, <1>4, <1>9, <1>10, <1>11, <1>14 DEF OverlayShows
  <2>3. ASSUME mask # Nil
        PROVE  Found(remoteDocument)
               /\ \A f \in Fields : f \notin mask => UnwrittenAfter(mutationQueue', 0, f)
    <3>1. /\ overlay # Nil /\ overlay.mutation.mask # Nil /\ mutation.type # "set"
          /\ mask = overlay.mutation.mask \cup mutation.mask
      BY <1>9, <1>10, <1>11, <1>14, <2>3
    <3>2. /\ Found(remoteDocument)
          /\ \A f \in Fields \ overlay.mutation.mask : UnwrittenAfter(mutationQueue, 0, f)
      BY <1>1, <3>1 DEF OverlayShows
    <3> QED
      BY <1>4, <3>1, <3>2 DEF Writes
  <2> QED
    BY <1>2, <1>3, <1>6, <2>1, <2>2, <2>3, SavedShows DEF after
<1>15. CASE ~(mutation.type = "set" \/ Found(base.doc))
  <2>1. overlay = Nil /\ ~Found(remoteDocument) /\ new = remoteDocument
    BY <1>7, <1>10, <1>11, <1>15
  <2>2. remoteDocument.state # "local"
    BY <1>1 DEF VersionInv
  <2>3. overlay' = Nil
    BY <1>2, <2>1, <2>2 DEF SaveOverlay
  <2>4. ~HasSet(mutationQueue)
    BY <1>1, <2>1 DEF OverlayShows, HasSet
  <2> QED
    BY <1>4, <1>15, <2>1, <2>3, <2>4 DEF OverlayShows
<1> QED
  BY <1>14, <1>15

LEMMA OwnWrite ==
    ASSUME ReadInv, promised # Nil, NEW mutation \in Updates, WriteLocally(mutation)
    PROVE  OwnInv'
<1> DEFINE after == ApplyToLocalView(mutation, promised)
           batch == [id |-> nextBatchId, mutation |-> mutation]
<1>1. /\ TypedInv /\ promised \in Document
      /\ OnlyMissingRefused /\ PromiseOfQueue /\ DocumentsCarry
  BY OwnFacts
<1>2. /\ mutationQueue' = Append(mutationQueue, batch) /\ promised' = after
      /\ UNCHANGED <<remoteDocument, server, results, snapshot>>
  BY DEF WriteLocally
<1>3. /\ remoteDocument \in Document /\ server \in Document /\ nextBatchId \in Nat
      /\ snapshot \in Document \cup {Nil}
      /\ results \in Seq(Result) /\ mutationQueue \in UpdateQueue
      /\ Len(results) <= Len(mutationQueue) /\ Len(results) \in Nat /\ Len(mutationQueue) \in Nat
      /\ DOMAIN results = 1 .. Len(results)
  BY <1>1, TypedFacts
<1>4. /\ HasSet(mutationQueue') <=> HasSet(mutationQueue) \/ mutation.type = "set"
      /\ \A i \in 1 .. Len(mutationQueue) : mutationQueue'[i] = mutationQueue[i]
  BY <1>2, <1>3, GrownQueue, QueueGrows
<1>5. /\ mutation.type # "set" /\ ~Found(promised) => after = promised
      /\ mutation.type = "set" \/ Found(promised) =>
            /\ Found(after)
            /\ \A f \in Fields : after.data[f] = IF Writes(mutation, f) THEN mutation.data[f]
                                                                        ELSE promised.data[f]
  BY <1>1, LocalViewShows
<1>6. \A doc \in Document : Carries(doc, promised, mutationQueue, results) =>
                               Carries(doc, after, mutationQueue', results)
  BY <1>1, <1>2, <1>3, CarriesWrite
<1>7. OverlayShows(overlay', remoteDocument, after, mutationQueue')
  BY WriteShows
<1>8. Found(after) => LastWritesAgree(mutationQueue', after.data)
  <2>1. SUFFICES ASSUME Found(after) PROVE LastWritesAgree(mutationQueue', after.data)
    OBVIOUS
  <2>2. mutation.type = "set" \/ Found(promised)
    BY <1>5, <2>1
  <2>3. mutation.type = "set" \/ LastWritesAgree(mutationQueue, promised.data)
    BY <1>1, <2>2 DEF PromiseOfQueue
  <2> HIDE DEF after
  <2> QED
    BY <1>2, <1>3, <1>5, <2>2, <2>3, LastWritesGrow
<1> HIDE DEF after, batch
<1>9. PromiseOfQueue'
  BY <1>1, <1>2, <1>4, <1>5, <1>8 DEF PromiseOfQueue
<1>10. OnlyMissingRefused'
  <2>1. \A i \in DOMAIN results : i \in 1 .. Len(mutationQueue)
    BY <1>3
  <2> QED
    BY <1>1, <1>2, <1>4, <2>1 DEF OnlyMissingRefused
<1>11. DocumentsCarry'
  <2>1. AcceptsUpdate(snapshot)' => AcceptsUpdate(snapshot)
    BY <1>2 DEF AcceptsUpdate
  <2> QED
    BY <1>1, <1>2, <1>3, <1>6, <2>1 DEF DocumentsCarry
<1> QED
  BY <1>2, <1>7, <1>9, <1>10, <1>11 DEF OwnInv

\* The cached document once the answer of the oldest batch is in it.
LEMMA AnsweredCarries ==
    ASSUME ReadInv, promised # Nil, AcknowledgeBatch, Found(remoteDocument')
    PROVE  Carries(remoteDocument', promised, mutationQueue', results')
<1> DEFINE m == mutationQueue[1].mutation
           v == results[1].version
           new == remoteDocument'
<1>1. /\ TypedInv /\ VersionInv /\ ExistsInv /\ promised \in Document
      /\ PromiseOfQueue
      /\ Found(remoteDocument) => Carries(remoteDocument, promised, mutationQueue, results)
  BY OwnFacts
<1>2. /\ results # <<>> /\ mutationQueue' = Tail(mutationQueue) /\ results' = Tail(results)
  BY DEF AcknowledgeBatch
<1>3. /\ mutationQueue \in UpdateQueue /\ results \in Seq(Result) /\ remoteDocument \in Document
      /\ Len(results) <= Len(mutationQueue) /\ Len(mutationQueue) \in Nat
      /\ DOMAIN mutationQueue = 1 .. Len(mutationQueue)
  BY <1>1, TypedFacts
<1>4. /\ 1 \in DOMAIN results
      /\ \A i \in DOMAIN results' :
            i \in Nat /\ i > 0 /\ i + 1 \in DOMAIN results /\ results'[i] = results[i + 1]
  BY <1>1, <1>2, ResultsShrink
<1>5. v \in Nat /\ remoteDocument.version \in Nat
      /\ \A i \in DOMAIN results' : results'[i].version \in Nat
  BY <1>1, <1>4, VersionTypes
<1>6. /\ mutationQueue # <<>> /\ m \in Updates /\ results[1].ok
      /\ remoteDocument.version >= v => new = remoteDocument
      /\ remoteDocument.version < v =>
            /\ new.version = v
            /\ m.type = "set" \/ Found(remoteDocument)
            /\ \A f \in Fields : new.data[f] = IF Writes(m, f) THEN m.data[f]
                                                               ELSE remoteDocument.data[f]
  BY <1>1, CachedAfterAnswer DEF Found
<1>7. CASE remoteDocument.version >= v
  <2>1. new = remoteDocument /\ Covers(remoteDocument, 1, results)
    BY <1>5, <1>6, <1>7 DEF Covers
  <2>2. Carries(remoteDocument, promised, Tail(mutationQueue), Tail(results))
    BY <1>1, <1>2, <1>3, <1>6, <2>1, CarriesShift
  <2> QED
    BY <1>2, <2>1, <2>2
<1>8. CASE remoteDocument.version < v
  <2>1. /\ new.version = v /\ (m.type = "set" \/ Found(remoteDocument))
        /\ \A f \in Fields : new.data[f] = IF Writes(m, f) THEN m.data[f]
                                                           ELSE remoteDocument.data[f]
    BY <1>6, <1>8
  <2>2. 1 \in DOMAIN mutationQueue
    BY <1>3, <1>6
  <2>3. Found(promised) /\ LastWritesAgree(mutationQueue, promised.data)
    BY <1>1, <2>1, <2>2 DEF PromiseOfQueue, HasSet, Carries
  <2>4. ASSUME NEW i \in 0 .. Len(results'), Covers(new, i, results') PROVE i = 0
    <3>1. SUFFICES ASSUME i # 0 PROVE FALSE
      OBVIOUS
    <3>2. i \in DOMAIN results'
      BY <1>2, <1>3, <3>1
    <3>3. /\ 1 < i + 1 /\ i + 1 \in DOMAIN results /\ results[i + 1].ok
          /\ results[i + 1].version <= v /\ results[i + 1].version \in Nat
      BY <1>4, <1>5, <2>1, <2>4, <3>1, <3>2 DEF Covers
    <3>4. v < results[i + 1].version
      BY <1>1, <1>4, <3>3 DEF VersionInv
    <3> QED
      BY <1>5, <3>3, <3>4
  <2>5. ASSUME NEW f \in Fields, UnwrittenAfter(mutationQueue', 0, f)
        PROVE  new.data[f] = promised.data[f]
    <3>1. UnwrittenAfter(mutationQueue, 1, f)
      <4>1. 0 \in 0 .. Len(mutationQueue) - 1 /\ 0 + 1 = 1
        BY <1>3, <1>6
      <4> QED
        BY <1>2, <1>3, <1>6, <2>5, <4>1, ShrunkQueue
    <3>2. CASE Writes(m, f)
      BY <2>1, <2>2, <2>3, <3>1, <3>2 DEF LastWritesAgree
    <3>3. CASE ~Writes(m, f)
      <4>1. Found(remoteDocument)
        BY <2>1, <3>3 DEF Writes
      <4>2. UnwrittenAfter(mutationQueue, 0, f)
        <5>1. \A j \in 0 + 1 .. Len(mutationQueue) : j = 1 \/ j \in 1 + 1 .. Len(mutationQueue)
          BY <1>3
        <5> QED
          BY <3>1, <3>3, <5>1 DEF UnwrittenAfter
      <4>3. 0 \in 0 .. Len(results)
        BY <1>3
      <4>4. remoteDocument.data[f] = promised.data[f]
        BY <1>1, <4>1, <4>2, <4>3 DEF Carries, Covers, UnwrittenAgree
      <4> QED
        BY <2>1, <3>3, <4>4
    <3> QED
      BY <3>2, <3>3
  <2> HIDE DEF new, m, v
  <2> QED
    BY <2>3, <2>4, <2>5 DEF Carries, UnwrittenAgree, new
<1> QED
  BY <1>5, <1>7, <1>8

\* An overlay that outlives the answer still shows the promised document.
LEMMA AnsweredShows ==
    ASSUME ReadInv, promised # Nil, AcknowledgeBatch
    PROVE  OverlayShows(overlay', remoteDocument', promised, mutationQueue')
<1> DEFINE m == mutationQueue[1].mutation
           v == results[1].version
           left == Tail(mutationQueue)
<1>1. /\ TypedInv /\ ExistsInv /\ StoreInv /\ IdsIncrease
      /\ OverlayShows(overlay, remoteDocument, promised, mutationQueue)
  BY OwnFacts
<1>2. /\ results # <<>> /\ mutationQueue' = left
      /\ overlay' = RemoveOverlaysForBatchId(Head(mutationQueue).id)
      /\ results' = Tail(results)
  BY DEF AcknowledgeBatch
<1>3. mutationQueue \in UpdateQueue /\ Len(mutationQueue) \in Nat
  BY <1>1, TypedFacts
<1>4. v \in Nat /\ remoteDocument.version \in Nat /\ 1 \in DOMAIN results
  BY <1>1, <1>2, ResultsShrink, VersionTypes
<1>5. /\ mutationQueue # <<>> /\ m \in Updates /\ results[1].ok
      /\ remoteDocument.version >= v => remoteDocument' = remoteDocument
      /\ remoteDocument.version < v =>
            (Found(remoteDocument') <=> m.type = "set" \/ Found(remoteDocument))
  BY <1>1, CachedAfterAnswer DEF Found
<1>6. HasSet(mutationQueue) <=> m.type = "set" \/ HasSet(left)
  BY <1>3, <1>5, ShrunkQueue
<1>7. \A f \in Fields : UnwrittenAfter(mutationQueue, 0, f) => UnwrittenAfter(left, 0, f)
  <2>1. 0 \in 0 .. Len(mutationQueue) - 1 /\ 0 + 1 = 1
    BY <1>3, <1>5
  <2>2. \A j \in 1 + 1 .. Len(mutationQueue) : j \in 0 + 1 .. Len(mutationQueue)
    BY <1>3
  <2>3. \A f \in Fields : UnwrittenAfter(mutationQueue, 0, f) => UnwrittenAfter(mutationQueue, 1, f)
    BY <2>2 DEF UnwrittenAfter
  <2> QED
    BY <1>3, <1>5, <2>1, <2>3, ShrunkQueue
<1>8. Found(remoteDocument') <=> m.type = "set" \/ Found(remoteDocument)
  <2>1. v <= remoteDocument.version => Found(remoteDocument)
    BY <1>1, <1>4, <1>5 DEF ExistsInv
  <2> QED
    BY <1>4, <1>5, <2>1
<1>9. overlay' = overlay \/ left = <<>>
  BY <1>1, <1>2, <1>5, OverlayGoesLast
<1>10. overlay' # Nil => overlay' = overlay
  BY <1>2 DEF RemoveOverlaysForBatchId
<1> HIDE DEF m, v, left
<1>11. CASE overlay' = Nil
  <2>1. ASSUME left # <<>> PROVE ~Found(remoteDocument') /\ ~HasSet(left)
    <3>1. overlay = Nil
      BY <1>9, <1>11, <2>1
    <3>2. ~Found(remoteDocument) /\ ~HasSet(mutationQueue)
      BY <1>1, <1>5, <3>1 DEF OverlayShows
    <3> QED
      BY <1>6, <1>8, <3>2
  <2> QED
    BY <1>2, <1>11, <2>1 DEF OverlayShows
<1>12. CASE overlay' # Nil
  <2>1. overlay' = overlay /\ overlay # Nil
    BY <1>10, <1>12
  <2>2. Found(promised) /\ ~overlay.mutation.exists
    BY <1>1, <2>1 DEF OverlayShows
  <2>3. CASE overlay.mutation.type = "set"
    <3>1. /\ overlay.mutation.mask = Nil /\ overlay.mutation.data = promised.data
          /\ Found(remoteDocument) \/ HasSet(mutationQueue)
      BY <1>1, <2>1, <2>3 DEF OverlayShows
    <3>2. Found(remoteDocument') \/ HasSet(left)
      BY <1>6, <1>8, <3>1
    <3> QED
      BY <1>2, <2>1, <2>2, <2>3, <3>1, <3>2 DEF OverlayShows
  <2>4. CASE overlay.mutation.type # "set"
    <3>1. /\ overlay.mutation.type = "patch" /\ overlay.mutation.mask \in SUBSET Fields
          /\ Found(remoteDocument)
          /\ \A f \in overlay.mutation.mask : overlay.mutation.data[f] = promised.data[f]
          /\ \A f \in Fields \ overlay.mutation.mask : UnwrittenAfter(mutationQueue, 0, f)
      BY <1>1, <2>1, <2>4 DEF OverlayShows
    <3>2. /\ Found(remoteDocument')
          /\ \A f \in Fields \ overlay.mutation.mask : UnwrittenAfter(left, 0, f)
      BY <1>7, <1>8, <3>1
    <3> QED
      BY <1>2, <2>1, <2>2, <3>1, <3>2 DEF OverlayShows
  <2> QED
    BY <2>3, <2>4
<1> QED
  BY <1>11, <1>12

\* Refusals and promises when the oldest batch and its answer leave.
LEMMA AnsweredRest ==
    ASSUME ReadInv, promised # Nil, results # <<>>, mutationQueue' = Tail(mutationQueue),
           results' = Tail(results), UNCHANGED <<server, promised>>
    PROVE  OnlyMissingRefused' /\ PromiseOfQueue'
<1>1. TypedInv /\ OnlyMissingRefused /\ PromiseOfQueue
  BY OwnFacts
<1>2. /\ mutationQueue \in UpdateQueue /\ mutationQueue # <<>> /\ Len(mutationQueue) \in Nat
      /\ Len(results) \in Nat /\ Len(results) <= Len(mutationQueue)
      /\ DOMAIN results = 1 .. Len(results)
  BY <1>1, TypedFacts
<1>3. \A i \in DOMAIN results' :
         i \in Nat /\ i > 0 /\ i + 1 \in DOMAIN results /\ results'[i] = results[i + 1]
  BY <1>1, ResultsShrink
<1>4. \A i \in DOMAIN results' : mutationQueue'[i] = mutationQueue[i + 1]
  <2>1. \A i \in DOMAIN results' : i \in 1 .. Len(mutationQueue) - 1
    BY <1>2, <1>3
  <2> QED
    BY <1>2, <2>1, QueueShrinks
<1>5. OnlyMissingRefused'
  BY <1>1, <1>3, <1>4 DEF OnlyMissingRefused
<1>6. HasSet(mutationQueue') => HasSet(mutationQueue)
  BY <1>2, ShrunkQueue
<1>7. LastWritesAgree(mutationQueue, promised.data) => LastWritesAgree(mutationQueue', promised.data)
  BY <1>2, LastWritesShrink
<1> QED
  BY <1>1, <1>5, <1>6, <1>7 DEF PromiseOfQueue

LEMMA OwnAcknowledge ==
    ASSUME ReadInv, promised # Nil, AcknowledgeBatch
    PROVE  OwnInv'
<1> DEFINE v == results[1].version
<1>1. /\ TypedInv /\ VersionInv /\ ExistsInv /\ promised \in Document /\ DocumentsCarry
  BY OwnFacts
<1>2. /\ results # <<>> /\ mutationQueue' = Tail(mutationQueue) /\ results' = Tail(results)
      /\ UNCHANGED <<server, snapshot, promised>>
  BY DEF AcknowledgeBatch
<1>3. /\ mutationQueue \in UpdateQueue /\ results \in Seq(Result)
      /\ remoteDocument \in Document /\ server \in Document /\ snapshot \in Document \cup {Nil}
      /\ Len(results) <= Len(mutationQueue)
  BY <1>1, TypedFacts
<1>4. /\ v \in Nat /\ remoteDocument.version \in Nat /\ 1 \in DOMAIN results
      /\ snapshot # Nil => snapshot.version \in Nat
  BY <1>1, <1>2, ResultsShrink, VersionTypes
<1>5. /\ mutationQueue # <<>> /\ results[1].ok
      /\ remoteDocument.version >= v => remoteDocument' = remoteDocument
      /\ remoteDocument.version < v =>
            /\ remoteDocument'.version = v
            /\ remoteDocument'.kind \in {"found", "unknown"}
  BY <1>1, CachedAfterAnswer DEF Found
<1>6. 0 < v /\ v <= server.version /\ Found(server)
  BY <1>1, <1>4, <1>5 DEF VersionInv, ExistsInv
<1>7. \A doc \in Document :
          Found(doc) /\ v <= doc.version /\ Carries(doc, promised, mutationQueue, results) =>
              Carries(doc, promised, mutationQueue', results')
  BY <1>2, <1>3, <1>5, CarriesShift DEF Covers
<1>8. Carries(server, promised, mutationQueue', results')
  BY <1>1, <1>3, <1>6, <1>7 DEF DocumentsCarry
<1>9. remoteDocument'.kind \in {"found", "none"} =>
          Carries(remoteDocument', promised, mutationQueue', results')
  <2>1. remoteDocument'.kind \in {"found", "none"} => Found(remoteDocument')
    <3>1. v <= remoteDocument.version => Found(remoteDocument)
      BY <1>1, <1>4, <1>5 DEF ExistsInv
    <3> QED
      BY <1>4, <1>5, <3>1 DEF Found
  <2> QED
    BY <2>1, AnsweredCarries
<1>10. snapshot # Nil /\ AcceptsUpdate(snapshot)' =>
          Carries(snapshot, promised, mutationQueue', results')
  <2>1. SUFFICES ASSUME snapshot # Nil, AcceptsUpdate(snapshot)'
                 PROVE  Carries(snapshot, promised, mutationQueue', results')
    OBVIOUS
  <2>2. /\ remoteDocument'.kind # "invalid" /\ v <= remoteDocument'.version
        /\ remoteDocument'.version \in Nat
    <3>1. remoteDocument.kind = "invalid" => remoteDocument.version = 0
      BY <1>1 DEF VersionInv
    <3> QED
      BY <1>4, <1>5, <1>6, <3>1
  <2>3. remoteDocument'.version <= snapshot.version /\ snapshot.version \in Nat
        /\ snapshot' = snapshot
    BY <1>2, <1>4, <2>1, <2>2 DEF AcceptsUpdate
  <2>4. v <= snapshot.version
    BY <1>4, <2>2, <2>3
  <2>5. Found(snapshot)
    BY <1>1, <1>4, <1>5, <2>1, <2>4 DEF ExistsInv
  <2>6. AcceptsUpdate(snapshot)
    <3>1. CASE remoteDocument' = remoteDocument
      BY <2>1, <2>3, <3>1 DEF AcceptsUpdate
    <3>2. CASE remoteDocument' # remoteDocument
      <4>1. remoteDocument.version < v
        BY <1>4, <1>5, <3>2
      <4> QED
        BY <1>4, <2>3, <2>4, <4>1 DEF AcceptsUpdate
    <3> QED
      BY <3>1, <3>2
  <2>7. Carries(snapshot, promised, mutationQueue, results)
    BY <1>1, <2>1, <2>6 DEF DocumentsCarry
  <2> QED
    BY <1>3, <1>7, <2>1, <2>4, <2>5, <2>7
<1>11. DocumentsCarry'
  BY <1>2, <1>8, <1>9, <1>10 DEF DocumentsCarry
<1>12. OnlyMissingRefused' /\ PromiseOfQueue'
  BY <1>2, AnsweredRest
<1>13. OverlayShows(overlay', remoteDocument', promised, mutationQueue')
  BY AnsweredShows
<1> QED
  BY <1>2, <1>11, <1>12, <1>13 DEF OwnInv

\* What is refused is the update of a missing document: nothing of it was shown.
LEMMA OwnReject ==
    ASSUME ReadInv, promised # Nil, RejectBatch
    PROVE  OwnInv'
<1> DEFINE left == Tail(mutationQueue)
           old == RemoveOverlaysForBatchId(Head(mutationQueue).id)
           view == Replayed(left, remoteDocument)
<1>1. /\ TypedInv /\ VersionInv /\ ExistsInv /\ StoreInv /\ promised \in Document
      /\ OnlyMissingRefused /\ PromiseOfQueue /\ DocumentsCarry
      /\ OverlayShows(overlay, remoteDocument, promised, mutationQueue)
  BY OwnFacts
<1>2. /\ results # <<>> /\ ~Head(results).ok /\ mutationQueue' = left /\ results' = Tail(results)
      /\ overlay' = RecalculateAndSaveOverlays(left, remoteDocument, old)
      /\ UNCHANGED <<remoteDocument, server, snapshot, promised>>
  BY DEF RejectBatch
<1>3. /\ mutationQueue \in UpdateQueue /\ mutationQueue # <<>>
      /\ remoteDocument \in Document /\ overlay \in Overlay \cup {Nil}
  BY <1>1, <1>2, TypedFacts
<1>4. ~Found(server) /\ mutationQueue[1].mutation.type # "set"
  <2>1. 1 \in DOMAIN results /\ ~results[1].ok
    BY <1>1, <1>2, ResultsShrink
  <2> QED
    BY <1>1, <2>1 DEF OnlyMissingRefused
<1>5. ~Found(remoteDocument) /\ (snapshot # Nil => ~Found(snapshot))
  BY <1>1, <1>4 DEF ExistsInv
<1>6. left \in UpdateQueue /\ (HasSet(mutationQueue) <=> HasSet(left))
  BY <1>3, <1>4, ShrunkQueue, QueueShrinks
<1>7. OnlyMissingRefused' /\ PromiseOfQueue'
  BY <1>2, AnsweredRest
<1>8. DocumentsCarry'
  <2>1. \A doc : ~Found(doc) /\ Carries(doc, promised, mutationQueue, results) =>
                    Carries(doc, promised, left, results')
    BY <1>6 DEF Carries
  <2>2. AcceptsUpdate(snapshot)' => AcceptsUpdate(snapshot)
    BY <1>2 DEF AcceptsUpdate
  <2> QED
    BY <1>1, <1>2, <1>4, <1>5, <2>1, <2>2 DEF DocumentsCarry
<1>9. old \in Overlay \cup {Nil}
  BY <1>3 DEF RemoveOverlaysForBatchId
<1>10. OverlayShows(overlay', remoteDocument, promised, left)
  <2>1. CASE HasSet(left)
    <3>1. left # <<>>
      BY <2>1 DEF HasSet
    <3>2. Found(promised) /\ LastWritesAgree(left, promised.data) /\ promised.data \in Data
      BY <1>1, <1>2, <1>6, <1>7, <2>1 DEF PromiseOfQueue, Document
    <3>3. Found(view.doc) /\ view.doc.data = promised.data /\ view.doc.state = "local"
      <4> HIDE DEF left
      <4>1. left \in UpdateQueue /\ remoteDocument \in Document /\ ~Found(remoteDocument)
        BY <1>3, <1>5, <1>6
      <4> QED
        BY <2>1, <3>1, <3>2, <4>1, ReplayedShows
    <3>4. view.mask = Nil /\ view.doc \in Document /\ view.mask \in Mask
      BY <1>3, <1>6, <2>1, ReplayedNoMask, ReplayedTyped DEF View
    <3>5. Last(left).id \in Nat
      <4>1. left \in Seq(Batch) /\ left[Len(left)] \in Batch
        BY <1>6, <3>1 DEF UpdateQueue
      <4> QED
        BY <4>1 DEF Last, Batch
    <3>6. overlay' = SaveOverlay(Last(left).id, view.doc, view.mask, old)
      BY <1>2, <3>1 DEF RecalculateAndSaveOverlays
    <3> HIDE DEF view, left, old
    <3> QED
      BY <1>9, <2>1, <3>2, <3>3, <3>4, <3>5, <3>6, SavedShows
  <2>2. CASE ~HasSet(left)
    <3>1. overlay = Nil
      BY <1>1, <1>4, <1>6, <2>2 DEF OverlayShows, DocumentsCarry, Carries
    <3>2. old = Nil
      BY <3>1 DEF RemoveOverlaysForBatchId
    <3>3. view.doc = remoteDocument /\ remoteDocument.state # "local"
      BY <1>1, <1>3, <1>5, <1>6, <2>2, ReplayedNothing DEF VersionInv
    <3>4. overlay' = Nil
      BY <1>2, <3>2, <3>3 DEF RecalculateAndSaveOverlays, SaveOverlay
    <3> QED
      BY <1>5, <2>2, <3>4 DEF OverlayShows
  <2> QED
    BY <2>1, <2>2
<1> QED
  BY <1>2, <1>7, <1>8, <1>10 DEF OwnInv

\* A snapshot: the overlay is made anew when the document appears.
LEMMA OwnRemoteEvent ==
    ASSUME ReadInv, promised # Nil, ApplyRemoteEvent
    PROVE  OwnInv'
<1> DEFINE view == Replayed(mutationQueue, snapshot)
<1>1. /\ TypedInv /\ VersionInv /\ ExistsInv /\ promised \in Document
      /\ OnlyMissingRefused /\ PromiseOfQueue /\ DocumentsCarry
      /\ OverlayShows(overlay, remoteDocument, promised, mutationQueue)
  BY OwnFacts
<1>2. /\ snapshot # Nil /\ snapshot' = Nil
      /\ UNCHANGED <<mutationQueue, server, results, promised>>
  BY DEF ApplyRemoteEvent
<1>3. /\ mutationQueue \in UpdateQueue /\ overlay \in Overlay \cup {Nil}
      /\ snapshot \in Document /\ remoteDocument \in Document /\ results \in Seq(Result)
  BY <1>1, <1>2, TypedFacts
<1>4. OnlyMissingRefused' /\ PromiseOfQueue'
  BY <1>1, <1>2 DEF OnlyMissingRefused, PromiseOfQueue
<1>5. CASE ~AcceptsUpdate(snapshot)
  <2>1. UNCHANGED <<remoteDocument, overlay>>
    BY <1>5 DEF ApplyRemoteEvent
  <2>2. DocumentsCarry'
    BY <1>1, <1>2, <2>1 DEF DocumentsCarry
  <2> QED
    BY <1>1, <1>2, <1>4, <2>1, <2>2 DEF OwnInv
<1>6. CASE AcceptsUpdate(snapshot)
  <2>1. /\ remoteDocument' = snapshot
        /\ overlay' = IF /\ (snapshot.kind = "found") # (remoteDocument.kind = "found")
                         /\ (overlay = Nil \/ overlay.mutation.type = "patch")
                      THEN RecalculateAndSaveOverlays(mutationQueue, snapshot, overlay)
                      ELSE overlay
    BY <1>6 DEF ApplyRemoteEvent
  <2>2. Carries(snapshot, promised, mutationQueue, results)
    BY <1>1, <1>2, <1>6 DEF DocumentsCarry
  <2>3. DocumentsCarry'
    BY <1>1, <1>2, <2>1, <2>2 DEF DocumentsCarry
  <2>4. Found(remoteDocument) => Found(snapshot)
    <3>1. SUFFICES ASSUME Found(remoteDocument), ~Found(snapshot) PROVE FALSE
      OBVIOUS
    <3>2. snapshot.version < remoteDocument.version
      BY <1>1, <1>2, <3>1 DEF ExistsInv
    <3>3. snapshot.version \in Nat /\ remoteDocument.version \in Nat
      BY <1>1, <1>2, VersionTypes
    <3> QED
      BY <1>6, <3>1, <3>2, <3>3 DEF AcceptsUpdate, Found
  <2>5. OverlayShows(overlay', snapshot, promised, mutationQueue)
    <3>1. CASE Found(remoteDocument) <=> Found(snapshot)
      <4>1. overlay' = overlay
        BY <2>1, <3>1 DEF Found
      <4> QED
        BY <1>1, <3>1, <4>1 DEF OverlayShows
    <3>2. CASE ~Found(remoteDocument) /\ Found(snapshot)
      <4>1. CASE overlay # Nil
        <5>1. overlay.mutation.type = "set"
          BY <1>1, <3>2, <4>1 DEF OverlayShows
        <5>2. overlay' = overlay
          BY <2>1, <4>1, <5>1
        <5> QED
          BY <1>1, <3>2, <4>1, <5>1, <5>2 DEF OverlayShows
      <4>2. CASE overlay = Nil /\ mutationQueue = <<>>
        <5>1. overlay' = Nil
          BY <2>1, <4>2 DEF RecalculateAndSaveOverlays
        <5> QED
          BY <4>2, <5>1 DEF OverlayShows
      <4>3. CASE overlay = Nil /\ mutationQueue # <<>>
        <5>1. ~HasSet(mutationQueue)
          BY <1>1, <4>3 DEF OverlayShows
        <5>2. /\ Found(promised) /\ promised.data \in Data
              /\ LastWritesAgree(mutationQueue, promised.data)
          BY <1>1, <2>2, <3>2 DEF Carries, PromiseOfQueue, Document
        <5>3. UnwrittenAgree(mutationQueue, 0, snapshot, promised.data)
          <6>1. 0 \in 0 .. Len(results)
            BY <1>3
          <6> QED
            BY <2>2, <3>2, <6>1 DEF Carries, Covers
        <5>4. view.doc.data = promised.data /\ view.doc.state = "local"
          BY <1>3, <3>2, <4>3, <5>2, <5>3, ReplayedShows
        <5>5. /\ view.mask \in SUBSET Fields /\ view.mask # Nil
              /\ \A f \in Fields : f \notin view.mask => UnwrittenAfter(mutationQueue, 0, f)
          BY <1>3, <3>2, <5>1, ReplayedMask
        <5>6. view.doc \in Document /\ view.mask \in Mask
          BY <1>3, ReplayedTyped DEF View
        <5>7. Last(mutationQueue).id \in Nat
          <6>1. mutationQueue \in Seq(Batch) /\ mutationQueue[Len(mutationQueue)] \in Batch
            BY <1>3, <4>3 DEF UpdateQueue
          <6> QED
            BY <6>1 DEF Last, Batch
        <5>8. overlay' = SaveOverlay(Last(mutationQueue).id, view.doc, view.mask, overlay)
          BY <2>1, <3>2, <4>3 DEF RecalculateAndSaveOverlays, Found
        <5> HIDE DEF view
        <5> QED
          BY <1>3, <3>2, <5>2, <5>4, <5>5, <5>6, <5>7, <5>8, SavedShows
      <4> QED
        BY <4>1, <4>2, <4>3
    <3> QED
      BY <2>4, <3>1, <3>2
  <2> QED
    BY <1>2, <1>4, <2>1, <2>3, <2>5 DEF OwnInv
<1> QED
  BY <1>5, <1>6

\* The backend carries out the next batch of this device.
LEMMA CommitCarries ==
    ASSUME ReadInv, promised # Nil, DecideBatch, NEW mutation,
           mutation = mutationQueue[Len(results) + 1].mutation,
           IsValidFor(mutation, server), server' = Commit(mutation),
           results' = Append(results, [ok |-> TRUE, version |-> server'.version])
    PROVE  Carries(server', promised, mutationQueue, results')
<1> DEFINE n == Len(results)
           k == Len(mutationQueue)
<1>1. TypedInv /\ VersionInv /\ promised \in Document /\ PromiseOfQueue /\ DocumentsCarry
  BY OwnFacts
<1>2. /\ n < k /\ n \in Nat /\ k \in Nat /\ DOMAIN mutationQueue = 1 .. k
      /\ mutation \in Updates
      /\ \A i \in DOMAIN results : results[i].ok
      /\ DOMAIN results = 1 .. n
  BY <1>1, TypedFacts DEF DecideBatch
<1>3. /\ Found(server') /\ server'.version = server.version + 1
      /\ server.version \in Nat
      /\ server'.data = Applied(mutation, server.data)
  BY <1>1, VersionTypes DEF Commit, Found
<1>4. \A f \in Fields : server'.data[f] = IF Writes(mutation, f) THEN mutation.data[f]
                                                                ELSE server.data[f]
  BY <1>2, <1>3, UpdateParts DEF Applied, Writes
<1>5. mutation.type = "set" \/ Found(server)
  BY <1>2, UpdateParts DEF IsValidFor, Found
<1>6. [ok |-> TRUE, version |-> server'.version] \in Result
  BY <1>3 DEF Result
<1>7. Len(results') = n + 1
  BY <1>1, <1>6, ResultsGrow
<1> HIDE DEF n, k
<1>8. n + 1 \in 1 .. k
  BY <1>2
<1>9. Found(promised) /\ LastWritesAgree(mutationQueue, promised.data)
  <2>1. mutation.type = "set" => HasSet(mutationQueue)
    BY <1>2, <1>8 DEF HasSet, n
  <2> QED
    BY <1>1, <1>5, <2>1 DEF PromiseOfQueue, DocumentsCarry, Carries
<1>10. ASSUME Found(server), NEW i \in 0 .. n
       PROVE  UnwrittenAgree(mutationQueue, i, server, promised.data)
  <2>1. Covers(server, i, results)
    <3>1. i = 0 \/ i \in DOMAIN results
      BY <1>2
    <3> QED
      BY <1>1, <1>2, <3>1 DEF Covers, VersionInv
  <2> QED
    BY <1>1, <1>10, <2>1 DEF DocumentsCarry, Carries, n
<1>11. ASSUME NEW i \in 0 .. n + 1, NEW f \in Fields, UnwrittenAfter(mutationQueue, i, f)
       PROVE  server'.data[f] = promised.data[f]
  <2>1. CASE i \in 0 .. n
    <3>1. n + 1 \in i + 1 .. k
      BY <1>2, <2>1
    <3>2. ~Writes(mutation, f)
      BY <1>11, <3>1 DEF UnwrittenAfter, n, k
    <3>3. Found(server)
      BY <1>5, <3>2 DEF Writes
    <3>4. server.data[f] = promised.data[f]
      BY <1>10, <1>11, <2>1, <3>3 DEF UnwrittenAgree
    <3> QED
      BY <1>4, <3>2, <3>4
  <2>2. CASE i = n + 1
    <3>1. CASE Writes(mutation, f)
      BY <1>2, <1>4, <1>8, <1>9, <1>11, <2>2, <3>1 DEF LastWritesAgree, n
    <3>2. CASE ~Writes(mutation, f)
      <4>1. Found(server)
        BY <1>5, <3>2 DEF Writes
      <4>2. UnwrittenAfter(mutationQueue, n, f)
        <5>1. \A j \in n + 1 .. k : j = n + 1 \/ j \in (n + 1) + 1 .. k
          BY <1>2
        <5> QED
          BY <1>11, <2>2, <3>2, <5>1 DEF UnwrittenAfter, n, k
      <4>3. n \in 0 .. n
        BY <1>2
      <4>4. server.data[f] = promised.data[f]
        BY <1>10, <4>1, <4>2, <4>3 DEF UnwrittenAgree
      <4> QED
        BY <1>4, <3>2, <4>4
    <3> QED
      BY <3>1, <3>2
  <2>3. i \in 0 .. n \/ i = n + 1
    BY <1>2
  <2> QED
    BY <2>1, <2>2, <2>3
<1> QED
  BY <1>3, <1>7, <1>9, <1>11 DEF Carries, UnwrittenAgree

LEMMA OwnDecide ==
    ASSUME ReadInv, promised # Nil, DecideBatch
    PROVE  OwnInv'
<1> DEFINE mutation == mutationQueue[Len(results) + 1].mutation
<1>1. /\ TypedInv /\ VersionInv /\ promised \in Document
      /\ OnlyMissingRefused /\ PromiseOfQueue /\ DocumentsCarry
      /\ OverlayShows(overlay, remoteDocument, promised, mutationQueue)
  BY OwnFacts
<1>2. /\ UNCHANGED <<remoteDocument, mutationQueue, overlay, snapshot>>
      /\ \A i \in DOMAIN results : results[i].ok
      /\ Len(results) < Len(mutationQueue)
  BY DEF DecideBatch
<1>3. /\ remoteDocument \in Document /\ server \in Document /\ snapshot \in Document \cup {Nil}
      /\ results \in Seq(Result) /\ Len(results) \in Nat /\ Len(mutationQueue) \in Nat
      /\ DOMAIN mutationQueue = 1 .. Len(mutationQueue)
      /\ \A i \in DOMAIN mutationQueue : mutationQueue[i].mutation \in Updates
  BY <1>1, TypedFacts
<1>4. mutation \in Updates
  BY <1>2, <1>3
<1>5. AcceptsUpdate(snapshot)' => AcceptsUpdate(snapshot)
  BY <1>2 DEF AcceptsUpdate
<1>6. /\ remoteDocument.version \in Nat /\ server.version \in Nat
      /\ remoteDocument.version <= server.version
      /\ snapshot # Nil => snapshot.version \in Nat /\ snapshot.version <= server.version
  BY <1>1, VersionTypes DEF VersionInv
<1> HIDE DEF mutation
<1>7. CASE /\ IsValidFor(mutation, server) /\ server' = Commit(mutation)
           /\ results' = Append(results, [ok |-> TRUE, version |-> server'.version])
           /\ promised' = promised
  <2> DEFINE answer == [ok |-> TRUE, version |-> server'.version]
  <2>1. server'.version = server.version + 1
    BY <1>7 DEF Commit
  <2>2. answer \in Result /\ answer.ok /\ answer.version = server.version + 1
    BY <1>6, <2>1 DEF Result
  <2>3. results' = Append(results, answer)
    BY <1>7
  <2> HIDE DEF answer
  <2>4. /\ \A i \in DOMAIN results : results'[i] = results[i]
        /\ results'[Len(results) + 1] = answer
        /\ \A i \in DOMAIN results' : i \in DOMAIN results \/ i = Len(results) + 1
    BY <1>1, <2>2, <2>3, ResultsGrow
  <2>5. OnlyMissingRefused'
    BY <1>2, <2>2, <2>4 DEF OnlyMissingRefused
  <2>6. PromiseOfQueue'
    BY <1>1, <1>2, <1>7 DEF PromiseOfQueue
  <2>7. Carries(server', promised, mutationQueue, results')
    BY <1>7, CommitCarries DEF mutation
  <2>8. \A doc \in Document :
           ~(server.version + 1 <= doc.version) /\ Carries(doc, promised, mutationQueue, results) =>
              Carries(doc, promised, mutationQueue, results')
    BY <1>3, <2>2, <2>3, CarriesAnswer
  <2>9. /\ ~(server.version + 1 <= remoteDocument.version)
        /\ snapshot # Nil => ~(server.version + 1 <= snapshot.version)
    BY <1>6
  <2>10. DocumentsCarry'
    BY <1>1, <1>2, <1>3, <1>5, <1>7, <2>7, <2>8, <2>9 DEF DocumentsCarry
  <2> QED
    BY <1>1, <1>2, <1>7, <2>5, <2>6, <2>10 DEF OwnInv
<1>8. CASE /\ ~IsValidFor(mutation, server)
           /\ results' = Append(results, [ok |-> FALSE, version |-> 0])
           /\ UNCHANGED <<server, promised>>
  <2> DEFINE answer == [ok |-> FALSE, version |-> 0]
  <2>1. answer \in Result /\ ~answer.ok
    BY DEF Result
  <2>2. results' = Append(results, answer)
    BY <1>8
  <2> HIDE DEF answer
  <2>3. /\ \A i \in DOMAIN results : results'[i] = results[i]
        /\ \A i \in DOMAIN results' : i \in DOMAIN results \/ i = Len(results) + 1
    BY <1>1, <2>1, <2>2, ResultsGrow
  <2>4. ~Found(server) /\ mutation.type # "set"
    BY <1>4, <1>8, UpdateParts DEF IsValidFor, Found
  <2>5. OnlyMissingRefused'
    BY <1>2, <1>8, <2>3, <2>4 DEF OnlyMissingRefused, mutation
  <2>6. PromiseOfQueue'
    BY <1>1, <1>2, <1>8 DEF PromiseOfQueue
  <2>7. \A doc \in Document : Carries(doc, promised, mutationQueue, results) =>
                                 Carries(doc, promised, mutationQueue, results')
    BY <1>3, <2>1, <2>2, CarriesAnswer
  <2>8. DocumentsCarry'
    BY <1>1, <1>2, <1>3, <1>5, <1>8, <2>7 DEF DocumentsCarry
  <2> QED
    BY <1>1, <1>2, <1>8, <2>5, <2>6, <2>8 DEF OwnInv
<1>9. CASE promised' = Nil
  BY <1>9 DEF OwnInv
<1> QED
  BY <1>7, <1>8, <1>9 DEF DecideBatch, mutation

\* Answers and a snapshot that are lost on the way.
LEMMA OwnLost ==
    ASSUME ReadInv, promised # Nil, results' = <<>>, snapshot' \in {snapshot, Nil},
           UNCHANGED <<remoteDocument, mutationQueue, overlay, server, promised>>
    PROVE  OwnInv'
<1>1. /\ TypedInv /\ OnlyMissingRefused /\ PromiseOfQueue /\ DocumentsCarry
      /\ OverlayShows(overlay, remoteDocument, promised, mutationQueue)
  BY OwnFacts
<1>2. results \in Seq(Result)
  BY <1>1, TypedFacts
<1>3. \A doc : Carries(doc, promised, mutationQueue, results) =>
                  Carries(doc, promised, mutationQueue, <<>>)
  BY <1>2, CarriesLost
<1>4. snapshot' # Nil /\ AcceptsUpdate(snapshot)' =>
          snapshot' = snapshot /\ snapshot # Nil /\ AcceptsUpdate(snapshot)
  BY DEF AcceptsUpdate
<1>5. DocumentsCarry'
  BY <1>1, <1>3, <1>4 DEF DocumentsCarry
<1>6. OnlyMissingRefused' /\ PromiseOfQueue'
  BY <1>1 DEF OnlyMissingRefused, PromiseOfQueue
<1> QED
  BY <1>1, <1>5, <1>6 DEF OwnInv

\* A step of StoreNext, or one that changes nothing, keeps the invariant.
LEMMA ReadStep == ReadInv /\ [StoreNext]_storeVars => ReadInv'
<1> SUFFICES ASSUME ReadInv, [StoreNext]_storeVars PROVE ReadInv'
  OBVIOUS
<1>1. HistoryInv' /\ StoreInv' /\ IdsIncrease'
  <2>1. HistoryInv /\ StoreInv /\ IdsIncrease /\ TypedInv
    BY DEF ReadInv, HistoryInv
  <2> QED
    BY <2>1, HistoryStep, StoreStep, IdsStep
<1>2. ASSUME promised = Nil PROVE OwnInv'
  <2>1. promised' = Nil
    BY <1>2 DEF StoreNext, WriteLocally, AcknowledgeBatch, RejectBatch, ApplyRemoteEvent,
                DecideBatch, TakeSnapshot, LoseResults, OtherDeviceWrites, RestartStore, storeVars
  <2> QED
    BY <2>1 DEF OwnInv
<1>3. ASSUME promised # Nil PROVE OwnInv'
  <2>1. CASE TakeSnapshot
    <3>1. /\ DocumentsCarry /\ OnlyMissingRefused /\ PromiseOfQueue
          /\ OverlayShows(overlay, remoteDocument, promised, mutationQueue)
      BY <1>3, OwnFacts
    <3>2. /\ snapshot' = server
          /\ UNCHANGED <<remoteDocument, mutationQueue, overlay, server, results, promised>>
      BY <2>1 DEF TakeSnapshot
    <3>3. DocumentsCarry'
      BY <3>1, <3>2 DEF DocumentsCarry
    <3> QED
      BY <3>1, <3>2, <3>3 DEF OwnInv, OnlyMissingRefused, PromiseOfQueue
  <2>2. CASE \E mutation \in Updates : OtherDeviceWrites(mutation)
    BY <2>2 DEF OtherDeviceWrites, OwnInv
  <2>3. CASE LoseResults
    BY <1>3, <2>3, OwnLost DEF LoseResults
  <2>4. CASE RestartStore
    BY <1>3, <2>4, OwnLost DEF RestartStore
  <2>5. CASE UNCHANGED storeVars
    <3>1. OwnInv
      BY DEF ReadInv
    <3> QED
      BY <2>5, <3>1 DEF storeVars, OwnInv, OnlyMissingRefused, PromiseOfQueue, DocumentsCarry,
                        AcceptsUpdate
  <2> QED
    BY <1>3, <2>1, <2>2, <2>3, <2>4, <2>5, OwnWrite, OwnAcknowledge, OwnReject, OwnRemoteEvent,
       OwnDecide DEF StoreNext
<1> QED
  BY <1>1, <1>2, <1>3 DEF ReadInv

\* What a reader is shown through an overlay.
LEMMA OverlayRead ==
    ASSUME ReadInv, promised # Nil, overlay # Nil
    PROVE  /\ Found(promised) /\ Shown(GetDocument) = promised.data
           /\ Found(remoteDocument) \/ HasSet(mutationQueue)
<1>1. /\ TypedInv /\ promised \in Document
      /\ OverlayShows(overlay, remoteDocument, promised, mutationQueue)
      /\ Found(remoteDocument) => Carries(remoteDocument, promised, mutationQueue, results)
  BY OwnFacts
<1>2. overlay \in Overlay /\ remoteDocument \in Document /\ mutationQueue \in UpdateQueue
      /\ results \in Seq(Result)
  BY <1>1, TypedFacts
<1>3. Found(promised) /\ (Found(remoteDocument) \/ HasSet(mutationQueue))
  BY <1>1 DEF OverlayShows
<1>4. CASE overlay.mutation.type = "patch"
  <2>1. GetDocument = ApplyToLocalView(overlay.mutation, remoteDocument)
    BY <1>4 DEF GetDocument
  <2>2. Found(GetDocument) /\ GetDocument.data = promised.data
    BY <1>1, <1>2, <2>1, OverlayView
  <2> QED
    BY <1>3, <2>2 DEF Shown, Found
<1>5. CASE overlay.mutation.type # "patch"
  <2>1. GetDocument = ApplyToLocalView(overlay.mutation, InvalidDocument)
    BY <1>5 DEF GetDocument
  <2>2. /\ overlay.mutation.type = "set" /\ ~overlay.mutation.exists
        /\ overlay.mutation.data = promised.data
    BY <1>1, <1>5 DEF OverlayShows
  <2>3. GetDocument = [kind |-> "found", version |-> 0, data |-> promised.data, state |-> "local"]
    BY <2>1, <2>2 DEF ApplyToLocalView, IsValidFor, Applied
  <2> QED
    BY <1>3, <2>3 DEF Shown
<1> QED
  BY <1>4, <1>5

(***************************************************************************)
(* While the writes of one device stand, a reader is shown what the        *)
(* pending mutations make of the cached document: the overlay that is      *)
(* extended by each write and made anew with a snapshot never disagrees    *)
(* with the queue it stands for, in any order of answers, snapshots, lost  *)
(* answers and restarts.                                                   *)
(***************************************************************************)
THEOREM ViewReplays == StoreSpec => []OwnViewIsReplay
<1>1. ReadInv => OwnViewIsReplay
  <2> SUFFICES ASSUME ReadInv, promised # Nil
               PROVE  Shown(GetDocument) = Shown(Replayed(mutationQueue, remoteDocument).doc)
    BY DEF OwnViewIsReplay, ViewIsReplay
  <2> DEFINE view == Replayed(mutationQueue, remoteDocument)
  <2>1. /\ TypedInv /\ promised \in Document /\ PromiseOfQueue
        /\ OverlayShows(overlay, remoteDocument, promised, mutationQueue)
        /\ Found(remoteDocument) => Carries(remoteDocument, promised, mutationQueue, results)
    BY OwnFacts
  <2>2. remoteDocument \in Document /\ mutationQueue \in UpdateQueue /\ results \in Seq(Result)
        /\ mutationQueue \in Seq(Batch)
    BY <2>1, TypedFacts
  <2>3. overlay = Nil => GetDocument = remoteDocument
    BY DEF GetDocument
  <2>4. CASE overlay = Nil /\ mutationQueue = <<>>
    <3>1. view.doc = remoteDocument
      <4>1. PICK v : /\ view = v[Len(mutationQueue)]
                     /\ v[0] = [doc |-> remoteDocument, mask |-> {}]
        BY <2>2, ReplayedSteps
      <4>2. Len(mutationQueue) = 0
        BY <2>4
      <4> HIDE DEF view
      <4> QED
        BY <4>1, <4>2
    <3> QED
      BY <2>3, <2>4, <3>1
  <2>5. CASE overlay = Nil /\ mutationQueue # <<>>
    <3>1. ~Found(remoteDocument) /\ ~HasSet(mutationQueue)
      BY <2>1, <2>5 DEF OverlayShows
    <3>2. view.doc = remoteDocument
      BY <2>2, <3>1, ReplayedNothing
    <3> QED
      BY <2>3, <2>5, <3>2
  <2>6. CASE overlay # Nil
    <3>1. /\ Found(promised) /\ Shown(GetDocument) = promised.data
          /\ Found(remoteDocument) \/ HasSet(mutationQueue)
      BY <2>6, OverlayRead
    <3>2. LastWritesAgree(mutationQueue, promised.data) /\ promised.data \in Data
      BY <2>1, <3>1 DEF PromiseOfQueue, Document
    <3>3. Found(remoteDocument) => UnwrittenAgree(mutationQueue, 0, remoteDocument, promised.data)
      <4>1. 0 \in 0 .. Len(results)
        BY <2>2
      <4> QED
        BY <2>1, <4>1 DEF Carries, Covers
    <3>4. Found(view.doc) /\ view.doc.data = promised.data
      BY <2>2, <3>1, <3>2, <3>3, ReplayedShows
    <3> QED
      BY <3>1, <3>4 DEF Shown, Found
  <2> QED
    BY <2>4, <2>5, <2>6
<1> QED
  BY ReadInit, ReadStep, <1>1, PTL DEF StoreSpec

(***************************************************************************)
(* Once the document is cached, such a reader is shown the document with   *)
(* every write of the device, whether it is still queued, sent, answered,  *)
(* in a snapshot, or sent a second time after a restart.                   *)
(***************************************************************************)
THEOREM OwnWritesShown == StoreSpec => []OwnWritesSeen
<1>1. ReadInv => OwnWritesSeen
  <2> SUFFICES ASSUME ReadInv, promised # Nil, remoteDocument.kind \in {"found", "none"}
               PROVE  Shown(GetDocument) = Shown(promised)
    BY DEF OwnWritesSeen
  <2>1. /\ TypedInv /\ promised \in Document
        /\ OverlayShows(overlay, remoteDocument, promised, mutationQueue)
        /\ Carries(remoteDocument, promised, mutationQueue, results)
    BY OwnFacts DEF DocumentsCarry
  <2>2. remoteDocument \in Document /\ results \in Seq(Result)
    BY <2>1, TypedFacts
  <2>3. CASE overlay # Nil
    BY <2>3, OverlayRead DEF Shown, Found
  <2>4. CASE overlay = Nil
    <3>1. GetDocument = remoteDocument
      BY <2>4 DEF GetDocument
    <3>2. CASE Found(remoteDocument)
      <4>1. mutationQueue = <<>>
        BY <2>1, <2>4, <3>2 DEF OverlayShows
      <4>2. Found(promised) /\ remoteDocument.data = promised.data
        BY <2>1, <2>2, <3>2, <4>1, CarriesAll
      <4> QED
        BY <3>1, <3>2, <4>2 DEF Shown, Found
    <3>3. CASE ~Found(remoteDocument)
      <4>1. ~HasSet(mutationQueue)
        BY <2>1, <2>4 DEF OverlayShows, HasSet
      <4>2. ~Found(promised)
        BY <2>1, <3>3, <4>1 DEF Carries
      <4> QED
        BY <3>1, <3>3, <4>2 DEF Shown, Found
    <3> QED
      BY <3>2, <3>3
  <2> QED
    BY <2>3, <2>4
<1> QED
  BY ReadInit, ReadStep, <1>1, PTL DEF StoreSpec
=============================================================================
