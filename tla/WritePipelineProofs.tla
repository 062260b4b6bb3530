------------------------- MODULE WritePipelineProofs --------------------------
(***************************************************************************)
(* Proofs about WritePipeline, for any refused writes, size of the         *)
(* pipeline, number of writes, closes and restarts, and any faults.        *)
(***************************************************************************)
EXTENDS WritePipeline, SequenceTheorems, FiniteSetTheorems, TLAPS

(***************************************************************************)
(* The inductive invariant.  What makes the properties hold is that the    *)
(* writes leave the disk in the order of their numbers, so that one number *)
(* says which write a response belongs to although it carries no id.       *)
(***************************************************************************)
\* The writes up to this number have left the disk.
Settled == issued - Len(mutationQueue)

QueueInv ==
    /\ mutationQueue \in Seq(Batch)
    /\ issued \in Nat /\ nextBatchId \in Nat
    /\ Len(mutationQueue) <= issued
    /\ \A i \in DOMAIN mutationQueue :
          mutationQueue[i].write = Settled + i /\ mutationQueue[i].id < nextBatchId
    /\ \A i, j \in DOMAIN mutationQueue : i < j => mutationQueue[i].id < mutationQueue[j].id

\* The pipeline holds the first batches of the queue,
HoldsFirst(r, queue) ==
    /\ Len(r.writePipeline) <= Len(queue)
    /\ Len(r.writePipeline) <= MaxPendingWrites
    /\ \A i \in DOMAIN r.writePipeline : r.writePipeline[i] = queue[i]

\* and as many as fit.
IsFilled(r, queue) ==
    /\ HoldsFirst(r, queue)
    /\ Len(r.writePipeline) = Len(queue) \/ Len(r.writePipeline) = MaxPendingWrites

\* No gRPC stream is open under the write stream.
IsSilent(r) ==
    /\ r.requests = <<>> /\ r.responses = <<>> /\ r.finish = "none"
    /\ ~r.idlenessTimer

CredentialsInv(r) ==
    /\ r.credentials \subseteq 0 .. r.closeCount
    /\ r.closeCount \in r.credentials <=> r.state = "Starting"

\* Before the handshake is complete it is asked for, answered or refused.
Greets(r) ==
    \/ r.requests = <<Handshake>> /\ r.responses = <<>> /\ r.finish = "none"
    \/ r.requests = <<>> /\ r.responses = <<Handshake>> /\ r.finish = "none"
    \/ r.requests = <<>> /\ r.responses = <<>> /\ r.finish = "permanent"

\* After it the writes of the pipeline are answered, sent, or one of them was refused.
Exchanges(r, settled) ==
    /\ \A i \in DOMAIN r.responses :
          r.responses[i] = settled + i /\ r.responses[i] \notin Refused
    /\ r.finish = "none" =>
          /\ Len(r.responses) + Len(r.requests) = Len(r.writePipeline)
          /\ \A i \in DOMAIN r.requests : r.requests[i] = settled + Len(r.responses) + i
    /\ r.finish = "permanent" =>
          /\ Len(r.responses) < Len(r.writePipeline)
          /\ settled + Len(r.responses) + 1 \in Refused

StreamInv(r, settled) ==
    /\ r \in Remote
    /\ ~r.failed /\ r.networkEnabled
    /\ CredentialsInv(r)
    /\ r.backoffTimer <=> r.state = "Backoff"
    /\ r.state # "Open" => IsSilent(r) /\ ~r.handshakeComplete
    /\ r.state \in {"Initial", "Error"} => r.writePipeline = <<>>
    /\ r.state \in {"Starting", "Backoff"} => r.writePipeline # <<>>
    /\ r.state = "Open" /\ ~r.handshakeComplete =>
          Greets(r) /\ ~r.idlenessTimer /\ r.writePipeline # <<>>
    /\ r.state = "Open" /\ r.handshakeComplete =>
          Exchanges(r, settled) /\ (r.idlenessTimer => r.writePipeline = <<>>)

\* The best write up to number n that is not refused.
IsBest(w, n) ==
    /\ w \in 0 .. n
    /\ w = 0 \/ w \notin Refused
    /\ \A v \in 1 .. n : v \notin Refused => v <= w

\* The document holds the last write that was answered, or one still on disk that was carried out.
StoredInv ==
    /\ stored \in 0 .. issued
    /\ IF remote.handshakeComplete /\ remote.responses # <<>>
       THEN stored = Settled + Len(remote.responses)
       ELSE IsBest(stored, Settled) \/ (stored > Settled /\ stored \notin Refused)

IsTrue(outcome) == IF outcome.ok THEN outcome.write \in applied ELSE outcome.write \in Refused

ServerInv ==
    /\ applied \subseteq Nat
    /\ remote.handshakeComplete =>
          \A i \in DOMAIN remote.responses : remote.responses[i] \in applied
    /\ executor \in Seq(Outcome) /\ reported \in Seq(Outcome)
    /\ \A i \in DOMAIN reported : IsTrue(reported[i])

\* The batches of earlier processes, which have no completion block, come first.
CallbacksInv ==
    /\ mutationCallbacks \subseteq 0 .. nextBatchId - 1
    /\ \E k \in 0 .. Len(mutationQueue) : Orphans = 1 .. k

PipelineInv ==
    /\ QueueInv
    /\ IsFilled(remote, mutationQueue)
    /\ StreamInv(remote, Settled)
    /\ ServerInv /\ StoredInv /\ CallbacksInv
    /\ restarts \in Nat

-----------------------------------------------------------------------------
(***************************************************************************)
(* Lemmas about the queue on disk.                                         *)
(***************************************************************************)
Ordered(queue) == \A i, j \in DOMAIN queue : i < j => queue[i].id < queue[j].id

LEMMA BatchEntries ==
    ASSUME NEW queue \in Seq(Batch)
    PROVE  /\ Len(queue) \in Nat /\ DOMAIN queue = 1 .. Len(queue)
           /\ \A i \in DOMAIN queue :
                 /\ i \in Nat /\ i > 0
                 /\ queue[i] \in Batch /\ queue[i].id \in Nat /\ queue[i].write \in Nat
<1>1. Len(queue) \in Nat /\ DOMAIN queue = 1 .. Len(queue)
  OBVIOUS
<1>2. \A i \in DOMAIN queue : queue[i] \in Batch
  OBVIOUS
<1>3. \A b \in Batch : b.id \in Nat /\ b.write \in Nat
  BY DEF Batch
<1>4. QED
  BY <1>1, <1>2, <1>3

\* Seeking an id stands at the first row whose id is not smaller.
LEMMA SeekAt ==
    ASSUME NEW queue \in Seq(Batch), NEW id \in Int, NEW k \in 0 .. Len(queue),
           \A i \in DOMAIN queue : queue[i].id < id <=> i <= k
    PROVE  Seek(queue, id) = k + 1
<1> DEFINE before == {i \in DOMAIN queue : queue[i].id < id}
<1>1. before = 1 .. k
  <2>1. DOMAIN queue = 1 .. Len(queue) /\ Len(queue) \in Nat
    OBVIOUS
  <2>2. QED
    BY <2>1
<1>2. k \in Nat /\ Cardinality(1 .. k) = k
  BY FS_Interval
<1>3. Seek(queue, id) = 1 + Cardinality(before)
  BY DEF Seek
<1> HIDE DEF before
<1>4. QED
  BY <1>1, <1>2, <1>3

\* The lesser of two numbers.
LEMMA MinOfTwo ==
    ASSUME NEW a \in Int, NEW b \in Int
    PROVE  Min({a, b}) = IF a <= b THEN a ELSE b
BY DEF Min

\* The batches FillWritePipeline adds.
Missing(r, queue) ==
    LET last == IF r.writePipeline = <<>> THEN -1 ELSE Last(r.writePipeline).id
        next == BatchesAfter(queue, last)
    IN  SubSeq(next, 1, Min({Room(r), Len(next)}))

\* They continue the queue where the pipeline ends and take up the room there is.
LEMMA MissingBatches ==
    ASSUME NEW queue \in Seq(Batch), Ordered(queue),
           NEW r \in Remote, HoldsFirst(r, queue)
    PROVE  /\ Missing(r, queue) \in Seq(Batch)
           /\ LET k == Len(r.writePipeline)
                  m == Len(Missing(r, queue))
              IN  /\ m \in Nat /\ k + m <= Len(queue) /\ k + m <= MaxPendingWrites
                  /\ k + m = Len(queue) \/ k + m = MaxPendingWrites
                  /\ \A i \in 1 .. m : Missing(r, queue)[i] = queue[k + i]
<1> DEFINE p == r.writePipeline
           k == Len(p)
           last == IF p = <<>> THEN -1 ELSE Last(p).id
           next == BatchesAfter(queue, last)
<1>1. /\ p \in Seq(Batch) /\ k \in Nat /\ Len(queue) \in Nat /\ k <= Len(queue)
      /\ MaxPendingWrites \in Nat /\ k <= MaxPendingWrites
      /\ \A i \in 1 .. k : p[i] = queue[i]
  BY WritePipelineAssumption DEF Remote, HoldsFirst
<1>2. last \in Int /\ \A i \in DOMAIN queue : queue[i].id < last + 1 <=> i <= k
  <2>1. CASE k = 0
    <3>1. last = -1
      BY <1>1, <2>1
    <3>2. \A i \in DOMAIN queue : queue[i].id \in Nat /\ i \in Nat /\ i > 0
      BY BatchEntries
    <3>3. QED
      BY <3>1, <3>2, <2>1
  <2>2. CASE k > 0
    <3>1. last = queue[k].id /\ k \in DOMAIN queue
      BY <1>1, <2>2 DEF Last
    <3>2. \A i \in DOMAIN queue : queue[i].id \in Nat /\ i \in Nat
      BY BatchEntries
    <3> HIDE DEF last, k
    <3>3. ASSUME NEW i \in DOMAIN queue
          PROVE  queue[i].id < last + 1 <=> i <= k
      <4>1. queue[i].id \in Nat /\ queue[k].id \in Nat /\ i \in Nat /\ k \in Nat
        BY <3>1, <3>2, <1>1
      <4>2. /\ i < k => queue[i].id < queue[k].id
            /\ k < i => queue[k].id < queue[i].id
        BY <3>1 DEF Ordered
      <4>3. QED
        BY <3>1, <4>1, <4>2
    <3>4. QED
      BY <3>1, <3>2, <3>3
  <2>3. QED
    BY <1>1, <2>1, <2>2
<1>3. next = SubSeq(queue, k + 1, Len(queue))
  <2> HIDE DEF p, k, last
  <2>1. Seek(queue, last + 1) = k + 1
    <3>1. last + 1 \in Int /\ k \in 0 .. Len(queue)
      BY <1>1, <1>2
    <3>2. QED
      BY <3>1, <1>2, SeekAt
  <2>2. QED
    BY <2>1 DEF BatchesAfter
<1>4. /\ next \in Seq(Batch) /\ Len(next) = Len(queue) - k
      /\ \A i \in 1 .. Len(next) : next[i] = queue[k + i]
  <2> HIDE DEF p, k, next
  <2>1. \A i \in k + 1 .. Len(queue) : queue[i] \in Batch
    BY <1>1
  <2>2. QED
    BY <2>1, <1>1, <1>3, SubSeqProperties
<1> DEFINE m == Min({Room(r), Len(next)})
<1>5. m = IF Room(r) <= Len(next) THEN Room(r) ELSE Len(next)
  <2>1. Room(r) \in Int
    BY <1>1 DEF Room
  <2> HIDE DEF next
  <2>2. QED
    BY <2>1, <1>4, MinOfTwo
<1>6. Missing(r, queue) = SubSeq(next, 1, m)
  BY DEF Missing
<1>7. Room(r) = MaxPendingWrites - k
  BY DEF Room
<1> HIDE DEF m, next, p
<1>8. /\ SubSeq(next, 1, m) \in Seq(Batch) /\ Len(SubSeq(next, 1, m)) = m
      /\ \A i \in 1 .. m : SubSeq(next, 1, m)[i] = next[i]
  <2>1. m \in Nat /\ m <= Len(next)
    BY <1>1, <1>4, <1>5, <1>7
  <2>2. \A i \in 1 .. m : next[i] \in Batch
    BY <2>1, <1>4
  <2>3. QED
    BY <2>1, <2>2, SubSeqProperties
<1>9. QED
  <2>1. /\ Len(Missing(r, queue)) = m /\ Missing(r, queue) \in Seq(Batch)
        /\ m \in Nat /\ k + m <= Len(queue) /\ k + m <= MaxPendingWrites
        /\ k + m = Len(queue) \/ k + m = MaxPendingWrites
    BY <1>1, <1>4, <1>5, <1>6, <1>7, <1>8
  <2>2. \A i \in 1 .. m : Missing(r, queue)[i] = queue[k + i]
    BY <1>1, <1>4, <1>5, <1>6, <1>7, <1>8
  <2>3. QED
    BY <2>1, <2>2 DEF p

\* The oldest batch is removed from the front.
LEMMA RemoveOldest ==
    ASSUME NEW queue \in Seq(Batch), Ordered(queue), queue # <<>>
    PROVE  RemoveMutationBatch(queue, queue[1]) = Tail(queue)
<1>1. /\ Len(queue) \in Nat /\ 1 \in DOMAIN queue /\ queue[1].id \in Int
      /\ \A i \in DOMAIN queue : i \in Nat /\ i > 0 /\ queue[i].id \in Int
  BY BatchEntries
<1>2. \A i \in DOMAIN queue : queue[i].id < queue[1].id <=> i <= 0
  BY <1>1 DEF Ordered
<1>3. Seek(queue, queue[1].id) = 1
  <2>1. 0 \in 0 .. Len(queue)
    BY <1>1
  <2>2. QED
    BY <2>1, <1>1, <1>2, SeekAt
<1>4. RemoveMutationBatch(queue, queue[1]) = SubSeq(queue, 1, 0) \o SubSeq(queue, 2, Len(queue))
  BY <1>1, <1>3 DEF RemoveMutationBatch, RemoveAt
<1>5. SubSeq(queue, 1, 0) = <<>> /\ SubSeq(queue, 2, Len(queue)) = Tail(queue)
  BY SubSeqEmpty, TailIsSubSeq
<1>6. Tail(queue) \in Seq(Batch)
  BY HeadTailProperties
<1>7. <<>> \o Tail(queue) = Tail(queue)
  BY <1>6, ConcatEmptySeq
<1>8. QED
  BY <1>4, <1>5, <1>7

\* An assertion that holds leaves the store as it is.
LEMMA AssertHolds ==
    ASSUME NEW r \in Remote, NEW c, c
    PROVE  HardAssert(r, c) = r
<1>1. r.failed \in BOOLEAN
  BY DEF Remote
<1>2. (r.failed \/ ~c) = r.failed
  BY <1>1, Zenon
<1>3. [r EXCEPT !.failed = r.failed] = r
  BY DEF Remote
<1>4. QED
  BY <1>2, <1>3, Zenon DEF HardAssert
-----------------------------------------------------------------------------
(***************************************************************************)
(* Lemmas about RemoteStore: what filling the pipeline does to a stream    *)
(* that is at rest, on its way or in use.                                  *)
(***************************************************************************)
\* The pipeline with what is missing is the front of the queue.
LEMMA FullPipeline ==
    ASSUME NEW queue \in Seq(Batch), Ordered(queue),
           NEW r \in Remote, HoldsFirst(r, queue)
    PROVE  LET full == r.writePipeline \o Missing(r, queue)
               k    == Len(r.writePipeline)
           IN  /\ full \in Seq(Batch)
               /\ Len(full) = k + Len(Missing(r, queue))
               /\ \A i \in DOMAIN full : full[i] = queue[i]
               /\ [r EXCEPT !.writePipeline = full] \in Remote
               /\ IsFilled([r EXCEPT !.writePipeline = full], queue)
<1> DEFINE p == r.writePipeline
           more == Missing(r, queue)
           full == p \o more
           k == Len(p)
           m == Len(more)
<1>1. /\ p \in Seq(Batch) /\ more \in Seq(Batch) /\ k \in Nat /\ m \in Nat
      /\ \A i \in 1 .. k : p[i] = queue[i]
      /\ \A i \in 1 .. m : more[i] = queue[k + i]
      /\ k + m <= Len(queue) /\ k + m <= MaxPendingWrites
      /\ k + m = Len(queue) \/ k + m = MaxPendingWrites
  <2>1. p \in Seq(Batch) /\ k \in Nat /\ \A i \in 1 .. k : p[i] = queue[i]
    BY DEF Remote, HoldsFirst
  <2>2. QED
    BY <2>1, MissingBatches
<1> HIDE DEF p, more, k, m
<1>2. full \in Seq(Batch) /\ Len(full) = k + m /\ DOMAIN full = 1 .. k + m
  BY <1>1, ConcatProperties DEF k, m
<1>3. ASSUME NEW i \in 1 .. k + m
      PROVE  full[i] = queue[i]
  <2>1. full[i] = IF i <= k THEN p[i] ELSE more[i - k]
    BY <1>1, ConcatProperties DEF k, m
  <2> HIDE DEF full
  <2>2. CASE i <= k
    BY <2>1, <2>2, <1>1
  <2>3. CASE i > k
    <3>1. i - k \in 1 .. m /\ k + (i - k) = i
      BY <2>3, <1>1
    <3>2. QED
      BY <2>1, <2>3, <3>1, <1>1
  <2>4. i \in Int /\ k \in Int
    BY <1>1
  <2>5. QED
    BY <2>2, <2>3, <2>4
<1> HIDE DEF full
<1>4. /\ [r EXCEPT !.writePipeline = full] \in Remote
      /\ [r EXCEPT !.writePipeline = full].writePipeline = full
  BY <1>2 DEF Remote
<1>5. IsFilled([r EXCEPT !.writePipeline = full], queue)
  BY <1>1, <1>2, <1>3, <1>4 DEF IsFilled, HoldsFirst
<1>6. QED
  BY <1>1, <1>2, <1>3, <1>4, <1>5 DEF p, more, full, k, m

\* The cases of FillWritePipeline.
LEMMA FillCases ==
    ASSUME NEW queue \in Seq(Batch), Ordered(queue),
           NEW r \in Remote, HoldsFirst(r, queue), r.networkEnabled
    PROVE  LET full == r.writePipeline \o Missing(r, queue)
               m    == [r EXCEPT !.writePipeline = full]
           IN  /\ full = <<>> => FillWritePipeline(r, queue) = MarkIdle(r)
               /\ full # <<>> =>
                     FillWritePipeline(r, queue) =
                        StartIfNeeded(IF IsOpen(r) /\ r.handshakeComplete /\ Missing(r, queue) # <<>>
                                      THEN WriteMutations(m, Missing(r, queue)) ELSE m)
<1> DEFINE more == Missing(r, queue)
           full == r.writePipeline \o more
           k == Len(r.writePipeline)
           m == [r EXCEPT !.writePipeline = full]
<1>1. /\ r.writePipeline \in Seq(Batch) /\ more \in Seq(Batch) /\ k \in Nat
      /\ Len(more) \in Nat /\ k + Len(more) <= MaxPendingWrites
      /\ MaxPendingWrites \in Nat \ {0}
      /\ full \in Seq(Batch) /\ Len(full) = k + Len(more)
  BY MissingBatches, FullPipeline, WritePipelineAssumption DEF Remote
<1>2. CanAddToWritePipeline(r) <=> MaxPendingWrites - k > 0
  BY DEF CanAddToWritePipeline, Room
<1>3. FillWritePipeline(r, queue) =
        IF ~CanAddToWritePipeline(r) THEN StartIfNeeded(r)
        ELSE IF full = <<>> THEN MarkIdle(r)
        ELSE StartIfNeeded(AddToWritePipeline(r, more))
  BY DEF FillWritePipeline, Missing
<1>4. AddToWritePipeline(r, more) =
        IF IsOpen(r) /\ r.handshakeComplete /\ more # <<>> THEN WriteMutations(m, more) ELSE m
  BY DEF AddToWritePipeline
<1> HIDE DEF more, k, full, m
<1>5. CASE CanAddToWritePipeline(r)
  BY <1>3, <1>4, <1>5 DEF more, full, m
<1>6. CASE ~CanAddToWritePipeline(r)
  <2>1. k = MaxPendingWrites /\ Len(more) = 0
    BY <1>1, <1>2, <1>6
  <2>2. more = <<>> /\ full # <<>>
    BY <2>1, <1>1
  <2>3. full = r.writePipeline
    BY <2>2, <1>1, ConcatEmptySeq DEF full
  <2>4. m = r
    BY <2>3 DEF m, Remote
  <2>5. FillWritePipeline(r, queue) = StartIfNeeded(r)
    BY <1>3, <1>6
  <2>6. QED
    BY <2>2, <2>4, <2>5 DEF more, full, m
<1>7. QED
  BY <1>5, <1>6

\* A stream at rest: not started, and nothing is left of the one before.
AtRest(r) ==
    /\ r \in Remote /\ ~r.failed /\ r.networkEnabled
    /\ r.state \in {"Initial", "Error"} /\ ~r.backoffTimer
    /\ IsSilent(r) /\ CredentialsInv(r)

\* A stream that is on its way exactly when there is something to send.
OnItsWay(r) ==
    /\ r \in Remote /\ ~r.failed /\ r.networkEnabled
    /\ CredentialsInv(r)
    /\ r.backoffTimer <=> r.state = "Backoff"
    /\ r.state # "Open" /\ IsSilent(r)
    /\ r.state \in {"Initial", "Error"} => r.writePipeline = <<>>
    /\ r.state \in {"Starting", "Backoff"} => r.writePipeline # <<>>

LEMMA StartFromRest ==
    ASSUME NEW r, AtRest(r)
    PROVE  /\ OnItsWay(StartIfNeeded(r))
           /\ StartIfNeeded(r).writePipeline = r.writePipeline
           /\ StartIfNeeded(r).handshakeComplete = r.handshakeComplete
           /\ StartIfNeeded(r).closeCount = r.closeCount
<1> USE DEF AtRest
<1>1. CASE r.writePipeline = <<>>
  <2>1. StartIfNeeded(r) = r
    BY <1>1 DEF StartIfNeeded, ShouldStartWriteStream
  <2>2. QED
    BY <2>1, <1>1 DEF OnItsWay, CredentialsInv
<1>2. CASE r.writePipeline # <<>> /\ r.state = "Error"
  <2>1. StartIfNeeded(r) = [r EXCEPT !.state = "Backoff", !.backoffTimer = TRUE]
    BY <1>2 DEF StartIfNeeded, ShouldStartWriteStream, IsStarted, IsOpen, Start,
                BackoffAndTryRestarting
  <2>2. QED
    BY <2>1, <1>2 DEF OnItsWay, CredentialsInv, IsSilent, Remote
<1>3. CASE r.writePipeline # <<>> /\ r.state = "Initial"
  <2>1. HardAssert(r, r.state = "Initial") = r
    BY <1>3, AssertHolds
  <2>2. StartIfNeeded(r) = [[r EXCEPT !.state = "Starting"] EXCEPT !.credentials = @ \cup {r.closeCount}]
    BY <2>1, <1>3 DEF StartIfNeeded, ShouldStartWriteStream, IsStarted, IsOpen, Start,
                      RequestCredentials, Remote
  <2> DEFINE s == StartIfNeeded(r)
  <2>3. /\ s \in Remote
        /\ s.state = "Starting" /\ s.writePipeline = r.writePipeline
        /\ s.networkEnabled = r.networkEnabled /\ s.failed = r.failed
        /\ s.credentials = r.credentials \cup {r.closeCount} /\ s.closeCount = r.closeCount
        /\ s.idlenessTimer = r.idlenessTimer /\ s.backoffTimer = r.backoffTimer
        /\ s.requests = r.requests /\ s.responses = r.responses /\ s.finish = r.finish
        /\ s.handshakeComplete = r.handshakeComplete
    <3> DEFINE c == r.credentials \cup {r.closeCount}
    <3>1. c \in SUBSET Nat
      BY DEF Remote
    <3>2. s = [r EXCEPT !.state = "Starting", !.credentials = c]
      BY <2>2 DEF Remote
    <3> HIDE DEF c, s
    <3>3. s.credentials = c
      BY <3>2 DEF Remote
    <3>4. QED
      BY <3>1, <3>2, <3>3 DEF Remote, c
  <2> HIDE DEF s
  <2>4. CredentialsInv(s) /\ IsSilent(s)
    <3>1. r.closeCount \in Nat
      BY DEF Remote
    <3>2. QED
      BY <2>3, <3>1 DEF CredentialsInv, IsSilent
  <2>5. OnItsWay(s)
    BY <2>3, <2>4, <1>3 DEF OnItsWay
  <2>6. QED
    BY <2>3, <2>5 DEF s
<1>4. QED
  BY <1>1, <1>2, <1>3

\* A stream on its way is as the invariant has it, once the handshake is forgotten.
LEMMA OnItsWayKeeps ==
    ASSUME NEW s, OnItsWay(s), NEW settled
    PROVE  LET t == [s EXCEPT !.handshakeComplete = FALSE]
           IN  /\ StreamInv(t, settled)
               /\ t.writePipeline = s.writePipeline
               /\ t.handshakeComplete = FALSE
               /\ ~s.handshakeComplete => t = s
<1> DEFINE t == [s EXCEPT !.handshakeComplete = FALSE]
<1>1. s \in Remote
  BY DEF OnItsWay
<1>2. /\ t \in Remote
      /\ t.handshakeComplete = FALSE
      /\ t.state = s.state /\ t.writePipeline = s.writePipeline
      /\ t.networkEnabled = s.networkEnabled /\ t.failed = s.failed
      /\ t.credentials = s.credentials /\ t.closeCount = s.closeCount
      /\ t.idlenessTimer = s.idlenessTimer /\ t.backoffTimer = s.backoffTimer
      /\ t.requests = s.requests /\ t.responses = s.responses /\ t.finish = s.finish
  BY <1>1 DEF Remote
<1>3. ~s.handshakeComplete => t = s
  BY <1>1 DEF Remote
<1> HIDE DEF t
<1>4. StreamInv(t, settled)
  BY <1>2 DEF OnItsWay, StreamInv, CredentialsInv, IsSilent
<1>5. QED
  BY <1>2, <1>3, <1>4 DEF t

LEMMA FillFromRest ==
    ASSUME NEW queue \in Seq(Batch), Ordered(queue),
           NEW r, AtRest(r), HoldsFirst(r, queue)
    PROVE  LET s == FillWritePipeline(r, queue)
           IN  /\ OnItsWay(s) /\ IsFilled(s, queue)
               /\ s.handshakeComplete = r.handshakeComplete
               /\ s.closeCount = r.closeCount
<1> DEFINE more == Missing(r, queue)
           full == r.writePipeline \o more
           m == [r EXCEPT !.writePipeline = full]
<1>1. r \in Remote /\ r.networkEnabled /\ ~IsOpen(r)
  BY DEF AtRest, IsOpen
<1>2. full \in Seq(Batch) /\ IsFilled(m, queue) /\ m \in Remote
  BY <1>1, FullPipeline
<1>3. /\ full = <<>> => FillWritePipeline(r, queue) = MarkIdle(r)
      /\ full # <<>> => FillWritePipeline(r, queue) = StartIfNeeded(m)
  BY <1>1, FillCases
<1>4. full = <<>> => r.writePipeline = <<>>
  <2>1. r.writePipeline \in Seq(Batch) /\ more \in Seq(Batch)
    BY <1>1, MissingBatches DEF Remote
  <2> HIDE DEF more
  <2>2. QED
    BY <2>1, ConcatProperties
<1> HIDE DEF full
<1>5. AtRest(m) /\ m.writePipeline = full /\ m.handshakeComplete = r.handshakeComplete
               /\ m.closeCount = r.closeCount
  BY <1>1, <1>2 DEF AtRest, IsSilent, CredentialsInv, Remote
<1>6. full = <<>> => m = r
  BY <1>1, <1>4 DEF Remote
<1> HIDE DEF m
<1>7. CASE full = <<>>
  <2>1. FillWritePipeline(r, queue) = r
    BY <1>1, <1>3, <1>7 DEF MarkIdle
  <2>2. OnItsWay(r)
    BY <1>4, <1>7 DEF AtRest, OnItsWay
  <2>3. IsFilled(r, queue)
    BY <1>2, <1>6, <1>7
  <2>4. QED
    BY <2>1, <2>2, <2>3
<1>8. CASE full # <<>>
  <2>1. FillWritePipeline(r, queue) = StartIfNeeded(m)
    BY <1>3, <1>8
  <2>2. /\ OnItsWay(StartIfNeeded(m))
        /\ StartIfNeeded(m).writePipeline = m.writePipeline
        /\ StartIfNeeded(m).handshakeComplete = m.handshakeComplete
        /\ StartIfNeeded(m).closeCount = m.closeCount
    BY <1>5, StartFromRest
  <2>3. IsFilled(StartIfNeeded(m), queue)
    BY <2>2, <1>2 DEF IsFilled, HoldsFirst
  <2>4. QED
    BY <2>1, <2>2, <2>3, <1>5
<1>9. QED
  BY <1>7, <1>8

\* Until the handshake is complete, filling only adds to the pipeline.
LEMMA FillBeforeHandshake ==
    ASSUME NEW queue \in Seq(Batch), Ordered(queue),
           NEW r \in Remote, HoldsFirst(r, queue), r.networkEnabled,
           IsStarted(r), ~(IsOpen(r) /\ r.handshakeComplete), r.writePipeline # <<>>
    PROVE  \E full \in Seq(Batch) :
              /\ full # <<>>
              /\ FillWritePipeline(r, queue) = [r EXCEPT !.writePipeline = full]
              /\ IsFilled([r EXCEPT !.writePipeline = full], queue)
<1> DEFINE more == Missing(r, queue)
           full == r.writePipeline \o more
           m == [r EXCEPT !.writePipeline = full]
<1>1. full \in Seq(Batch) /\ IsFilled(m, queue) /\ m \in Remote
  BY FullPipeline
<1>2. full # <<>>
  <2>1. r.writePipeline \in Seq(Batch) /\ more \in Seq(Batch)
    BY MissingBatches DEF Remote
  <2> HIDE DEF more
  <2>2. QED
    BY <2>1, ConcatProperties
<1>3. FillWritePipeline(r, queue) = StartIfNeeded(m)
  <2>1. full # <<>> => FillWritePipeline(r, queue) =
           StartIfNeeded(IF IsOpen(r) /\ r.handshakeComplete /\ more # <<>>
                         THEN WriteMutations(m, more) ELSE m)
    BY FillCases
  <2> HIDE DEF full, m, more
  <2>2. QED
    BY <2>1, <1>2
<1> HIDE DEF full
<1>4. StartIfNeeded(m) = m
  <2>1. m.state = r.state
    BY DEF Remote
  <2>2. IsStarted(m)
    BY <2>1 DEF IsStarted, IsOpen
  <2>3. QED
    BY <2>2 DEF StartIfNeeded, ShouldStartWriteStream
<1>5. QED
  BY <1>1, <1>2, <1>3, <1>4

\* Writing batches appends their writes to the requests of an open stream.
LEMMA MutationsWritten ==
    ASSUME NEW m \in Remote, IsOpen(m), m.handshakeComplete,
           NEW batches \in Seq(Batch)
    PROVE  \E sent \in Seq(Nat), timer \in BOOLEAN :
              /\ WriteMutations(m, batches) = [m EXCEPT !.idlenessTimer = timer, !.requests = sent]
              /\ timer = IF batches = <<>> THEN m.idlenessTimer ELSE FALSE
              /\ Len(sent) = Len(m.requests) + Len(batches)
              /\ \A i \in 1 .. Len(m.requests) : sent[i] = m.requests[i]
              /\ \A i \in 1 .. Len(batches) : sent[Len(m.requests) + i] = batches[i].write
<1> DEFINE messages == [i \in DOMAIN batches |-> batches[i].write]
           sent == m.requests \o messages
<1>1. /\ messages \in Seq(Nat) /\ Len(messages) = Len(batches)
      /\ \A i \in 1 .. Len(batches) : messages[i] = batches[i].write
  <2>1. /\ Len(batches) \in Nat /\ DOMAIN batches = 1 .. Len(batches)
        /\ \A i \in DOMAIN batches : batches[i].write \in Nat
    BY BatchEntries
  <2>2. messages \in [1 .. Len(batches) -> Nat]
    BY <2>1
  <2>3. messages \in Seq(Nat) /\ Len(messages) = Len(batches)
    BY <2>1, <2>2
  <2>4. QED
    BY <2>1, <2>3
<1>2. m.requests \in Seq(Nat) /\ m.idlenessTimer \in BOOLEAN
  BY DEF Remote
<1>3. HardAssert(m, m.handshakeComplete) = m /\ HardAssert(m, IsOpen(m)) = m
  BY AssertHolds
<1>4. WriteMutations(m, batches) = Write(m, messages)
  BY <1>3 DEF WriteMutations
<1> HIDE DEF messages
<1>5. /\ sent \in Seq(Nat) /\ Len(sent) = Len(m.requests) + Len(batches)
      /\ \A i \in 1 .. Len(m.requests) : sent[i] = m.requests[i]
      /\ \A i \in 1 .. Len(batches) : sent[Len(m.requests) + i] = messages[i]
  <2>1. sent \in Seq(Nat) /\ Len(sent) = Len(m.requests) + Len(messages)
    BY <1>1, <1>2, ConcatProperties
  <2>2. \A i \in 1 .. Len(m.requests) + Len(messages) :
           sent[i] = IF i <= Len(m.requests) THEN m.requests[i]
                     ELSE messages[i - Len(m.requests)]
    BY <1>1, <1>2, ConcatProperties
  <2> HIDE DEF sent
  <2>3. Len(m.requests) \in Nat /\ Len(batches) \in Nat
    BY <1>2
  <2>4. \A i \in 1 .. Len(m.requests) : sent[i] = m.requests[i]
    BY <1>1, <2>2, <2>3
  <2>5. ASSUME NEW i \in 1 .. Len(batches)
        PROVE  sent[Len(m.requests) + i] = messages[i]
    <3>1. /\ Len(m.requests) + i \in 1 .. Len(m.requests) + Len(messages)
          /\ ~(Len(m.requests) + i <= Len(m.requests))
          /\ Len(m.requests) + i - Len(m.requests) = i
      BY <2>3, <1>1
    <3>2. QED
      BY <3>1, <2>2
  <2>6. QED
    BY <2>1, <2>4, <2>5, <1>1
<1>6. CASE batches = <<>>
  <2>1. messages = <<>>
    BY <1>1, <1>6
  <2>2. WriteMutations(m, batches) = m /\ sent = m.requests
    BY <1>2, <1>4, <2>1, ConcatEmptySeq DEF Write
  <2>3. m = [m EXCEPT !.idlenessTimer = m.idlenessTimer, !.requests = m.requests]
    BY DEF Remote
  <2>4. Len(m.requests) \in Nat /\ Len(batches) = 0
    BY <1>2, <1>6
  <2>5. QED
    <3> USE <1>2
    <3> WITNESS m.requests \in Seq(Nat), m.idlenessTimer \in BOOLEAN
    <3>1. QED
      BY <1>6, <2>2, <2>3, <2>4
<1>7. CASE batches # <<>>
  <2>1. messages # <<>>
    BY <1>1, <1>7
  <2>2. WriteMutations(m, batches) = [m EXCEPT !.idlenessTimer = FALSE, !.requests = sent]
    BY <1>3, <1>4, <2>1 DEF Write
  <2> HIDE DEF sent
  <2>3. \A i \in 1 .. Len(batches) : sent[Len(m.requests) + i] = batches[i].write
    BY <1>1, <1>5
  <2>4. QED
    <3> USE <1>5
    <3> WITNESS sent \in Seq(Nat), FALSE \in BOOLEAN
    <3>1. QED
      BY <1>7, <2>2, <2>3
<1>8. QED
  BY <1>6, <1>7

\* Filling keeps the invariant of a stream that is in use, and fills the pipeline.
LEMMA FillInUse ==
    ASSUME NEW queue \in Seq(Batch), Ordered(queue), NEW settled \in Int,
           \A i \in DOMAIN queue : queue[i].write = settled + i,
           NEW r, StreamInv(r, settled), HoldsFirst(r, queue),
           IsOpen(r), r.handshakeComplete
    PROVE  LET s == FillWritePipeline(r, queue)
           IN  /\ StreamInv(s, settled) /\ IsFilled(s, queue)
               /\ s.responses = r.responses
               /\ s.handshakeComplete = r.handshakeComplete
<1> DEFINE more == Missing(r, queue)
           full == r.writePipeline \o more
           m == [r EXCEPT !.writePipeline = full]
           s == FillWritePipeline(r, queue)
<1>1. r \in Remote /\ r.networkEnabled /\ r.state = "Open"
  BY DEF StreamInv, IsOpen
<1>2. /\ full \in Seq(Batch) /\ IsFilled(m, queue) /\ m \in Remote
      /\ Len(full) = Len(r.writePipeline) + Len(more)
  BY <1>1, FullPipeline
<1>3. /\ more \in Seq(Batch) /\ Len(more) \in Nat /\ r.writePipeline \in Seq(Batch)
      /\ Len(r.writePipeline) \in Nat
      /\ Len(r.writePipeline) + Len(more) <= Len(queue)
      /\ \A i \in 1 .. Len(more) : more[i] = queue[Len(r.writePipeline) + i]
  <2>1. r.writePipeline \in Seq(Batch)
    BY <1>1 DEF Remote
  <2>2. QED
    BY <1>1, <2>1, MissingBatches
<1>4. /\ full = <<>> => s = MarkIdle(r)
      /\ full # <<>> => s = StartIfNeeded(IF IsOpen(r) /\ r.handshakeComplete /\ more # <<>>
                                         THEN WriteMutations(m, more) ELSE m)
  BY <1>1, FillCases
<1> HIDE DEF more, full, s
<1>5. /\ m.writePipeline = full /\ m.state = "Open" /\ m.handshakeComplete
      /\ m.requests = r.requests /\ m.idlenessTimer = r.idlenessTimer
      /\ m.requests \in Seq(Nat)
  BY <1>1, <1>2 DEF Remote
<1>6. full = <<>> => m = r /\ more = <<>>
  <2>1. ASSUME full = <<>> PROVE r.writePipeline = <<>> /\ more = <<>>
    BY <2>1, <1>2, <1>3
  <2>2. QED
    BY <2>1, <1>1 DEF Remote
<1>7. PICK sent \in Seq(Nat), timer \in BOOLEAN :
              /\ WriteMutations(m, more) = [m EXCEPT !.idlenessTimer = timer, !.requests = sent]
              /\ timer = IF more = <<>> THEN m.idlenessTimer ELSE FALSE
              /\ Len(sent) = Len(m.requests) + Len(more)
              /\ \A i \in 1 .. Len(m.requests) : sent[i] = m.requests[i]
              /\ \A i \in 1 .. Len(more) : sent[Len(m.requests) + i] = more[i].write
  <2>1. IsOpen(m)
    BY <1>5 DEF IsOpen
  <2> HIDE DEF m
  <2>2. QED
    BY <2>1, <1>2, <1>3, <1>5, MutationsWritten
<1>8. PICK idle \in BOOLEAN :
        /\ s = [m EXCEPT !.idlenessTimer = idle, !.requests = sent]
        /\ idle => full = <<>>
  <2>1. CASE full = <<>>
    <3>1. s = [r EXCEPT !.idlenessTimer = TRUE] /\ r = m
      BY <2>1, <1>4, <1>6 DEF MarkIdle
    <3>2. sent = r.requests
      <4>1. Len(more) = 0 /\ Len(r.requests) \in Nat /\ r.requests \in Seq(Nat)
        BY <2>1, <1>5, <1>6
      <4>2. Len(sent) = Len(r.requests) /\ \A i \in 1 .. Len(sent) : sent[i] = r.requests[i]
        BY <4>1, <1>5, <1>7
      <4>3. QED
        BY <4>1, <4>2, SeqEqual
    <3>3. s = [r EXCEPT !.idlenessTimer = TRUE, !.requests = r.requests]
      BY <3>1, <1>1 DEF Remote
    <3>4. s = [m EXCEPT !.idlenessTimer = TRUE, !.requests = sent]
      BY <3>1, <3>2, <3>3
    <3>5. QED
      <4> WITNESS TRUE \in BOOLEAN
      <4>1. QED
        BY <3>4, <2>1
  <2>2. CASE full # <<>>
    <3>1. WriteMutations(m, more) = m \/ more # <<>>
      <4>1. CASE more = <<>>
        <5>1. sent = m.requests
          <6>1. Len(more) = 0 /\ Len(m.requests) \in Nat
            BY <4>1, <1>5
          <6>2. Len(sent) = Len(m.requests) /\ \A i \in 1 .. Len(sent) : sent[i] = m.requests[i]
            BY <6>1, <1>7
          <6>3. QED
            BY <6>2, <1>5, SeqEqual
        <5>2. timer = m.idlenessTimer
          BY <4>1, <1>7
        <5>3. [m EXCEPT !.idlenessTimer = m.idlenessTimer, !.requests = m.requests] = m
          BY <1>2 DEF Remote
        <5>4. QED
          BY <5>1, <5>2, <5>3, <1>7
      <4>2. QED
        BY <4>1
    <3>2. s = StartIfNeeded(WriteMutations(m, more))
      <4> HIDE DEF m
      <4>1. QED
        BY <3>1, <2>2, <1>4
    <3>3. IsStarted(WriteMutations(m, more))
      <4> HIDE DEF m
      <4>1. WriteMutations(m, more).state = "Open"
        BY <1>7, <1>5, <1>2 DEF Remote
      <4>2. QED
        BY <4>1 DEF IsStarted, IsOpen
    <3>4. s = [m EXCEPT !.idlenessTimer = timer, !.requests = sent]
      BY <3>2, <3>3, <1>7 DEF StartIfNeeded, ShouldStartWriteStream
    <3>5. timer => FALSE
      <4>1. r.writePipeline # <<>> => ~r.idlenessTimer
        BY <1>1 DEF StreamInv
      <4>2. more = <<>> => r.writePipeline # <<>>
        BY <2>2, <1>2, <1>3
      <4>3. QED
        BY <4>1, <4>2, <1>5, <1>7
    <3>6. QED
      BY <3>4, <3>5
  <2>3. QED
    BY <2>1, <2>2
<1>9. /\ s \in Remote
      /\ s.state = "Open" /\ s.handshakeComplete = r.handshakeComplete /\ s.writePipeline = full
      /\ s.networkEnabled = r.networkEnabled /\ s.failed = r.failed
      /\ s.credentials = r.credentials /\ s.closeCount = r.closeCount
      /\ s.idlenessTimer = idle /\ s.backoffTimer = r.backoffTimer
      /\ s.requests = sent /\ s.responses = r.responses /\ s.finish = r.finish
  BY <1>1, <1>2, <1>8 DEF Remote
<1>10. IsFilled(s, queue)
  BY <1>2, <1>5, <1>9 DEF IsFilled, HoldsFirst
<1>11. Exchanges(s, settled)
  <2>1. Exchanges(r, settled)
    BY <1>1 DEF StreamInv
  <2> DEFINE answered == Len(r.responses)
             asked == Len(r.requests)
             added == Len(more)
             k == Len(r.writePipeline)
  <2>2. /\ answered \in Nat /\ asked \in Nat /\ added \in Nat /\ k \in Nat
        /\ DOMAIN sent = 1 .. asked + added /\ Len(sent) = asked + added
    BY <1>1, <1>3, <1>5, <1>7 DEF Remote
  <2>3. ASSUME s.finish = "none"
        PROVE  /\ Len(s.responses) + Len(s.requests) = Len(s.writePipeline)
               /\ \A i \in DOMAIN s.requests : s.requests[i] = settled + Len(s.responses) + i
    <3>1. answered + asked = k
      BY <2>1, <2>3, <1>9 DEF Exchanges
    <3>2. ASSUME NEW i \in 1 .. asked + added
          PROVE  sent[i] = settled + answered + i
      <4>1. CASE i <= asked
        <5>1. i \in DOMAIN r.requests /\ sent[i] = r.requests[i]
          BY <4>1, <2>2, <1>5, <1>7
        <5>2. QED
          BY <5>1, <2>1, <2>3, <1>9 DEF Exchanges
      <4>2. CASE i > asked
        <5> DEFINE j == i - asked
        <5> HIDE DEF m, answered, asked, added, k
        <5>1. j \in 1 .. added /\ asked + j = i
          BY <4>2, <2>2
        <5> HIDE DEF j
        <5>2. sent[i] = queue[k + j].write
          BY <5>1, <1>3, <1>5, <1>7 DEF added, asked, k
        <5>3. k + j \in DOMAIN queue
          <6>1. k + added <= Len(queue)
            BY <1>3 DEF k, added
          <6>2. Len(queue) \in Nat /\ DOMAIN queue = 1 .. Len(queue)
            BY BatchEntries
          <6>3. QED
            BY <5>1, <6>1, <6>2, <2>2
        <5>4. sent[i] = settled + (k + j) /\ j \in Int
          BY <5>1, <5>2, <5>3
        <5>5. QED
          BY <5>1, <5>4, <3>1, <2>2
      <4>3. QED
        BY <4>1, <4>2, <2>2
    <3>3. answered + (asked + added) = Len(full)
      <4>1. Len(full) = k + added
        BY <1>2
      <4> HIDE DEF answered, asked, added, k
      <4>2. QED
        BY <3>1, <4>1, <2>2
    <3> HIDE DEF m
    <3>4. /\ Len(s.responses) = answered /\ Len(s.writePipeline) = Len(full)
          /\ Len(s.requests) = asked + added /\ DOMAIN s.requests = 1 .. asked + added
          /\ s.requests = sent
      BY <2>2, <1>9
    <3> HIDE DEF answered, asked, added, k
    <3>5. QED
      BY <3>2, <3>3, <3>4
  <2>4. s.finish = "permanent" => Len(s.responses) < Len(s.writePipeline)
    BY <2>1, <2>2, <1>2, <1>3, <1>9 DEF Exchanges
  <2>5. QED
    BY <2>1, <2>3, <2>4, <1>9 DEF Exchanges
<1>12. StreamInv(s, settled)
  <2> HIDE DEF m
  <2>1. QED
    BY <1>8, <1>9, <1>11 DEF StreamInv, CredentialsInv
<1>13. QED
  BY <1>9, <1>10, <1>12 DEF s

\* Whatever state the stream is in, filling keeps its invariant.
LEMMA FillKeeps ==
    ASSUME NEW queue \in Seq(Batch), Ordered(queue), NEW settled \in Int,
           \A i \in DOMAIN queue : queue[i].write = settled + i,
           NEW r, StreamInv(r, settled), HoldsFirst(r, queue)
    PROVE  LET s == FillWritePipeline(r, queue)
           IN  /\ StreamInv(s, settled) /\ IsFilled(s, queue)
               /\ s.responses = r.responses
               /\ s.handshakeComplete = r.handshakeComplete
<1> DEFINE s == FillWritePipeline(r, queue)
<1>1. r \in Remote /\ r.networkEnabled
  BY DEF StreamInv
<1>2. CASE r.state = "Open" /\ r.handshakeComplete
  BY <1>2, FillInUse DEF IsOpen
<1>3. CASE r.state \in {"Initial", "Error"}
  <2>1. AtRest(r) /\ r.responses = <<>> /\ ~r.handshakeComplete
    BY <1>3 DEF StreamInv, AtRest, IsSilent
  <2>2. OnItsWay(s) /\ IsFilled(s, queue) /\ s.handshakeComplete = r.handshakeComplete
    BY <2>1, FillFromRest
  <2>3. StreamInv(s, settled)
    <3>1. StreamInv([s EXCEPT !.handshakeComplete = FALSE], settled)
      BY <2>2, OnItsWayKeeps
    <3>2. [s EXCEPT !.handshakeComplete = FALSE] = s
      BY <2>1, <2>2, OnItsWayKeeps
    <3>3. QED
      BY <3>1, <3>2
  <2>4. s.responses = <<>>
    BY <2>2 DEF OnItsWay, IsSilent
  <2>5. QED
    BY <2>1, <2>2, <2>3, <2>4
<1>4. CASE r.state \in {"Starting", "Backoff"} \/ (r.state = "Open" /\ ~r.handshakeComplete)
  <2>1. IsStarted(r) /\ ~(IsOpen(r) /\ r.handshakeComplete) /\ r.writePipeline # <<>>
    BY <1>4 DEF StreamInv, IsStarted, IsOpen
  <2>2. PICK full \in Seq(Batch) :
              /\ full # <<>>
              /\ s = [r EXCEPT !.writePipeline = full]
              /\ IsFilled([r EXCEPT !.writePipeline = full], queue)
    BY <2>1, <1>1, FillBeforeHandshake
  <2>3. /\ s \in Remote
        /\ s.state = r.state /\ s.handshakeComplete = r.handshakeComplete /\ s.writePipeline = full
        /\ s.networkEnabled = r.networkEnabled /\ s.failed = r.failed
        /\ s.credentials = r.credentials /\ s.closeCount = r.closeCount
        /\ s.idlenessTimer = r.idlenessTimer /\ s.backoffTimer = r.backoffTimer
        /\ s.requests = r.requests /\ s.responses = r.responses /\ s.finish = r.finish
    BY <2>2, <1>1 DEF Remote
  <2> HIDE DEF s
  <2>4. StreamInv(s, settled)
    BY <2>2, <2>3, <1>4 DEF StreamInv, CredentialsInv, IsSilent, Greets
  <2>5. QED
    BY <2>2, <2>3, <2>4 DEF s
<1>5. QED
  <2>1. r.state \in {"Initial", "Starting", "Open", "Error", "Backoff"}
    BY <1>1 DEF Remote
  <2>2. QED
    BY <2>1, <1>2, <1>3, <1>4

-----------------------------------------------------------------------------
(***************************************************************************)
(* Lemmas about the end of a stream.                                       *)
(***************************************************************************)
\* The stream as Close leaves it to its listener.
Closed(r, status) ==
    [HardAssert(r, IsStarted(r)) EXCEPT
        !.idlenessTimer = FALSE, !.backoffTimer = FALSE, !.closeCount = @ + 1,
        !.requests = <<>>, !.responses = <<>>, !.finish = "none",
        !.state = IF status = "ok" THEN "Initial" ELSE "Error"]

LEMMA ClosedRests ==
    ASSUME NEW r \in Remote, IsStarted(r), ~r.failed,
           r.credentials \subseteq 0 .. r.closeCount, NEW status
    PROVE  LET c == Closed(r, status)
           IN  /\ c \in Remote /\ ~c.failed
               /\ c.state = IF status = "ok" THEN "Initial" ELSE "Error"
               /\ ~c.backoffTimer /\ IsSilent(c) /\ CredentialsInv(c)
               /\ c.networkEnabled = r.networkEnabled
               /\ c.writePipeline = r.writePipeline
               /\ c.handshakeComplete = r.handshakeComplete
<1> DEFINE state == IF status = "ok" THEN "Initial" ELSE "Error"
           n == r.closeCount + 1
           c == Closed(r, status)
<1>1. HardAssert(r, IsStarted(r)) = r
  BY AssertHolds
<1>2. c = [r EXCEPT !.idlenessTimer = FALSE, !.backoffTimer = FALSE, !.closeCount = n,
                    !.requests = <<>>, !.responses = <<>>, !.finish = "none", !.state = state]
  BY <1>1 DEF Closed
<1>3. state \in {"Initial", "Error"} /\ n \in Nat /\ r.closeCount \in Nat
  BY DEF Remote
<1> HIDE DEF state, n, c
<1>4. /\ c \in Remote
      /\ c.state = state /\ c.handshakeComplete = r.handshakeComplete
      /\ c.writePipeline = r.writePipeline
      /\ c.networkEnabled = r.networkEnabled /\ c.failed = r.failed
      /\ c.credentials = r.credentials /\ c.closeCount = n
      /\ c.idlenessTimer = FALSE /\ c.backoffTimer = FALSE
      /\ c.requests = <<>> /\ c.responses = <<>> /\ c.finish = "none"
  <2> DEFINE d == [r EXCEPT !.idlenessTimer = FALSE, !.backoffTimer = FALSE, !.closeCount = n,
                            !.finish = "none", !.state = state]
             nothing == <<>>
  <2>1. d \in Remote
    BY <1>3 DEF Remote
  <2>2. nothing \in Seq(Nat)
    OBVIOUS
  <2>3. c = [d EXCEPT !.requests = nothing, !.responses = nothing]
    BY <1>2, <2>1 DEF Remote
  <2> HIDE DEF nothing
  <2>4. /\ d.state = state /\ d.handshakeComplete = r.handshakeComplete
        /\ d.writePipeline = r.writePipeline
        /\ d.networkEnabled = r.networkEnabled /\ d.failed = r.failed
        /\ d.credentials = r.credentials /\ d.closeCount = n
        /\ d.idlenessTimer = FALSE /\ d.backoffTimer = FALSE /\ d.finish = "none"
    BY <1>3 DEF Remote
  <2> HIDE DEF d
  <2>5. QED
    BY <2>1, <2>2, <2>3, <2>4 DEF Remote, nothing
<1>5. CredentialsInv(c)
  <2>1. n \notin r.credentials /\ r.credentials \subseteq 0 .. n
    BY <1>3 DEF n
  <2>2. c.state # "Starting"
    BY <1>3, <1>4
  <2>3. QED
    BY <2>1, <2>2, <1>4 DEF CredentialsInv
<1>6. QED
  BY <1>4, <1>5 DEF IsSilent, c, state

\* An error that answers no write leaves the pipeline as it is and the stream on its way.
LEMMA CloseUnanswered ==
    ASSUME NEW r \in Remote, IsStarted(r), ~r.failed, r.networkEnabled,
           r.credentials \subseteq 0 .. r.closeCount,
           NEW status \in {"transient", "permanent"}, ~RejectsFirst(r, status),
           NEW queue, NEW settled
    PROVE  LET s == Close(r, status, queue)
           IN  /\ StreamInv(s, settled)
               /\ s.writePipeline = r.writePipeline
               /\ ~s.handshakeComplete
<1> DEFINE c == Closed(r, status)
<1>1. /\ c \in Remote /\ AtRest(c) /\ c.writePipeline = r.writePipeline
      /\ c.handshakeComplete = r.handshakeComplete
  BY ClosedRests DEF AtRest
<1>2. Close(r, status, queue) = [OnWriteStreamClose(c, status, queue) EXCEPT !.handshakeComplete = FALSE]
  BY DEF Close, Closed
<1> HIDE DEF c
<1>3. ~RejectsFirst(c, status)
  BY <1>1 DEF RejectsFirst
<1>4. HardAssert(c, status = "ok" => ~ShouldStartWriteStream(c)) = c
  BY <1>1, AssertHolds
<1>5. OnWriteStreamClose(c, status, queue) = StartIfNeeded(c)
  BY <1>3, <1>4 DEF OnWriteStreamClose
<1>6. OnItsWay(StartIfNeeded(c)) /\ StartIfNeeded(c).writePipeline = c.writePipeline
  BY <1>1, StartFromRest
<1>7. QED
  BY <1>1, <1>2, <1>5, <1>6, OnItsWayKeeps

\* A permanent error after the handshake takes the first write out of the pipeline.
LEMMA CloseAnswered ==
    ASSUME NEW queue \in Seq(Batch), Ordered(queue),
           NEW r \in Remote, IsStarted(r), ~r.failed, r.networkEnabled,
           r.credentials \subseteq 0 .. r.closeCount,
           RejectsFirst(r, "permanent"),
           HoldsFirst([r EXCEPT !.writePipeline = Tail(@)], queue), NEW settled
    PROVE  LET s == Close(r, "permanent", queue)
           IN  /\ StreamInv(s, settled)
               /\ IsFilled(s, queue)
               /\ ~s.handshakeComplete
<1> DEFINE c == Closed(r, "permanent")
           t == [c EXCEPT !.writePipeline = Tail(@)]
           i == InhibitBackoff(t)
           f == FillWritePipeline(i, queue)
<1>1. /\ c \in Remote /\ AtRest(c) /\ c.writePipeline = r.writePipeline
      /\ c.handshakeComplete = r.handshakeComplete
  BY ClosedRests DEF AtRest
<1>2. Close(r, "permanent", queue) =
         [OnWriteStreamClose(c, "permanent", queue) EXCEPT !.handshakeComplete = FALSE]
  BY DEF Close, Closed
<1> HIDE DEF c
<1>3. RejectsFirst(c, "permanent")
  BY <1>1 DEF RejectsFirst
<1>4. HardAssert(c, "permanent" = "ok" => ~ShouldStartWriteStream(c)) = c
  BY <1>1, AssertHolds
<1>5. OnWriteStreamClose(c, "permanent", queue) = StartIfNeeded(f)
  BY <1>3, <1>4 DEF OnWriteStreamClose, HandleWriteError
<1>6. Tail(r.writePipeline) \in Seq(Batch)
  <2>1. r.writePipeline \in Seq(Batch) /\ r.writePipeline # <<>>
    BY DEF Remote, RejectsFirst
  <2>2. QED
    BY <2>1, HeadTailProperties
<1>7. t \in Remote /\ AtRest(t) /\ t.writePipeline = Tail(r.writePipeline)
  BY <1>1, <1>6 DEF AtRest, Remote, IsSilent, CredentialsInv
<1> HIDE DEF t
<1>8. i = [t EXCEPT !.state = "Initial"]
  <2>1. ~IsStarted(t)
    BY <1>7 DEF AtRest, IsStarted, IsOpen
  <2>2. HardAssert(t, ~IsStarted(t)) = t
    BY <2>1, <1>7, AssertHolds
  <2>3. QED
    BY <2>2 DEF InhibitBackoff
<1>9. AtRest(i) /\ i.writePipeline = Tail(r.writePipeline)
  BY <1>7, <1>8 DEF AtRest, Remote, IsSilent, CredentialsInv
<1> HIDE DEF i
<1>10. HoldsFirst(i, queue)
  <2>1. [r EXCEPT !.writePipeline = Tail(@)].writePipeline = Tail(r.writePipeline)
    BY DEF Remote
  <2>2. QED
    BY <2>1, <1>9 DEF HoldsFirst
<1>11. OnItsWay(f) /\ IsFilled(f, queue)
  BY <1>9, <1>10, FillFromRest
<1> HIDE DEF f
<1>12. StartIfNeeded(f) = f
  BY <1>11 DEF StartIfNeeded, ShouldStartWriteStream, OnItsWay, IsStarted, IsOpen, Remote
<1> DEFINE s == [f EXCEPT !.handshakeComplete = FALSE]
<1>13. StreamInv(s, settled) /\ s.writePipeline = f.writePipeline /\ s.handshakeComplete = FALSE
  BY <1>11, OnItsWayKeeps
<1>14. Close(r, "permanent", queue) = s
  BY <1>2, <1>5, <1>12
<1> HIDE DEF s
<1>15. IsFilled(s, queue)
  BY <1>11, <1>13 DEF IsFilled, HoldsFirst
<1>16. QED
  BY <1>13, <1>14, <1>15

\* A stream that is stopped rests, provided nothing has to be sent.
LEMMA StopRests ==
    ASSUME NEW r \in Remote, IsStarted(r), ~r.failed,
           r.credentials \subseteq 0 .. r.closeCount,
           ~r.networkEnabled \/ r.writePipeline = <<>>, NEW queue
    PROVE  LET s == Stop(r, queue)
           IN  /\ s \in Remote /\ ~s.failed
               /\ s.state = "Initial" /\ ~s.backoffTimer /\ IsSilent(s) /\ CredentialsInv(s)
               /\ s.networkEnabled = r.networkEnabled
               /\ s.writePipeline = r.writePipeline
               /\ ~s.handshakeComplete
<1> DEFINE c == Closed(r, "ok")
           s == [c EXCEPT !.handshakeComplete = FALSE]
<1>1. /\ c \in Remote /\ ~c.failed /\ c.state = "Initial"
      /\ ~c.backoffTimer /\ IsSilent(c) /\ CredentialsInv(c)
      /\ c.networkEnabled = r.networkEnabled /\ c.writePipeline = r.writePipeline
  BY ClosedRests
<1>2. Stop(r, queue) = [OnWriteStreamClose(c, "ok", queue) EXCEPT !.handshakeComplete = FALSE]
  BY DEF Stop, Close, Closed
<1> HIDE DEF c
<1>3. ~RejectsFirst(c, "ok") /\ ~ShouldStartWriteStream(c)
  BY <1>1 DEF RejectsFirst, ShouldStartWriteStream
<1>4. HardAssert(c, "ok" = "ok" => ~ShouldStartWriteStream(c)) = c
  BY <1>1, <1>3, AssertHolds
<1>5. OnWriteStreamClose(c, "ok", queue) = c
  BY <1>3, <1>4 DEF OnWriteStreamClose, StartIfNeeded
<1>6. Stop(r, queue) = s
  BY <1>2, <1>5
<1>7. /\ s \in Remote /\ ~s.failed /\ s.state = "Initial"
      /\ ~s.backoffTimer /\ IsSilent(s) /\ CredentialsInv(s)
      /\ s.networkEnabled = r.networkEnabled /\ s.writePipeline = r.writePipeline
      /\ ~s.handshakeComplete
  BY <1>1 DEF Remote, IsSilent, CredentialsInv
<1>8. QED
  BY <1>6, <1>7

\* Enabling the network fills an empty pipeline and starts the stream for it.
LEMMA EnableNetworkKeeps ==
    ASSUME NEW queue \in Seq(Batch), Ordered(queue), NEW settled,
           NEW r \in Remote, ~r.failed, r.writePipeline = <<>>,
           r.state = "Initial", ~r.backoffTimer, ~r.handshakeComplete,
           IsSilent(r), CredentialsInv(r)
    PROVE  LET s == EnableNetwork(r, queue)
           IN  /\ StreamInv(s, settled)
               /\ IsFilled(s, queue)
               /\ ~s.handshakeComplete
<1> DEFINE e == [r EXCEPT !.networkEnabled = TRUE]
           s == FillWritePipeline(e, queue)
<1>1. AtRest(e) /\ e.writePipeline = <<>> /\ ~e.handshakeComplete
  BY DEF AtRest, Remote, IsSilent, CredentialsInv
<1> HIDE DEF e
<1>2. HoldsFirst(e, queue)
  <2>1. Len(queue) \in Nat /\ MaxPendingWrites \in Nat
    BY WritePipelineAssumption
  <2>2. QED
    BY <1>1, <2>1 DEF HoldsFirst
<1>3. OnItsWay(s) /\ IsFilled(s, queue) /\ ~s.handshakeComplete
  BY <1>1, <1>2, FillFromRest
<1>4. EnableNetwork(r, queue) = s
  BY DEF EnableNetwork, e
<1> HIDE DEF s
<1>5. StreamInv([s EXCEPT !.handshakeComplete = FALSE], settled)
  BY <1>3, OnItsWayKeeps
<1>6. [s EXCEPT !.handshakeComplete = FALSE] = s
  BY <1>3, OnItsWayKeeps
<1>7. QED
  BY <1>3, <1>4, <1>5, <1>6

\* Restarting the network forgets the pipeline and fills it again from the disk.
LEMMA RestartNetworkKeeps ==
    ASSUME NEW queue \in Seq(Batch), Ordered(queue), NEW before, NEW settled,
           NEW r, StreamInv(r, before)
    PROVE  LET s == RestartNetwork(r, queue)
           IN  /\ StreamInv(s, settled)
               /\ IsFilled(s, queue)
               /\ ~s.handshakeComplete
<1> DEFINE d == [r EXCEPT !.networkEnabled = FALSE]
           stopped == Stop(d, queue)
           e == [stopped EXCEPT !.writePipeline = <<>>]
           i == InhibitBackoff(e)
<1>1. /\ d \in Remote /\ ~d.failed /\ ~d.networkEnabled /\ d.state = r.state
      /\ CredentialsInv(d)
      /\ r.state # "Open" => IsSilent(d) /\ ~d.handshakeComplete
      /\ d.backoffTimer <=> d.state = "Backoff"
  BY DEF StreamInv, Remote, CredentialsInv, IsSilent
<1> HIDE DEF d
<1>2. /\ stopped \in Remote /\ ~stopped.failed /\ stopped.state \in {"Initial", "Error"}
      /\ ~stopped.backoffTimer /\ IsSilent(stopped) /\ CredentialsInv(stopped)
      /\ ~stopped.handshakeComplete
  <2>1. CASE IsStarted(d)
    <3>1. d.credentials \subseteq 0 .. d.closeCount
      BY <1>1 DEF CredentialsInv
    <3>2. QED
      BY <2>1, <3>1, <1>1, StopRests
  <2>2. CASE ~IsStarted(d)
    <3>1. stopped = d
      BY <2>2 DEF Stop
    <3>2. d.state \in {"Initial", "Error"}
      BY <2>2, <1>1 DEF IsStarted, IsOpen, Remote
    <3>3. QED
      BY <3>1, <3>2, <1>1
  <2>3. QED
    BY <2>1, <2>2
<1> HIDE DEF stopped
<1>3. /\ e \in Remote /\ ~e.failed /\ e.state \in {"Initial", "Error"}
      /\ ~e.backoffTimer /\ IsSilent(e) /\ CredentialsInv(e)
      /\ ~e.handshakeComplete /\ e.writePipeline = <<>>
  <2> DEFINE nothing == <<>>
  <2>1. nothing \in Seq(Batch)
    OBVIOUS
  <2>2. e = [stopped EXCEPT !.writePipeline = nothing]
    OBVIOUS
  <2> HIDE DEF e, nothing
  <2>3. e \in Remote /\ e.writePipeline = nothing
    BY <2>1, <2>2, <1>2 DEF Remote
  <2>4. QED
    BY <2>2, <2>3, <1>2 DEF Remote, IsSilent, CredentialsInv, nothing
<1> HIDE DEF e
<1>4. i = [e EXCEPT !.state = "Initial"]
  <2>1. ~IsStarted(e)
    BY <1>3 DEF IsStarted, IsOpen
  <2>2. HardAssert(e, ~IsStarted(e)) = e
    BY <2>1, <1>3, AssertHolds
  <2>3. QED
    BY <2>2 DEF InhibitBackoff
<1>5. /\ i \in Remote /\ ~i.failed /\ i.state = "Initial"
      /\ ~i.backoffTimer /\ IsSilent(i) /\ CredentialsInv(i)
      /\ ~i.handshakeComplete /\ i.writePipeline = <<>>
  BY <1>3, <1>4 DEF Remote, IsSilent, CredentialsInv
<1>6. RestartNetwork(r, queue) = EnableNetwork(i, queue)
  BY DEF RestartNetwork, d, stopped, e
<1> HIDE DEF i
<1>7. QED
  BY <1>5, <1>6, EnableNetworkKeeps

-----------------------------------------------------------------------------
(***************************************************************************)
(* The steps of the stream that leave the disk and the backend alone.      *)
(***************************************************************************)
\* What the document holds when no response is on its way.
LEMMA StoredUnanswered ==
    ASSUME PipelineInv
    PROVE  IsBest(stored, Settled) \/ (stored > Settled /\ stored \notin Refused)
<1>1. CASE remote.handshakeComplete /\ remote.responses # <<>>
  <2>1. stored = Settled + Len(remote.responses)
    BY <1>1 DEF PipelineInv, StoredInv
  <2>2. remote.responses \in Seq(Nat) /\ Len(remote.responses) \in Nat \ {0}
    BY <1>1 DEF PipelineInv, StreamInv, Remote
  <2>3. remote.state = "Open"
    BY <1>1 DEF PipelineInv, StreamInv
  <2>4. Exchanges(remote, Settled)
    BY <1>1, <2>3 DEF PipelineInv, StreamInv
  <2>5. Len(remote.responses) \in DOMAIN remote.responses
    BY <2>2
  <2>6. Settled + Len(remote.responses) \notin Refused
    BY <2>4, <2>5 DEF Exchanges
  <2>7. Settled \in Int
    BY DEF PipelineInv, QueueInv, Settled
  <2>8. QED
    BY <2>1, <2>2, <2>6, <2>7
<1>2. CASE ~(remote.handshakeComplete /\ remote.responses # <<>>)
  BY <1>2 DEF PipelineInv, StoredInv
<1>3. QED
  BY <1>1, <1>2

LEMMA RemoteStepKeeps ==
    ASSUME PipelineInv, UNCHANGED <<diskVars, serverVars>>,
           StreamInv(remote', Settled), IsFilled(remote', mutationQueue),
           \/ /\ remote'.handshakeComplete = remote.handshakeComplete
              /\ remote'.responses = remote.responses
           \/ remote'.handshakeComplete => remote'.responses = <<>>
    PROVE  PipelineInv'
<1>1. /\ UNCHANGED <<mutationQueue, nextBatchId, mutationCallbacks, executor, issued, reported,
                     restarts, applied, stored>>
      /\ Settled' = Settled /\ Orphans' = Orphans
  BY DEF diskVars, serverVars, Settled, Orphans
<1>2. QueueInv' /\ CallbacksInv' /\ restarts' \in Nat
  BY <1>1 DEF PipelineInv, QueueInv, CallbacksInv
<1>3. IsFilled(remote, mutationQueue)' /\ StreamInv(remote, Settled)'
  BY <1>1
<1>4. ServerInv'
  BY <1>1 DEF PipelineInv, ServerInv, IsTrue
<1>5. StoredInv'
  BY <1>1, StoredUnanswered DEF PipelineInv, StoredInv, IsBest
<1>6. QED
  BY <1>2, <1>3, <1>4, <1>5 DEF PipelineInv

\* What every step may use.
LEMMA PipelineFacts ==
    ASSUME PipelineInv
    PROVE  /\ mutationQueue \in Seq(Batch) /\ Ordered(mutationQueue)
           /\ Len(mutationQueue) \in Nat /\ Settled \in Nat
           /\ \A i \in DOMAIN mutationQueue : mutationQueue[i].write = Settled + i
           /\ remote \in Remote /\ ~remote.failed /\ remote.networkEnabled
           /\ remote.credentials \subseteq 0 .. remote.closeCount
           /\ StreamInv(remote, Settled)
           /\ HoldsFirst(remote, mutationQueue) /\ IsFilled(remote, mutationQueue)
BY DEF PipelineInv, QueueInv, Settled, Ordered, StreamInv, CredentialsInv, IsFilled

LEMMA IdleTimeoutKeeps == ASSUME PipelineInv, IdleTimeout PROVE PipelineInv'
<1>1. remote.state = "Open" /\ remote.writePipeline = <<>>
  BY PipelineFacts DEF IdleTimeout, StreamInv, IsSilent
<1>2. IsStarted(remote)
  BY <1>1 DEF IsStarted, IsOpen
<1>3. remote' = Stop(remote, mutationQueue)
  BY DEF IdleTimeout
<1>4. /\ remote' \in Remote /\ ~remote'.failed
      /\ remote'.state = "Initial" /\ ~remote'.backoffTimer
      /\ IsSilent(remote') /\ CredentialsInv(remote')
      /\ remote'.networkEnabled /\ remote'.writePipeline = <<>> /\ ~remote'.handshakeComplete
  BY <1>1, <1>2, <1>3, PipelineFacts, StopRests
<1>5. StreamInv(remote', Settled)
  BY <1>4 DEF StreamInv
<1>6. IsFilled(remote', mutationQueue)
  BY <1>1, <1>4, PipelineFacts DEF IsFilled, HoldsFirst
<1>7. QED
  BY <1>4, <1>5, <1>6, RemoteStepKeeps DEF IdleTimeout

LEMMA ConnectivityChangesKeeps == ASSUME PipelineInv, ConnectivityChanges PROVE PipelineInv'
<1>1. remote' = RestartNetwork(remote, mutationQueue)
  BY DEF ConnectivityChanges
<1>2. StreamInv(remote', Settled) /\ IsFilled(remote', mutationQueue) /\ ~remote'.handshakeComplete
  BY <1>1, PipelineFacts, RestartNetworkKeeps
<1>3. QED
  BY <1>2, RemoteStepKeeps DEF ConnectivityChanges

LEMMA BackoffElapsedKeeps == ASSUME PipelineInv, BackoffElapsed PROVE PipelineInv'
<1> DEFINE w == [remote EXCEPT !.backoffTimer = FALSE, !.state = "Initial"]
<1>1. /\ remote.state = "Backoff" /\ remote.writePipeline # <<>> /\ ~remote.handshakeComplete
      /\ IsSilent(remote) /\ remote \in Remote /\ CredentialsInv(remote)
  BY PipelineFacts DEF BackoffElapsed, StreamInv
<1>2. HardAssert(remote, remote.state = "Backoff") = remote
  BY <1>1, AssertHolds
<1>3. remote' = HardAssert(Start(w), IsStarted(Start(w)))
  BY <1>2 DEF BackoffElapsed
<1>4. AtRest(w) /\ w.writePipeline = remote.writePipeline /\ ~w.handshakeComplete
               /\ w.state = "Initial" /\ w.networkEnabled
  BY <1>1, PipelineFacts DEF AtRest, IsSilent, CredentialsInv, Remote
<1> HIDE DEF w
<1> DEFINE s == StartIfNeeded(w)
<1>5. s = Start(w)
  BY <1>1, <1>4 DEF StartIfNeeded, ShouldStartWriteStream, IsStarted, IsOpen
<1>6. OnItsWay(s) /\ s.writePipeline = remote.writePipeline /\ ~s.handshakeComplete
  BY <1>4, StartFromRest
<1> HIDE DEF s
<1>7. s \in Remote /\ IsStarted(s)
  BY <1>1, <1>6 DEF OnItsWay, IsStarted, IsOpen, Remote
<1>8. remote' = s
  BY <1>3, <1>5, <1>7, AssertHolds
<1>9. StreamInv(s, Settled)
  <2>1. StreamInv([s EXCEPT !.handshakeComplete = FALSE], Settled)
    BY <1>6, OnItsWayKeeps
  <2>2. [s EXCEPT !.handshakeComplete = FALSE] = s
    BY <1>6, OnItsWayKeeps
  <2>3. QED
    BY <2>1, <2>2
<1>10. IsFilled(s, mutationQueue)
  BY <1>6, PipelineFacts DEF IsFilled, HoldsFirst
<1>11. QED
  BY <1>6, <1>8, <1>9, <1>10, RemoteStepKeeps DEF BackoffElapsed

\* The store without the credentials that have arrived.
LEMMA CredentialsTaken ==
    ASSUME PipelineInv, NEW count \in remote.credentials
    PROVE  LET taken == [remote EXCEPT !.credentials = @ \ {count}]
           IN  /\ taken \in Remote
               /\ taken.credentials = remote.credentials \ {count}
               /\ taken.credentials \subseteq 0 .. taken.closeCount
               /\ taken.state = remote.state /\ taken.handshakeComplete = remote.handshakeComplete
               /\ taken.writePipeline = remote.writePipeline
               /\ taken.networkEnabled /\ ~taken.failed
               /\ taken.closeCount = remote.closeCount
               /\ taken.idlenessTimer = remote.idlenessTimer
               /\ taken.backoffTimer = remote.backoffTimer
               /\ taken.requests = remote.requests /\ taken.responses = remote.responses
               /\ taken.finish = remote.finish
               /\ count # remote.closeCount => StreamInv(taken, Settled)
               /\ count = remote.closeCount =>
                     /\ remote.state = "Starting" /\ HardAssert(taken, taken.state = "Starting") = taken
                     /\ IsSilent(remote) /\ ~remote.handshakeComplete /\ remote.writePipeline # <<>>
<1> DEFINE c == remote.credentials \ {count}
           taken == [remote EXCEPT !.credentials = c]
<1>1. remote \in Remote /\ c \in SUBSET Nat /\ c \subseteq 0 .. remote.closeCount
  BY PipelineFacts DEF Remote
<1> HIDE DEF c
<1>2. /\ taken \in Remote /\ taken.credentials = c
      /\ taken.state = remote.state /\ taken.handshakeComplete = remote.handshakeComplete
      /\ taken.writePipeline = remote.writePipeline
      /\ taken.networkEnabled = remote.networkEnabled /\ taken.failed = remote.failed
      /\ taken.closeCount = remote.closeCount
      /\ taken.idlenessTimer = remote.idlenessTimer
      /\ taken.backoffTimer = remote.backoffTimer
      /\ taken.requests = remote.requests /\ taken.responses = remote.responses
      /\ taken.finish = remote.finish
  BY <1>1 DEF Remote
<1> HIDE DEF taken
<1>3. ASSUME count # remote.closeCount
      PROVE  StreamInv(taken, Settled)
  <2>1. StreamInv(remote, Settled)
    BY PipelineFacts
  <2>2. CredentialsInv(taken)
    BY <1>1, <1>2, <1>3, <2>1 DEF StreamInv, CredentialsInv, c
  <2>3. /\ IsSilent(remote) => IsSilent(taken)
        /\ Greets(remote) => Greets(taken)
        /\ Exchanges(remote, Settled) => Exchanges(taken, Settled)
    BY <1>2 DEF IsSilent, Greets, Exchanges
  <2> QED
    BY <1>2, <2>1, <2>2, <2>3 DEF StreamInv
<1>4. count = remote.closeCount =>
         /\ remote.state = "Starting" /\ HardAssert(taken, taken.state = "Starting") = taken
         /\ IsSilent(remote) /\ ~remote.handshakeComplete /\ remote.writePipeline # <<>>
  <2>1. ASSUME count = remote.closeCount
        PROVE  /\ remote.state = "Starting" /\ IsSilent(remote) /\ ~remote.handshakeComplete
               /\ remote.writePipeline # <<>>
    BY <2>1, PipelineFacts DEF StreamInv, CredentialsInv
  <2>2. QED
    BY <2>1, <1>2, AssertHolds
<1>5. QED
  BY <1>1, <1>2, <1>3, <1>4, PipelineFacts DEF taken, c

LEMMA ResumeStartKeeps ==
    ASSUME PipelineInv, NEW count \in remote.credentials, ResumeStartWithCredentials(count)
    PROVE  PipelineInv'
<1> DEFINE taken == [remote EXCEPT !.credentials = @ \ {count}]
           o == [taken EXCEPT !.state = "Open"]
<1>1. remote' = IF CredentialsCurrent(count)
                THEN OnStreamStart(HardAssert(taken, taken.state = "Starting"))
                ELSE taken
  BY DEF ResumeStartWithCredentials
<1>2. /\ taken \in Remote
      /\ taken.credentials = remote.credentials \ {count}
      /\ taken.credentials \subseteq 0 .. taken.closeCount
      /\ taken.state = remote.state /\ taken.handshakeComplete = remote.handshakeComplete
      /\ taken.writePipeline = remote.writePipeline
      /\ taken.networkEnabled /\ ~taken.failed
      /\ taken.closeCount = remote.closeCount
      /\ taken.idlenessTimer = remote.idlenessTimer
      /\ taken.backoffTimer = remote.backoffTimer
      /\ taken.requests = remote.requests /\ taken.responses = remote.responses
      /\ taken.finish = remote.finish
      /\ count # remote.closeCount => StreamInv(taken, Settled)
      /\ count = remote.closeCount =>
            /\ remote.state = "Starting" /\ HardAssert(taken, taken.state = "Starting") = taken
            /\ IsSilent(remote) /\ ~remote.handshakeComplete /\ remote.writePipeline # <<>>
  BY CredentialsTaken
<1> HIDE DEF taken
<1>3. CASE count # remote.closeCount
  <2>1. remote' = taken
    BY <1>1, <1>3 DEF CredentialsCurrent
  <2>2. IsFilled(remote', mutationQueue)
    BY <2>1, <1>2, PipelineFacts DEF IsFilled, HoldsFirst
  <2>3. QED
    BY <2>1, <2>2, <1>2, <1>3, RemoteStepKeeps DEF ResumeStartWithCredentials
<1>4. CASE count = remote.closeCount
  <2>1. remote' = OnStreamStart(taken)
    BY <1>1, <1>2, <1>4 DEF CredentialsCurrent
  <2>2. /\ o \in Remote /\ o.state = "Open" /\ ~o.handshakeComplete /\ o.requests = <<>>
        /\ o.idlenessTimer = taken.idlenessTimer
        /\ o.credentials = taken.credentials
        /\ o.writePipeline = taken.writePipeline
        /\ o.networkEnabled /\ ~o.failed
        /\ o.closeCount = taken.closeCount
        /\ o.backoffTimer = taken.backoffTimer
        /\ o.responses = <<>> /\ o.finish = "none"
    BY <1>2, <1>4 DEF Remote, IsSilent
  <2>3. HardAssert(o, ~o.handshakeComplete) = o /\ HardAssert(o, IsOpen(o)) = o
    BY <2>2, AssertHolds DEF IsOpen
  <2>4. remote' = [o EXCEPT !.idlenessTimer = FALSE, !.requests = o.requests \o <<Handshake>>]
    BY <2>1, <2>3 DEF OnStreamStart, WriteHandshake, Write
  <2> HIDE DEF o
  <2> DEFINE greeting == <<Handshake>>
  <2>5. greeting \in Seq(Nat) /\ o.requests \o <<Handshake>> = greeting
    BY <2>2 DEF Handshake
  <2>6. remote' = [o EXCEPT !.idlenessTimer = FALSE, !.requests = greeting]
    BY <2>4, <2>5
  <2> HIDE DEF greeting
  <2>7. /\ remote' \in Remote /\ remote'.state = "Open" /\ ~remote'.handshakeComplete
        /\ remote'.requests = greeting /\ ~remote'.idlenessTimer
        /\ remote'.credentials = taken.credentials
        /\ remote'.writePipeline = taken.writePipeline
        /\ remote'.networkEnabled /\ ~remote'.failed
        /\ remote'.closeCount = taken.closeCount
        /\ remote'.backoffTimer = taken.backoffTimer
        /\ remote'.responses = <<>> /\ remote'.finish = "none"
    BY <2>2, <2>5, <2>6 DEF Remote
  <2>8. Greets(remote')
    BY <2>7 DEF Greets, greeting
  <2>9. CredentialsInv(remote')
    BY <2>7, <1>2, <1>4 DEF CredentialsInv
  <2>10. ~remote'.backoffTimer
    BY <2>7, <1>2, <1>4, PipelineFacts DEF StreamInv
  <2>11. StreamInv(remote', Settled)
    BY <2>7, <2>8, <2>9, <2>10, <1>2, <1>4 DEF StreamInv
  <2>12. IsFilled(remote', mutationQueue)
    BY <2>7, <1>2, PipelineFacts DEF IsFilled, HoldsFirst
  <2>13. QED
    BY <2>7, <2>11, <2>12, RemoteStepKeeps DEF ResumeStartWithCredentials
<1>5. QED
  BY <1>3, <1>4

LEMMA CredentialsFailKeeps ==
    ASSUME PipelineInv, NEW count \in remote.credentials, CredentialsFail(count)
    PROVE  PipelineInv'
<1> DEFINE taken == [remote EXCEPT !.credentials = @ \ {count}]
<1>1. remote' = IF CredentialsCurrent(count)
                THEN Close(HardAssert(taken, taken.state = "Starting"), "transient", mutationQueue)
                ELSE taken
  BY DEF CredentialsFail
<1>2. /\ taken \in Remote
      /\ taken.credentials \subseteq 0 .. taken.closeCount
      /\ taken.state = remote.state /\ taken.handshakeComplete = remote.handshakeComplete
      /\ taken.writePipeline = remote.writePipeline
      /\ taken.networkEnabled /\ ~taken.failed
      /\ taken.responses = remote.responses
      /\ count # remote.closeCount => StreamInv(taken, Settled)
      /\ count = remote.closeCount =>
            remote.state = "Starting" /\ HardAssert(taken, taken.state = "Starting") = taken
  BY CredentialsTaken
<1> HIDE DEF taken
<1>3. CASE count # remote.closeCount
  <2>1. remote' = taken
    BY <1>1, <1>3 DEF CredentialsCurrent
  <2>2. IsFilled(remote', mutationQueue)
    BY <2>1, <1>2, PipelineFacts DEF IsFilled, HoldsFirst
  <2>3. QED
    BY <2>1, <2>2, <1>2, <1>3, RemoteStepKeeps DEF CredentialsFail
<1>4. CASE count = remote.closeCount
  <2>1. remote' = Close(taken, "transient", mutationQueue)
    BY <1>1, <1>2, <1>4 DEF CredentialsCurrent
  <2>2. IsStarted(taken) /\ ~RejectsFirst(taken, "transient")
    BY <1>2, <1>4 DEF IsStarted, RejectsFirst
  <2>3. /\ StreamInv(remote', Settled) /\ remote'.writePipeline = taken.writePipeline
        /\ ~remote'.handshakeComplete
    BY <2>1, <2>2, <1>2, CloseUnanswered
  <2>4. IsFilled(remote', mutationQueue)
    BY <2>3, <1>2, PipelineFacts DEF IsFilled, HoldsFirst
  <2>5. QED
    BY <2>3, <2>4, RemoteStepKeeps DEF CredentialsFail
<1>5. QED
  BY <1>3, <1>4

LEMMA HandshakeCompletesKeeps == ASSUME PipelineInv, HandshakeCompletes PROVE PipelineInv'
<1> DEFINE nothing == <<>>
           read == [remote EXCEPT !.responses = nothing, !.handshakeComplete = TRUE]
<1>1. /\ remote \in Remote /\ remote.state = "Open" /\ ~remote.handshakeComplete
      /\ remote.responses = <<Handshake>> /\ remote.requests = <<>> /\ remote.finish = "none"
      /\ ~remote.idlenessTimer /\ remote.writePipeline # <<>>
  BY PipelineFacts DEF HandshakeCompletes, StreamInv, IsSilent, Greets
<1>2. HardAssert(remote, IsStarted(remote)) = remote
  BY <1>1, AssertHolds DEF IsStarted, IsOpen
<1>3. Tail(remote.responses) = <<>>
  BY <1>1
<1>4. remote' = WriteMutations(read, read.writePipeline)
  BY <1>2, <1>3 DEF HandshakeCompletes
<1>5. nothing \in Seq(Nat)
  OBVIOUS
<1> HIDE DEF nothing
<1>6. /\ read \in Remote /\ read.state = "Open" /\ read.handshakeComplete
      /\ read.writePipeline = remote.writePipeline
      /\ read.networkEnabled = remote.networkEnabled /\ read.failed = remote.failed
      /\ read.credentials = remote.credentials /\ read.closeCount = remote.closeCount
      /\ read.idlenessTimer = remote.idlenessTimer /\ read.backoffTimer = remote.backoffTimer
      /\ read.requests = <<>> /\ read.responses = nothing /\ read.finish = "none"
  BY <1>1, <1>5 DEF Remote
<1> HIDE DEF read
<1>7. remote.writePipeline \in Seq(Batch)
  BY <1>1 DEF Remote
<1>8. PICK sent \in Seq(Nat), timer \in BOOLEAN :
              /\ remote' = [read EXCEPT !.idlenessTimer = timer, !.requests = sent]
              /\ timer = IF read.writePipeline = <<>> THEN read.idlenessTimer ELSE FALSE
              /\ Len(sent) = Len(read.requests) + Len(read.writePipeline)
              /\ \A i \in 1 .. Len(read.requests) : sent[i] = read.requests[i]
              /\ \A i \in 1 .. Len(read.writePipeline) :
                    sent[Len(read.requests) + i] = read.writePipeline[i].write
  <2>1. IsOpen(read)
    BY <1>6 DEF IsOpen
  <2> DEFINE batches == read.writePipeline
  <2>2. batches \in Seq(Batch) /\ remote' = WriteMutations(read, batches)
    BY <1>4, <1>6, <1>7
  <2> HIDE DEF batches
  <2>3. \E sent \in Seq(Nat), timer \in BOOLEAN :
              /\ WriteMutations(read, batches) = [read EXCEPT !.idlenessTimer = timer, !.requests = sent]
              /\ timer = IF batches = <<>> THEN read.idlenessTimer ELSE FALSE
              /\ Len(sent) = Len(read.requests) + Len(batches)
              /\ \A i \in 1 .. Len(read.requests) : sent[i] = read.requests[i]
              /\ \A i \in 1 .. Len(batches) : sent[Len(read.requests) + i] = batches[i].write
    BY <2>1, <2>2, <1>6, MutationsWritten
  <2>4. QED
    BY <2>2, <2>3 DEF batches
<1>9. /\ remote' \in Remote /\ remote'.state = "Open" /\ remote'.handshakeComplete
      /\ remote'.writePipeline = remote.writePipeline
      /\ remote'.networkEnabled = remote.networkEnabled /\ remote'.failed = remote.failed
      /\ remote'.credentials = remote.credentials /\ remote'.closeCount = remote.closeCount
      /\ remote'.idlenessTimer = timer /\ remote'.backoffTimer = remote.backoffTimer
      /\ remote'.requests = sent /\ remote'.responses = <<>> /\ remote'.finish = "none"
  BY <1>6, <1>8 DEF Remote, nothing
<1>10. ~timer
  BY <1>1, <1>6, <1>8
<1>11. Exchanges(remote', Settled)
  <2> DEFINE n == Len(remote.writePipeline)
  <2>1. n \in Nat /\ n <= Len(mutationQueue) /\ DOMAIN sent = 1 .. n /\ Len(sent) = n
    BY <1>6, <1>7, <1>8, PipelineFacts DEF HoldsFirst
  <2>2. \A i \in 1 .. n : remote.writePipeline[i] = mutationQueue[i] /\ i \in DOMAIN mutationQueue
    BY <1>7, <2>1, PipelineFacts DEF HoldsFirst
  <2> HIDE DEF n
  <2>3. ASSUME NEW i \in 1 .. n
        PROVE  sent[i] = Settled + i
    <3>1. Len(read.requests) = 0 /\ i \in Int
      BY <1>6
    <3>2. sent[i] = remote.writePipeline[i].write
      BY <3>1, <1>6, <1>8, <2>1 DEF n
    <3>3. QED
      BY <3>2, <2>2, PipelineFacts
  <2>4. Len(remote'.responses) = 0 /\ DOMAIN remote'.responses = {}
    BY <1>9
  <2>5. Settled \in Nat
    BY PipelineFacts
  <2>6. Len(remote'.responses) + Len(remote'.requests) = Len(remote'.writePipeline)
    BY <2>1, <2>4, <1>9 DEF n
  <2>7. ASSUME NEW i \in DOMAIN remote'.requests
        PROVE  remote'.requests[i] = Settled + Len(remote'.responses) + i
    <3>1. i \in 1 .. n /\ i \in Int /\ remote'.requests[i] = Settled + i
      BY <2>1, <2>3, <1>9
    <3>2. QED
      BY <3>1, <2>4, <2>5
  <2>8. QED
    BY <2>4, <2>6, <2>7, <1>9 DEF Exchanges
<1>12. StreamInv(remote', Settled)
  BY <1>1, <1>9, <1>10, <1>11, PipelineFacts DEF StreamInv, CredentialsInv
<1>13. IsFilled(remote', mutationQueue)
  BY <1>9, PipelineFacts DEF IsFilled, HoldsFirst
<1>14. QED
  BY <1>9, <1>12, <1>13, RemoteStepKeeps DEF HandshakeCompletes

LEMMA RunBlockKeeps == ASSUME PipelineInv, RunBlock PROVE PipelineInv'
<1>1. executor' \in Seq(Outcome)
  BY HeadTailProperties DEF RunBlock, PipelineInv, ServerInv
<1>2. /\ UNCHANGED <<mutationQueue, nextBatchId, remote, mutationCallbacks, issued, reported,
                     restarts, applied, stored>>
      /\ Settled' = Settled /\ Orphans' = Orphans
  BY DEF RunBlock, serverVars, Settled, Orphans
<1>3. QueueInv' /\ CallbacksInv' /\ restarts' \in Nat
  BY <1>2 DEF PipelineInv, QueueInv, CallbacksInv
<1>4. IsFilled(remote, mutationQueue)' /\ StreamInv(remote, Settled)'
  BY <1>2 DEF PipelineInv
<1>5. ServerInv'
  BY <1>1, <1>2 DEF PipelineInv, ServerInv, IsTrue
<1>6. StoredInv'
  BY <1>2 DEF PipelineInv, StoredInv, IsBest
<1>7. QED
  BY <1>3, <1>4, <1>5, <1>6 DEF PipelineInv

-----------------------------------------------------------------------------
(***************************************************************************)
(* The steps of the backend.                                               *)
(***************************************************************************)
\* A request is the handshake, or the next write of the pipeline.
LEMMA NextRequest ==
    ASSUME PipelineInv, Serving
    PROVE  /\ remote.state = "Open" /\ remote.finish = "none"
           /\ remote.requests \in Seq(Nat) /\ remote.responses \in Seq(Nat)
           /\ Head(remote.requests) = Handshake =>
                 /\ ~remote.handshakeComplete
                 /\ remote.requests = <<Handshake>> /\ remote.responses = <<>>
           /\ Head(remote.requests) # Handshake =>
                 /\ remote.handshakeComplete
                 /\ Head(remote.requests) = Settled + Len(remote.responses) + 1
                 /\ Len(remote.responses) < Len(remote.writePipeline)
<1>1. remote.finish = "none" /\ remote.requests # <<>> /\ remote.state = "Open"
  BY PipelineFacts DEF Serving, StreamInv, IsSilent
<1>2. remote.requests \in Seq(Nat) /\ remote.responses \in Seq(Nat)
  BY PipelineFacts DEF Remote
<1>3. CASE ~remote.handshakeComplete
  <2>1. remote.requests = <<Handshake>> /\ remote.responses = <<>>
    BY <1>1, <1>3, PipelineFacts DEF StreamInv, Greets
  <2>2. Head(remote.requests) = Handshake
    BY <2>1
  <2>3. QED
    BY <1>1, <1>2, <1>3, <2>1, <2>2
<1>4. CASE remote.handshakeComplete
  <2>1. Exchanges(remote, Settled)
    BY <1>1, <1>4, PipelineFacts DEF StreamInv
  <2>2. /\ Len(remote.responses) \in Nat /\ Len(remote.requests) \in Nat \ {0}
        /\ 1 \in DOMAIN remote.requests /\ Head(remote.requests) = remote.requests[1]
    BY <1>1, <1>2
  <2>3. /\ Head(remote.requests) = Settled + Len(remote.responses) + 1
        /\ Len(remote.responses) + Len(remote.requests) = Len(remote.writePipeline)
    BY <1>1, <2>1, <2>2 DEF Exchanges
  <2>4. Head(remote.requests) # Handshake
    BY <2>2, <2>3, PipelineFacts DEF Handshake
  <2>5. Len(remote.responses) < Len(remote.writePipeline)
    <3> DEFINE a == Len(remote.responses)
               b == Len(remote.requests)
               c == Len(remote.writePipeline)
    <3>1. a \in Nat /\ b \in Nat /\ b # 0 /\ a + b = c
      BY <2>2, <2>3
    <3> HIDE DEF a, b, c
    <3>2. a < c
      BY <3>1
    <3>3. QED
      BY <3>2 DEF a, c
  <2>6. QED
    BY <1>1, <1>2, <1>4, <2>3, <2>4, <2>5
<1>5. QED
  BY <1>3, <1>4

LEMMA ServeHandshakeKeeps == ASSUME PipelineInv, ServeHandshake PROVE PipelineInv'
<1> DEFINE nothing == <<>>
           answer == <<Handshake>>
<1>1. /\ remote.state = "Open" /\ remote.finish = "none" /\ ~remote.handshakeComplete
      /\ remote.requests = <<Handshake>> /\ remote.responses = <<>>
  BY NextRequest DEF ServeHandshake
<1>2. Tail(remote.requests) = nothing /\ Append(remote.responses, Handshake) = answer
  BY <1>1
<1>3. remote' = [remote EXCEPT !.requests = nothing, !.responses = answer]
  BY <1>2 DEF ServeHandshake
<1>4. nothing \in Seq(Nat) /\ answer \in Seq(Nat)
  BY DEF Handshake
<1> HIDE DEF nothing, answer
<1>5. /\ remote' \in Remote /\ remote'.state = "Open" /\ ~remote'.handshakeComplete
      /\ remote'.writePipeline = remote.writePipeline
      /\ remote'.networkEnabled = remote.networkEnabled /\ remote'.failed = remote.failed
      /\ remote'.credentials = remote.credentials /\ remote'.closeCount = remote.closeCount
      /\ remote'.idlenessTimer = remote.idlenessTimer /\ remote'.backoffTimer = remote.backoffTimer
      /\ remote'.requests = nothing /\ remote'.responses = answer /\ remote'.finish = "none"
  BY <1>1, <1>3, <1>4, PipelineFacts DEF Remote
<1>6. Greets(remote')
  BY <1>5 DEF Greets, nothing, answer
<1>7. StreamInv(remote', Settled)
  BY <1>1, <1>5, <1>6, PipelineFacts DEF StreamInv, CredentialsInv
<1>8. IsFilled(remote', mutationQueue)
  BY <1>5, PipelineFacts DEF IsFilled, HoldsFirst
<1>9. QED
  BY <1>5, <1>7, <1>8, RemoteStepKeeps DEF ServeHandshake

LEMMA RefuseHandshakeKeeps == ASSUME PipelineInv, RefuseHandshake PROVE PipelineInv'
<1> DEFINE nothing == <<>>
<1>1. /\ remote.state = "Open" /\ remote.finish = "none" /\ ~remote.handshakeComplete
      /\ remote.requests = <<Handshake>> /\ remote.responses = <<>>
  BY NextRequest DEF RefuseHandshake
<1>2. remote' = [remote EXCEPT !.requests = nothing, !.finish = "permanent"]
  BY DEF RefuseHandshake
<1>3. nothing \in Seq(Nat)
  OBVIOUS
<1> HIDE DEF nothing
<1>4. /\ remote' \in Remote /\ remote'.state = "Open" /\ ~remote'.handshakeComplete
      /\ remote'.writePipeline = remote.writePipeline
      /\ remote'.networkEnabled = remote.networkEnabled /\ remote'.failed = remote.failed
      /\ remote'.credentials = remote.credentials /\ remote'.closeCount = remote.closeCount
      /\ remote'.idlenessTimer = remote.idlenessTimer /\ remote'.backoffTimer = remote.backoffTimer
      /\ remote'.requests = nothing /\ remote'.responses = <<>> /\ remote'.finish = "permanent"
  BY <1>1, <1>2, <1>3, PipelineFacts DEF Remote
<1>5. Greets(remote')
  BY <1>4 DEF Greets, nothing
<1>6. StreamInv(remote', Settled)
  BY <1>1, <1>4, <1>5, PipelineFacts DEF StreamInv, CredentialsInv
<1>7. IsFilled(remote', mutationQueue)
  BY <1>4, PipelineFacts DEF IsFilled, HoldsFirst
<1>8. QED
  BY <1>4, <1>6, <1>7, RemoteStepKeeps DEF RefuseHandshake

LEMMA RefuseWriteKeeps == ASSUME PipelineInv, RefuseWrite PROVE PipelineInv'
<1> DEFINE nothing == <<>>
<1>1. Head(remote.requests) # Handshake
  BY WritePipelineAssumption DEF RefuseWrite, Handshake
<1>2. /\ remote.state = "Open" /\ remote.finish = "none" /\ remote.handshakeComplete
      /\ Settled + Len(remote.responses) + 1 \in Refused
      /\ Len(remote.responses) < Len(remote.writePipeline)
  BY <1>1, NextRequest DEF RefuseWrite
<1>3. remote' = [remote EXCEPT !.requests = nothing, !.finish = "permanent"]
  BY DEF RefuseWrite
<1>4. nothing \in Seq(Nat)
  OBVIOUS
<1> HIDE DEF nothing
<1>5. /\ remote' \in Remote /\ remote'.state = "Open"
      /\ remote'.handshakeComplete = remote.handshakeComplete
      /\ remote'.writePipeline = remote.writePipeline
      /\ remote'.networkEnabled = remote.networkEnabled /\ remote'.failed = remote.failed
      /\ remote'.credentials = remote.credentials /\ remote'.closeCount = remote.closeCount
      /\ remote'.idlenessTimer = remote.idlenessTimer /\ remote'.backoffTimer = remote.backoffTimer
      /\ remote'.responses = remote.responses /\ remote'.finish = "permanent"
  BY <1>2, <1>3, <1>4, PipelineFacts DEF Remote
<1>6. Exchanges(remote', Settled)
  BY <1>2, <1>5, PipelineFacts DEF Exchanges, StreamInv
<1>7. StreamInv(remote', Settled)
  BY <1>2, <1>5, <1>6, PipelineFacts DEF StreamInv, CredentialsInv
<1>8. IsFilled(remote', mutationQueue)
  BY <1>5, PipelineFacts DEF IsFilled, HoldsFirst
<1>9. QED
  BY <1>5, <1>7, <1>8, RemoteStepKeeps DEF RefuseWrite

LEMMA ApplyWriteKeeps == ASSUME PipelineInv, ApplyWrite PROVE PipelineInv'
<1> DEFINE w == Head(remote.requests)
           asked == remote.requests
           told == remote.responses
           rest == Tail(asked)
           now == Append(told, w)
<1>1. /\ remote.state = "Open" /\ remote.finish = "none" /\ remote.handshakeComplete
      /\ asked \in Seq(Nat) /\ told \in Seq(Nat) /\ asked # <<>>
      /\ w = Settled + Len(told) + 1 /\ w \notin Refused
      /\ Len(told) < Len(remote.writePipeline)
  BY NextRequest DEF ApplyWrite, Serving
<1>2. /\ applied' = applied \cup {w} /\ stored' = w
      /\ remote' = [remote EXCEPT !.requests = rest, !.responses = now]
      /\ UNCHANGED <<mutationQueue, nextBatchId, mutationCallbacks, executor, issued, reported, restarts>>
  BY DEF ApplyWrite, diskVars
<1>3. Settled' = Settled /\ Orphans' = Orphans
  BY <1>2 DEF Settled, Orphans
<1>4. Exchanges(remote, Settled)
  BY <1>1, PipelineFacts DEF StreamInv
<1>5. w \in Nat /\ Settled \in Nat /\ Len(told) \in Nat /\ Len(asked) \in Nat
  BY <1>1, PipelineFacts
<1> HIDE DEF w, asked, told
<1>6. /\ rest \in Seq(Nat) /\ Len(rest) = Len(asked) - 1
      /\ \A i \in 1 .. Len(rest) : rest[i] = asked[i + 1]
      /\ now \in Seq(Nat) /\ Len(now) = Len(told) + 1
      /\ \A i \in 1 .. Len(told) : now[i] = told[i]
      /\ now[Len(told) + 1] = w
  <2>1. /\ rest \in Seq(Nat) /\ Len(rest) = Len(asked) - 1
        /\ \A i \in 1 .. Len(rest) : rest[i] = asked[i + 1]
    BY <1>1, HeadTailProperties
  <2>2. /\ now \in Seq(Nat) /\ Len(now) = Len(told) + 1
        /\ \A i \in 1 .. Len(told) : now[i] = told[i]
        /\ now[Len(told) + 1] = w
    BY <1>1, <1>5, AppendProperties
  <2>3. QED
    BY <2>1, <2>2
<1> HIDE DEF rest, now
<1>7. /\ remote' \in Remote /\ remote'.state = "Open" /\ remote'.handshakeComplete
      /\ remote'.writePipeline = remote.writePipeline
      /\ remote'.networkEnabled = remote.networkEnabled /\ remote'.failed = remote.failed
      /\ remote'.credentials = remote.credentials /\ remote'.closeCount = remote.closeCount
      /\ remote'.idlenessTimer = remote.idlenessTimer /\ remote'.backoffTimer = remote.backoffTimer
      /\ remote'.requests = rest /\ remote'.responses = now /\ remote'.finish = "none"
  BY <1>1, <1>2, <1>6, PipelineFacts DEF Remote
<1> DEFINE n == Len(told)
           m == Len(asked)
<1>8. /\ n \in Nat /\ m \in Nat /\ n + m = Len(remote.writePipeline)
      /\ \A i \in 1 .. n : told[i] = Settled + i /\ told[i] \notin Refused
      /\ \A i \in 1 .. m : asked[i] = Settled + n + i
      /\ DOMAIN now = 1 .. n + 1 /\ DOMAIN rest = 1 .. m - 1 /\ m > 0
      /\ DOMAIN told = 1 .. n
  <2>1. /\ n \in Nat /\ m \in Nat /\ m > 0 /\ DOMAIN told = 1 .. n /\ DOMAIN asked = 1 .. m
        /\ DOMAIN now = 1 .. Len(now) /\ DOMAIN rest = 1 .. Len(rest)
    BY <1>1, <1>6
  <2>2. /\ n + m = Len(remote.writePipeline)
        /\ \A i \in DOMAIN told : told[i] = Settled + i /\ told[i] \notin Refused
        /\ \A i \in DOMAIN asked : asked[i] = Settled + n + i
    BY <1>1, <1>4 DEF Exchanges, told, asked
  <2>3. Len(now) = n + 1 /\ Len(rest) = m - 1
    BY <1>6
  <2> HIDE DEF n, m
  <2>4. QED
    BY <2>1, <2>2, <2>3
<1>9. Exchanges(remote', Settled)
  <2>1. Len(now) = n + 1 /\ Len(rest) = m - 1
    BY <1>6
  <2> HIDE DEF n, m
  <2>2. ASSUME NEW i \in 1 .. n + 1
        PROVE  now[i] = Settled + i /\ now[i] \notin Refused
    <3>1. CASE i <= n
      BY <3>1, <1>6, <1>8 DEF n
    <3>2. CASE i = n + 1
      BY <3>2, <1>1, <1>5, <1>6, <1>8 DEF n
    <3>3. QED
      BY <3>1, <3>2, <1>8
  <2>3. ASSUME NEW i \in 1 .. m - 1
        PROVE  rest[i] = Settled + (n + 1) + i
    <3>1. i + 1 \in 1 .. m /\ i \in Int
      BY <1>8
    <3>2. rest[i] = asked[i + 1]
      BY <1>6, <2>1
    <3>3. QED
      BY <3>1, <3>2, <1>5, <1>8
  <2>4. (n + 1) + (m - 1) = Len(remote.writePipeline)
    BY <1>8
  <2>5. QED
    BY <2>1, <2>2, <2>3, <2>4, <1>7, <1>8 DEF Exchanges
<1>10. StreamInv(remote', Settled)
  BY <1>1, <1>7, <1>9, PipelineFacts DEF StreamInv, CredentialsInv
<1>11. IsFilled(remote', mutationQueue)
  BY <1>7, PipelineFacts DEF IsFilled, HoldsFirst
<1>12. ServerInv'
  <2>1. ASSUME NEW i \in DOMAIN remote'.responses
        PROVE  remote'.responses[i] \in applied'
    <3>1. i \in 1 .. n + 1
      BY <1>7, <1>8
    <3> HIDE DEF n
    <3>2. CASE i <= n
      <4>1. told[i] \in applied /\ i \in 1 .. n
        BY <3>1, <3>2, <1>1, <1>8 DEF PipelineInv, ServerInv, told
      <4>2. QED
        BY <4>1, <1>2, <1>6, <1>7 DEF n
    <3>3. CASE i = n + 1
      BY <3>3, <1>2, <1>6, <1>7 DEF n
    <3>4. QED
      BY <3>1, <3>2, <3>3, <1>8
  <2>2. applied' \subseteq Nat /\ applied \subseteq applied'
    BY <1>2, <1>5 DEF PipelineInv, ServerInv
  <2>3. QED
    BY <2>1, <2>2, <1>2 DEF PipelineInv, ServerInv, IsTrue
<1>13. StoredInv'
  <2>1. Len(remote.writePipeline) <= Len(mutationQueue) /\ Settled = issued - Len(mutationQueue)
    BY PipelineFacts DEF HoldsFirst, Settled
  <2>2. issued \in Nat /\ Len(mutationQueue) \in Nat
    BY PipelineFacts DEF PipelineInv, QueueInv
  <2>3. w \in 0 .. issued
    <3> DEFINE k == Len(remote.writePipeline)
    <3>1. k \in Nat /\ n < k
      BY <1>1, <1>8
    <3> HIDE DEF n, k
    <3>2. w = Settled + n + 1
      BY <1>1 DEF n
    <3>3. k <= Len(mutationQueue)
      BY <2>1 DEF k
    <3>4. QED
      BY <3>1, <3>2, <3>3, <2>1, <2>2, <1>5, <1>8
  <2>4. remote'.responses # <<>> /\ stored' = Settled' + Len(remote'.responses)
    <3>1. Len(now) = n + 1 /\ remote'.responses = now
      BY <1>6, <1>7
    <3>2. w = Settled + n + 1
      BY <1>1
    <3> HIDE DEF n
    <3>3. now # <<>> /\ w = Settled + Len(now)
      BY <3>1, <3>2, <1>5, <1>8
    <3>4. QED
      BY <3>1, <3>3, <1>2, <1>3
  <2>5. QED
    BY <2>3, <2>4, <1>2, <1>7 DEF StoredInv
<1>14. QueueInv' /\ CallbacksInv' /\ restarts' \in Nat
  BY <1>2, <1>3 DEF PipelineInv, QueueInv, CallbacksInv
<1>15. QED
  BY <1>2, <1>3, <1>10, <1>11, <1>12, <1>13, <1>14 DEF PipelineInv

-----------------------------------------------------------------------------
(***************************************************************************)
(* The steps that change the queue on disk.                                *)
(***************************************************************************)
\* A new batch has a completion block, and takes none from the others.
LEMMA IssueOrphans == ASSUME PipelineInv, IssueWrite PROVE Orphans' = Orphans
<1> DEFINE b == [id |-> nextBatchId, write |-> issued + 1]
           n == Len(mutationQueue)
<1>1. /\ mutationQueue \in Seq(Batch) /\ n \in Nat /\ DOMAIN mutationQueue = 1 .. n
      /\ issued \in Nat /\ nextBatchId \in Nat
  BY DEF PipelineInv, QueueInv
<1>2. /\ mutationQueue' = Append(mutationQueue, b)
      /\ mutationCallbacks' = mutationCallbacks \cup {nextBatchId}
  BY DEF IssueWrite
<1>3. b \in Batch /\ b.id = nextBatchId
  BY <1>1 DEF Batch
<1> HIDE DEF b
<1>4. /\ mutationQueue' \in Seq(Batch) /\ Len(mutationQueue') = n + 1
      /\ \A i \in 1 .. n : mutationQueue'[i] = mutationQueue[i]
      /\ mutationQueue'[n + 1] = b
  BY <1>1, <1>2, <1>3, AppendProperties
<1>5. DOMAIN mutationQueue' = 1 .. n + 1
  BY <1>4
<1>6. \A i \in 1 .. n : mutationQueue[i].id \in Nat /\ mutationQueue[i].id < nextBatchId
  BY <1>1, BatchEntries DEF PipelineInv, QueueInv
<1> HIDE DEF n
<1>7. Orphans' = {i \in 1 .. n + 1 : mutationQueue'[i].id \notin mutationCallbacks'}
  BY <1>5 DEF Orphans
<1>8. Orphans = {i \in 1 .. n : mutationQueue[i].id \notin mutationCallbacks}
  BY <1>1 DEF Orphans
<1>9. mutationQueue'[n + 1].id \in mutationCallbacks'
  BY <1>2, <1>3, <1>4
<1>10. \A i \in 1 .. n : mutationQueue'[i].id \in mutationCallbacks'
                             <=> mutationQueue[i].id \in mutationCallbacks
  BY <1>1, <1>2, <1>4, <1>6
<1>11. \A i : i \in 1 .. n + 1 <=> i \in 1 .. n \/ i = n + 1
  BY <1>1
<1>12. QED
  BY <1>7, <1>8, <1>9, <1>10, <1>11

LEMMA IssueWriteKeeps == ASSUME PipelineInv, IssueWrite PROVE PipelineInv'
<1> DEFINE b == [id |-> nextBatchId, write |-> issued + 1]
           n == Len(mutationQueue)
<1>1. /\ issued \in Nat /\ nextBatchId \in Nat /\ n \in Nat /\ n <= issued
      /\ mutationQueue \in Seq(Batch) /\ Settled = issued - n /\ DOMAIN mutationQueue = 1 .. n
  BY DEF PipelineInv, QueueInv, Settled
<1>2. /\ issued' = issued + 1 /\ nextBatchId' = nextBatchId + 1
      /\ mutationQueue' = Append(mutationQueue, b)
      /\ mutationCallbacks' = mutationCallbacks \cup {nextBatchId}
      /\ remote' = FillWritePipeline(remote, mutationQueue')
      /\ UNCHANGED <<executor, applied, stored, reported, restarts>>
  BY DEF IssueWrite
<1>3. b \in Batch /\ b.id = nextBatchId /\ b.write = issued + 1
  BY <1>1 DEF Batch
<1> HIDE DEF b
<1>4. /\ mutationQueue' \in Seq(Batch) /\ Len(mutationQueue') = n + 1
      /\ \A i \in 1 .. n : mutationQueue'[i] = mutationQueue[i]
      /\ mutationQueue'[n + 1] = b
  BY <1>1, <1>2, <1>3, AppendProperties
<1>5. DOMAIN mutationQueue' = 1 .. n + 1
  BY <1>4
<1>6. Settled' = Settled
  <2>1. Settled' = issued' - Len(mutationQueue')
    BY DEF Settled
  <2> HIDE DEF n
  <2>2. QED
    BY <2>1, <1>1, <1>2, <1>4
<1>7. \A i \in DOMAIN mutationQueue :
         /\ mutationQueue[i].write = Settled + i
         /\ mutationQueue[i].id \in Nat /\ mutationQueue[i].id < nextBatchId
  BY <1>1, BatchEntries DEF PipelineInv, QueueInv
<1>8. \A i \in DOMAIN mutationQueue' :
         mutationQueue'[i].write = Settled + i /\ mutationQueue'[i].id < nextBatchId'
  <2> HIDE DEF n
  <2> TAKE i \in DOMAIN mutationQueue'
  <2>1. CASE i \in 1 .. n
    BY <2>1, <1>1, <1>2, <1>4, <1>7
  <2>2. CASE i = n + 1
    <3>1. mutationQueue'[i].write = issued + 1 /\ mutationQueue'[i].id = nextBatchId
      BY <2>2, <1>3, <1>4
    <3>2. QED
      BY <3>1, <2>2, <1>1, <1>2
  <2>3. QED
    BY <2>1, <2>2, <1>1, <1>5
<1>9. Ordered(mutationQueue')
  <2> HIDE DEF n
  <2>1. SUFFICES ASSUME NEW i \in 1 .. n + 1, NEW j \in 1 .. n + 1, i < j
                 PROVE  mutationQueue'[i].id < mutationQueue'[j].id
    BY <1>5 DEF Ordered
  <2>2. i \in 1 .. n
    BY <2>1, <1>1
  <2>3. CASE j \in 1 .. n
    BY <2>1, <2>2, <2>3, <1>1, <1>4, PipelineFacts DEF Ordered
  <2>4. CASE j = n + 1
    BY <2>2, <2>4, <1>1, <1>3, <1>4, <1>7
  <2>5. QED
    BY <2>3, <2>4, <1>1
<1>10. QueueInv'
  <2>1. Len(mutationQueue') <= issued' /\ issued' \in Nat /\ nextBatchId' \in Nat
    BY <1>1, <1>2, <1>4
  <2>2. QED
    BY <2>1, <1>4, <1>6, <1>8, <1>9 DEF QueueInv, Ordered
<1>11. HoldsFirst(remote, mutationQueue')
  <2>1. remote.writePipeline \in Seq(Batch)
    BY PipelineFacts DEF Remote
  <2>2. /\ Len(remote.writePipeline) <= n /\ Len(remote.writePipeline) <= MaxPendingWrites
        /\ \A i \in DOMAIN remote.writePipeline : remote.writePipeline[i] = mutationQueue[i]
    BY PipelineFacts DEF HoldsFirst
  <2>3. /\ Len(remote.writePipeline) \in Nat
        /\ DOMAIN remote.writePipeline = 1 .. Len(remote.writePipeline)
    BY <2>1
  <2> HIDE DEF n
  <2>4. \A i \in DOMAIN remote.writePipeline : remote.writePipeline[i] = mutationQueue'[i]
    BY <2>2, <2>3, <1>1, <1>4
  <2>5. Len(remote.writePipeline) <= Len(mutationQueue')
    BY <2>2, <2>3, <1>1, <1>4
  <2>6. QED
    BY <2>2, <2>4, <2>5 DEF HoldsFirst
<1>12. /\ StreamInv(remote', Settled) /\ IsFilled(remote', mutationQueue')
       /\ remote'.responses = remote.responses
       /\ remote'.handshakeComplete = remote.handshakeComplete
  <2> DEFINE q == mutationQueue'
             a == Settled
  <2>1. /\ q \in Seq(Batch) /\ Ordered(q) /\ a \in Int
        /\ \A i \in DOMAIN q : q[i].write = a + i
        /\ StreamInv(remote, a) /\ HoldsFirst(remote, q)
        /\ remote' = FillWritePipeline(remote, q)
    BY <1>2, <1>4, <1>8, <1>9, <1>11, PipelineFacts
  <2> HIDE DEF q, a
  <2>2. /\ StreamInv(remote', a) /\ IsFilled(remote', q)
        /\ remote'.responses = remote.responses
        /\ remote'.handshakeComplete = remote.handshakeComplete
    BY <2>1, FillKeeps
  <2>3. QED
    BY <2>2 DEF q, a
<1>13. ServerInv'
  BY <1>2, <1>12 DEF PipelineInv, ServerInv, IsTrue
<1>14. StoredInv'
  <2>1. stored \in 0 .. issued + 1
    BY <1>1 DEF PipelineInv, StoredInv
  <2>2. QED
    BY <2>1, <1>2, <1>6, <1>12 DEF PipelineInv, StoredInv, IsBest
<1>15. CallbacksInv'
  <2>1. mutationCallbacks' \subseteq 0 .. nextBatchId' - 1
    BY <1>1, <1>2 DEF PipelineInv, CallbacksInv
  <2>2. Orphans' = Orphans
    BY IssueOrphans
  <2>3. PICK k \in 0 .. n : Orphans = 1 .. k
    BY DEF PipelineInv, CallbacksInv
  <2>4. k \in 0 .. Len(mutationQueue')
    BY <1>1, <1>4
  <2>5. QED
    BY <2>1, <2>2, <2>3, <2>4 DEF CallbacksInv
<1>16. QED
  BY <1>2, <1>6, <1>10, <1>12, <1>13, <1>14, <1>15 DEF PipelineInv

\* The first value of RemoteStore in a process.
LEMMA FreshRemoteRests ==
    /\ FreshRemote \in Remote /\ ~FreshRemote.failed /\ FreshRemote.writePipeline = <<>>
    /\ FreshRemote.state = "Initial" /\ ~FreshRemote.backoffTimer
    /\ ~FreshRemote.handshakeComplete
    /\ IsSilent(FreshRemote) /\ CredentialsInv(FreshRemote)
<1>1. FreshRemote \in Remote
  <2>1. <<>> \in Seq(Nat) /\ <<>> \in Seq(Batch)
    OBVIOUS
  <2>2. QED
    BY <2>1 DEF FreshRemote, Remote
<1>2. QED
  BY <1>1 DEF FreshRemote, IsSilent, CredentialsInv

\* A process numbers its batches after those on disk.
LEMMA NextBatchId ==
    ASSUME NEW queue \in Seq(Batch), Ordered(queue)
    PROVE  /\ LoadNextBatchIdFromDb(queue) \in Nat
           /\ \A i \in DOMAIN queue : queue[i].id < LoadNextBatchIdFromDb(queue)
<1> DEFINE n == Len(queue)
<1>1. /\ n \in Nat /\ DOMAIN queue = 1 .. n
      /\ \A i \in DOMAIN queue : queue[i].id \in Nat
  BY BatchEntries
<1>2. CASE queue = <<>>
  BY <1>2 DEF LoadNextBatchIdFromDb
<1>3. CASE queue # <<>>
  <2>1. n \in DOMAIN queue
    BY <1>1, <1>3
  <2>2. LoadNextBatchIdFromDb(queue) = 1 + queue[n].id
    BY <1>3 DEF LoadNextBatchIdFromDb, Last
  <2> HIDE DEF n
  <2>3. \A i \in DOMAIN queue : i = n \/ i < n
    BY <1>1
  <2>4. \A i \in DOMAIN queue : i < n => queue[i].id < queue[n].id
    BY <2>1 DEF Ordered
  <2>5. QED
    BY <2>1, <2>2, <2>3, <2>4, <1>1
<1>4. QED
  BY <1>2, <1>3

LEMMA RestartProcessKeeps == ASSUME PipelineInv, RestartProcess PROVE PipelineInv'
<1>1. /\ restarts' = restarts + 1
      /\ nextBatchId' = LoadNextBatchIdFromDb(mutationQueue)
      /\ remote' = EnableNetwork(FreshRemote, mutationQueue)
      /\ mutationCallbacks' = {} /\ executor' = <<>> /\ reported' = <<>>
      /\ UNCHANGED <<mutationQueue, applied, stored, issued>>
  BY DEF RestartProcess
<1>2. Settled' = Settled
  BY <1>1 DEF Settled
<1>3. QueueInv'
  BY <1>1, <1>2, PipelineFacts, NextBatchId DEF PipelineInv, QueueInv
<1>4. StreamInv(remote', Settled) /\ IsFilled(remote', mutationQueue) /\ ~remote'.handshakeComplete
  BY <1>1, PipelineFacts, FreshRemoteRests, EnableNetworkKeeps
<1>5. ServerInv'
  BY <1>1, <1>4 DEF PipelineInv, ServerInv
<1>6. StoredInv'
  BY <1>1, <1>2, <1>4, StoredUnanswered DEF PipelineInv, StoredInv, IsBest
<1>7. CallbacksInv'
  <2>1. Orphans' = 1 .. Len(mutationQueue') /\ Len(mutationQueue') \in Nat
    BY <1>1, PipelineFacts DEF Orphans
  <2>2. QED
    BY <2>1, <1>1 DEF CallbacksInv
<1>8. restarts' \in Nat
  BY <1>1 DEF PipelineInv
<1>9. QED
  BY <1>1, <1>2, <1>3, <1>4, <1>5, <1>6, <1>7, <1>8 DEF PipelineInv

LEMMA PipelineInitInv == ASSUME PipelineInit PROVE PipelineInv
<1>1. /\ mutationQueue = <<>> /\ nextBatchId = 1 /\ issued = 0 /\ restarts = 0
      /\ remote = EnableNetwork(FreshRemote, mutationQueue)
      /\ mutationCallbacks = {} /\ executor = <<>> /\ reported = <<>>
      /\ applied = {} /\ stored = 0
  BY DEF PipelineInit, LoadNextBatchIdFromDb
<1>2. mutationQueue \in Seq(Batch) /\ Len(mutationQueue) = 0 /\ DOMAIN mutationQueue = {}
  BY <1>1
<1>3. Settled = 0 /\ Ordered(mutationQueue) /\ QueueInv
  <2>1. Settled = 0 /\ Ordered(mutationQueue)
    <3>1. Settled = issued - Len(mutationQueue)
      BY DEF Settled
    <3>2. Settled = 0 - 0
      BY <3>1, <1>1, <1>2
    <3>3. QED
      BY <3>2, <1>2 DEF Ordered
  <2>2. issued \in Nat /\ nextBatchId \in Nat /\ Len(mutationQueue) <= issued
    BY <1>1, <1>2
  <2>3. QED
    BY <2>1, <2>2, <1>2 DEF QueueInv, Ordered
<1>4. StreamInv(remote, Settled) /\ IsFilled(remote, mutationQueue) /\ ~remote.handshakeComplete
  BY <1>1, <1>2, <1>3, FreshRemoteRests, EnableNetworkKeeps
<1>5. ServerInv
  BY <1>1, <1>4 DEF ServerInv
<1>6. StoredInv
  BY <1>1, <1>3, <1>4 DEF StoredInv, IsBest
<1>7. CallbacksInv
  <2>1. Orphans = 1 .. 0
    BY <1>2 DEF Orphans
  <2>2. QED
    BY <2>1, <1>1, <1>2 DEF CallbacksInv
<1>8. QED
  BY <1>1, <1>3, <1>4, <1>5, <1>6, <1>7 DEF PipelineInv

\* The first batch of the pipeline is the oldest on disk.
LEMMA OldestBatch ==
    ASSUME PipelineInv, remote.writePipeline # <<>>
    PROVE  /\ mutationQueue # <<>> /\ 1 \in DOMAIN mutationQueue
           /\ Head(remote.writePipeline) = mutationQueue[1]
           /\ mutationQueue[1].write = Settled + 1
           /\ Len(mutationQueue) > 0 /\ Len(remote.writePipeline) > 0
<1>1. remote.writePipeline \in Seq(Batch) /\ mutationQueue \in Seq(Batch)
  BY PipelineFacts DEF Remote
<1>2. Len(remote.writePipeline) > 0 /\ 1 \in DOMAIN remote.writePipeline
  BY <1>1
<1>3. Len(remote.writePipeline) <= Len(mutationQueue) /\ remote.writePipeline[1] = mutationQueue[1]
  BY <1>2, PipelineFacts DEF HoldsFirst
<1>4. Len(mutationQueue) > 0 /\ mutationQueue # <<>> /\ 1 \in DOMAIN mutationQueue
  <2> DEFINE m == Len(remote.writePipeline)
             n == Len(mutationQueue)
  <2>1. m \in Nat /\ n \in Nat /\ m > 0 /\ m <= n
    BY <1>1, <1>2, <1>3
  <2> HIDE DEF m, n
  <2>2. n > 0
    BY <2>1
  <2>3. QED
    BY <2>2, <1>1 DEF n
<1>5. Head(remote.writePipeline) = remote.writePipeline[1]
  BY <1>1, <1>2
<1>6. QED
  BY <1>2, <1>3, <1>4, <1>5, PipelineFacts

\* When the oldest batch leaves, one orphan less is left, if there are any.
LEMMA OldestOrphan ==
    ASSUME PipelineInv, mutationQueue # <<>>, mutationQueue' = Tail(mutationQueue),
           mutationCallbacks' = mutationCallbacks \ {mutationQueue[1].id},
           NEW k \in 0 .. Len(mutationQueue), Orphans = 1 .. k
    PROVE  Orphans' = 1 .. (IF k = 0 THEN 0 ELSE k - 1)
<1> DEFINE n == Len(mutationQueue)
           h == IF k = 0 THEN 0 ELSE k - 1
<1>1. mutationQueue \in Seq(Batch) /\ n \in Nat /\ DOMAIN mutationQueue = 1 .. n /\ n > 0
  BY PipelineFacts
<1>2. /\ mutationQueue' \in Seq(Batch) /\ Len(mutationQueue') = n - 1
      /\ \A i \in 1 .. Len(mutationQueue') : mutationQueue'[i] = mutationQueue[i + 1]
  BY <1>1, HeadTailProperties
<1>3. DOMAIN mutationQueue' = 1 .. n - 1
  <2>1. DOMAIN mutationQueue' = 1 .. Len(mutationQueue')
    BY <1>2
  <2>2. QED
    BY <2>1, <1>2
<1>4. \A i \in 1 .. n : mutationQueue[i].id \in Nat
  BY <1>1, BatchEntries
<1>5. \A i, j \in 1 .. n : i < j => mutationQueue[i].id < mutationQueue[j].id
  BY <1>1, PipelineFacts DEF Ordered
<1>6. Orphans = {i \in 1 .. n : mutationQueue[i].id \notin mutationCallbacks}
  BY <1>1 DEF Orphans
<1>7. Orphans' = {i \in 1 .. n - 1 : mutationQueue'[i].id \notin mutationCallbacks'}
  BY <1>3 DEF Orphans
<1>8. k \in Nat /\ k <= n /\ h \in 0 .. n - 1
  BY <1>1
<1> HIDE DEF n
<1>9. \A i \in 1 .. n - 1 : i \in Orphans' <=> i + 1 \in Orphans
  <2> TAKE i \in 1 .. n - 1
  <2>1. i + 1 \in 1 .. n /\ mutationQueue'[i] = mutationQueue[i + 1] /\ 1 < i + 1 /\ 1 \in 1 .. n
    BY <1>1, <1>2
  <2>2. mutationQueue[1].id < mutationQueue[i + 1].id
    BY <2>1, <1>5
  <2>3. mutationQueue[1].id \in Nat /\ mutationQueue[i + 1].id \in Nat
    BY <2>1, <1>4
  <2>4. i \in Orphans' <=> mutationQueue[i + 1].id \notin mutationCallbacks'
    BY <2>1, <1>7
  <2>5. i + 1 \in Orphans <=> mutationQueue[i + 1].id \notin mutationCallbacks
    BY <2>1, <1>6
  <2>6. mutationQueue[i + 1].id # mutationQueue[1].id
    BY <2>2, <2>3
  <2>7. QED
    BY <2>4, <2>5, <2>6
<1>10. Orphans' = 1 .. h
  <2>1. \A i \in Orphans' : i \in 1 .. n - 1
    BY <1>7
  <2>2. \A i \in 1 .. n - 1 : i + 1 \in 1 .. k <=> i \in 1 .. h
    BY <1>8
  <2>3. \A i \in 1 .. h : i \in 1 .. n - 1
    BY <1>1, <1>8
  <2> HIDE DEF h
  <2>4. QED
    BY <2>1, <2>2, <2>3, <1>9
<1>11. QED
  BY <1>10

\* The oldest batch leaves the disk, and its block is handed over.
LEMMA OldestLeaves ==
    ASSUME PipelineInv, remote.writePipeline # <<>>, NEW ok \in BOOLEAN,
           mutationQueue' = RemoveMutationBatch(mutationQueue, Head(remote.writePipeline)),
           NotifyUser(Head(remote.writePipeline), ok),
           UNCHANGED <<issued, nextBatchId, applied>>,
           IF ok THEN Settled + 1 \in applied ELSE Settled + 1 \in Refused
    PROVE  /\ mutationQueue' = Tail(mutationQueue)
           /\ Settled' = Settled + 1
           /\ QueueInv' /\ Ordered(mutationQueue') /\ CallbacksInv'
           /\ \A i \in DOMAIN mutationQueue' : mutationQueue'[i].write = Settled + 1 + i
           /\ HoldsFirst([remote EXCEPT !.writePipeline = Tail(@)], mutationQueue')
           /\ executor' \in Seq(Outcome) /\ reported' \in Seq(Outcome)
           /\ \A i \in DOMAIN reported' : IsTrue(reported'[i])
<1> DEFINE n == Len(mutationQueue)
           batch == mutationQueue[1]
<1>1. /\ mutationQueue # <<>> /\ 1 \in DOMAIN mutationQueue
      /\ Head(remote.writePipeline) = batch /\ batch.write = Settled + 1 /\ n > 0
  BY OldestBatch
<1>2. mutationQueue \in Seq(Batch) /\ n \in Nat /\ Settled \in Nat /\ Ordered(mutationQueue)
  BY PipelineFacts
<1>3. mutationQueue' = Tail(mutationQueue)
  BY <1>1, <1>2, RemoveOldest
<1>4. /\ mutationQueue' \in Seq(Batch) /\ Len(mutationQueue') = n - 1
      /\ \A i \in 1 .. Len(mutationQueue') : mutationQueue'[i] = mutationQueue[i + 1]
  <2>1. /\ Tail(mutationQueue) \in Seq(Batch)
        /\ Len(Tail(mutationQueue)) = Len(mutationQueue) - 1
        /\ \A i \in 1 .. Len(Tail(mutationQueue)) :
              Tail(mutationQueue)[i] = mutationQueue[i + 1]
    BY <1>1, <1>2, HeadTailProperties, Zenon
  <2> QED
    BY <2>1, <1>3, Zenon
<1>5. /\ DOMAIN mutationQueue = 1 .. n /\ DOMAIN mutationQueue' = 1 .. n - 1
      /\ \A i \in 1 .. n - 1 : mutationQueue'[i] = mutationQueue[i + 1] /\ i + 1 \in 1 .. n
  <2>1. DOMAIN mutationQueue = 1 .. n /\ DOMAIN mutationQueue' = 1 .. Len(mutationQueue')
    BY <1>2, <1>4
  <2>2. \A i \in 1 .. Len(mutationQueue') : mutationQueue'[i] = mutationQueue[i + 1]
    BY <1>4
  <2>3. Len(mutationQueue') = n - 1
    BY <1>4
  <2> HIDE DEF n
  <2>4. QED
    BY <2>1, <2>2, <2>3, <1>2
<1>6. issued \in Nat /\ nextBatchId \in Nat /\ n <= issued /\ Settled = issued - n
  BY DEF PipelineInv, QueueInv, Settled
<1>7. Settled' = Settled + 1
  <2>1. Settled' = issued - Len(mutationQueue') /\ Len(mutationQueue') = n - 1
    BY <1>4 DEF Settled
  <2>2. n \in Int /\ issued \in Int /\ Settled = issued - n
    BY <1>2, <1>6
  <2> HIDE DEF n
  <2>3. Settled' = issued - (n - 1)
    BY <2>1
  <2>4. QED
    BY <2>2, <2>3
<1>8. \A i \in 1 .. n : /\ mutationQueue[i].write = Settled + i /\ mutationQueue[i].id < nextBatchId
                        /\ mutationQueue[i].id \in Nat
  BY <1>2, <1>5, BatchEntries DEF PipelineInv, QueueInv
<1>9. \A i, j \in 1 .. n : i < j => mutationQueue[i].id < mutationQueue[j].id
  BY <1>2, <1>5 DEF Ordered
<1>10. ASSUME NEW i \in DOMAIN mutationQueue'
       PROVE  /\ mutationQueue'[i].write = Settled + 1 + i
              /\ mutationQueue'[i].id < nextBatchId
  <2> HIDE DEF n
  <2>1. i \in 1 .. n - 1
    BY <1>5
  <2>2. i + 1 \in 1 .. n /\ mutationQueue'[i] = mutationQueue[i + 1] /\ i \in Int
    BY <2>1, <1>5
  <2>3. mutationQueue'[i].write = Settled + (i + 1) /\ mutationQueue'[i].id < nextBatchId
    BY <2>2, <1>8
  <2>4. QED
    BY <2>2, <2>3, <1>2
<1>11. Ordered(mutationQueue')
  <2> HIDE DEF n
  <2>1. SUFFICES ASSUME NEW i \in 1 .. n - 1, NEW j \in 1 .. n - 1, i < j
                 PROVE  mutationQueue'[i].id < mutationQueue'[j].id
    BY <1>5 DEF Ordered
  <2>2. /\ i + 1 \in 1 .. n /\ j + 1 \in 1 .. n /\ i + 1 < j + 1
        /\ mutationQueue'[i] = mutationQueue[i + 1] /\ mutationQueue'[j] = mutationQueue[j + 1]
    BY <2>1, <1>5
  <2>3. QED
    BY <2>2, <1>9
<1>12. QueueInv'
  <2>1. Len(mutationQueue') <= issued' /\ issued' \in Nat /\ nextBatchId' \in Nat
    <3> HIDE DEF n
    <3>1. QED
      BY <1>2, <1>4, <1>6
  <2>2. QED
    BY <2>1, <1>4, <1>7, <1>10, <1>11 DEF QueueInv, Ordered
<1>13. HoldsFirst([remote EXCEPT !.writePipeline = Tail(@)], mutationQueue')
  <2> DEFINE p == remote.writePipeline
             m == Len(p)
  <2>1. /\ p \in Seq(Batch) /\ m \in Nat /\ m > 0 /\ m <= n /\ m <= MaxPendingWrites
        /\ \A i \in 1 .. m : p[i] = mutationQueue[i]
        /\ MaxPendingWrites \in Nat
    <3>1. p \in Seq(Batch) /\ MaxPendingWrites \in Nat
      BY PipelineFacts, WritePipelineAssumption DEF Remote
    <3>2. m \in Nat /\ m > 0 /\ DOMAIN p = 1 .. m
      BY <3>1, OldestBatch
    <3> QED
      BY <3>1, <3>2, PipelineFacts DEF HoldsFirst
  <2>2. /\ Tail(p) \in Seq(Batch) /\ Len(Tail(p)) = m - 1
        /\ \A i \in 1 .. Len(Tail(p)) : Tail(p)[i] = p[i + 1]
    BY <2>1, HeadTailProperties
  <2>3. DOMAIN Tail(p) = 1 .. Len(Tail(p))
    BY <2>2
  <2>4. [remote EXCEPT !.writePipeline = Tail(@)].writePipeline = Tail(p)
    BY PipelineFacts DEF Remote
  <2> DEFINE t == Tail(p)
  <2>5. t = Tail(p)
    OBVIOUS
  <2> HIDE DEF n, m, p, t
  <2>6. \A i \in 1 .. m - 1 : t[i] = mutationQueue'[i]
    <3> TAKE i \in 1 .. m - 1
    <3>1. i \in 1 .. n - 1 /\ i + 1 \in 1 .. m
      BY <2>1, <1>2
    <3>2. t[i] = p[i + 1]
      BY <2>2, <2>5
    <3>3. QED
      BY <3>1, <3>2, <2>1, <1>5
  <2>7. Len(t) <= Len(mutationQueue') /\ Len(t) <= MaxPendingWrites /\ DOMAIN t = 1 .. m - 1
    BY <2>1, <2>2, <2>3, <2>5, <1>2, <1>4
  <2>8. QED
    BY <2>4, <2>5, <2>6, <2>7 DEF HoldsFirst, p
<1>14. /\ executor' \in Seq(Outcome) /\ reported' \in Seq(Outcome)
       /\ \A i \in DOMAIN reported' : IsTrue(reported'[i])
  <2> DEFINE o == [write |-> batch.write, ok |-> ok]
             told == IF batch.id \in mutationCallbacks THEN <<o>> ELSE <<>>
  <2>1. executor' = executor \o told /\ reported' = reported \o told
    BY <1>1 DEF NotifyUser
  <2>2. o \in Outcome /\ o.write = Settled + 1 /\ o.ok = ok
    BY <1>1, <1>2 DEF Outcome
  <2>3. IsTrue(o)
    BY <2>2 DEF IsTrue
  <2> HIDE DEF o
  <2>4. told \in Seq(Outcome) /\ \A i \in DOMAIN told : told[i] = o
    BY <2>2
  <2>5. executor \in Seq(Outcome) /\ reported \in Seq(Outcome)
        /\ \A i \in DOMAIN reported : IsTrue(reported[i])
    BY DEF PipelineInv, ServerInv
  <2> HIDE DEF told
  <2>6. executor' \in Seq(Outcome) /\ reported' \in Seq(Outcome)
    BY <2>1, <2>4, <2>5, ConcatProperties
  <2>7. ASSUME NEW i \in DOMAIN reported'
        PROVE  IsTrue(reported'[i])
    <3> DEFINE a == Len(reported)
               c == Len(told)
    <3>1. a \in Nat /\ c \in Nat /\ DOMAIN reported = 1 .. a /\ DOMAIN told = 1 .. c
      BY <2>4, <2>5
    <3>2. DOMAIN reported' = 1 .. a + c
      BY <2>1, <2>4, <2>5, <2>6, ConcatProperties
    <3>3. reported'[i] = IF i <= a THEN reported[i] ELSE told[i - a]
      BY <2>1, <2>4, <2>5, <3>2, ConcatProperties
    <3> HIDE DEF a, c
    <3>4. CASE i <= a
      BY <3>1, <3>2, <3>3, <3>4, <2>5
    <3>5. CASE i > a
      <4>1. i - a \in DOMAIN told
        BY <3>1, <3>2, <3>5
      <4>2. reported'[i] = o
        BY <4>1, <3>1, <3>2, <3>3, <3>5, <2>4
      <4>3. QED
        BY <4>2, <2>3
    <3>6. i \in Int /\ a \in Int
      BY <3>1, <3>2
    <3>7. QED
      BY <3>4, <3>5, <3>6
  <2>8. QED
    BY <2>6, <2>7
<1>15. CallbacksInv'
  <2>1. mutationCallbacks' = mutationCallbacks \ {batch.id}
    BY <1>1 DEF NotifyUser
  <2>2. mutationCallbacks' \subseteq 0 .. nextBatchId' - 1
    BY <2>1 DEF PipelineInv, CallbacksInv
  <2>3. PICK k \in 0 .. n : Orphans = 1 .. k
    BY DEF PipelineInv, CallbacksInv
  <2>4. Orphans' = 1 .. (IF k = 0 THEN 0 ELSE k - 1)
    BY <2>1, <2>3, <1>1, <1>3, OldestOrphan
  <2> HIDE DEF n
  <2>5. (IF k = 0 THEN 0 ELSE k - 1) \in 0 .. Len(mutationQueue')
    BY <2>3, <1>1, <1>2, <1>4
  <2>6. QED
    BY <2>2, <2>4, <2>5 DEF CallbacksInv
<1>16. QED
  BY <1>3, <1>7, <1>10, <1>11, <1>12, <1>13, <1>14, <1>15

LEMMA MutationResultKeeps == ASSUME PipelineInv, OnWriteStreamMutationResult PROVE PipelineInv'
<1> DEFINE batch == Head(remote.writePipeline)
           told == remote.responses
           rest == Tail(told)
           p == remote.writePipeline
           left == Tail(p)
           read == [remote EXCEPT !.responses = rest, !.writePipeline = left]
           n == Len(told)
           a == Settled
<1>1. /\ remote.state = "Open" /\ remote.handshakeComplete /\ told # <<>>
      /\ Exchanges(remote, a) /\ remote \in Remote
      /\ told \in Seq(Nat) /\ n \in Nat /\ n > 0 /\ a \in Nat /\ DOMAIN told = 1 .. n
  <2>1. remote.handshakeComplete /\ told # <<>>
    BY DEF OnWriteStreamMutationResult
  <2>2. remote.state = "Open" /\ Exchanges(remote, a) /\ remote \in Remote /\ a \in Nat
    BY <2>1, PipelineFacts DEF StreamInv
  <2>3. told \in Seq(Nat)
    BY <2>2 DEF Remote
  <2>4. QED
    BY <2>1, <2>2, <2>3
<1>2. p \in Seq(Batch) /\ Len(p) \in Nat /\ Len(remote.requests) \in Nat
      /\ remote.requests \in Seq(Nat)
  BY <1>1 DEF Remote
<1>3. p # <<>>
  <2>1. remote.finish \in {"none", "permanent"}
    BY <1>1 DEF Remote
  <2>2. n + Len(remote.requests) = Len(p) \/ n < Len(p)
    BY <2>1, <1>1 DEF Exchanges
  <2> DEFINE k == Len(p)
             m == Len(remote.requests)
  <2>3. k \in Nat /\ m \in Nat /\ (n + m = k \/ n < k)
    BY <2>2, <1>2
  <2> HIDE DEF k, m, n
  <2>4. k # 0
    BY <2>3, <1>1
  <2>5. QED
    BY <2>4 DEF k
<1>4. \A i \in 1 .. n : told[i] = a + i /\ told[i] \notin Refused /\ told[i] \in applied
  BY <1>1 DEF Exchanges, PipelineInv, ServerInv
<1>5. /\ batch = mutationQueue[1] /\ 1 \in DOMAIN mutationQueue /\ Len(p) > 0
  BY <1>3, OldestBatch
<1>6. /\ rest \in Seq(Nat) /\ Len(rest) = n - 1
      /\ \A i \in 1 .. Len(rest) : rest[i] = told[i + 1]
      /\ left \in Seq(Batch) /\ Len(left) = Len(p) - 1
  BY <1>1, <1>2, <1>3, HeadTailProperties
<1>7. DOMAIN rest = 1 .. n - 1
  <2>1. DOMAIN rest = 1 .. Len(rest)
    BY <1>6
  <2>2. QED
    BY <2>1, <1>6
<1>8. /\ mutationQueue' = RemoveMutationBatch(mutationQueue, batch)
      /\ NotifyUser(batch, TRUE)
      /\ remote' = FillWritePipeline(read, mutationQueue')
      /\ UNCHANGED <<nextBatchId, issued, restarts, applied, stored>>
  <2> DEFINE found == \E i \in DOMAIN mutationQueue : mutationQueue[i].id = batch.id
  <2>1. found
    BY <1>5
  <2>2. IsStarted(remote) /\ found
    BY <2>1, <1>1 DEF IsStarted, IsOpen
  <2>3. HardAssert(remote, IsStarted(remote) /\ found) = remote
    <3> HIDE DEF found
    <3>1. QED
      BY <2>2, <1>1, AssertHolds
  <2>4. QED
    BY <2>3, <1>3 DEF OnWriteStreamMutationResult, serverVars
<1> HIDE DEF rest, left, p, told, n
<1>9. /\ mutationQueue' = Tail(mutationQueue)
      /\ Settled' = a + 1
      /\ QueueInv' /\ Ordered(mutationQueue') /\ CallbacksInv'
      /\ \A i \in DOMAIN mutationQueue' : mutationQueue'[i].write = a + 1 + i
      /\ HoldsFirst([remote EXCEPT !.writePipeline = Tail(@)], mutationQueue')
      /\ executor' \in Seq(Outcome) /\ reported' \in Seq(Outcome)
      /\ \A i \in DOMAIN reported' : IsTrue(reported'[i])
  <2>1. a + 1 \in applied
    BY <1>1, <1>4
  <2>2. PICK ok \in BOOLEAN : ok = TRUE
    OBVIOUS
  <2>3. NotifyUser(batch, ok)
    BY <1>8, <2>2
  <2>4. ok
    BY <2>2
  <2>5. QED
    BY <2>1, <2>3, <2>4, <1>3, <1>8, OldestLeaves DEF p
<1>10. /\ read \in Remote /\ read.state = "Open" /\ read.handshakeComplete
       /\ read.writePipeline = left
       /\ read.networkEnabled = remote.networkEnabled /\ read.failed = remote.failed
       /\ read.credentials = remote.credentials /\ read.closeCount = remote.closeCount
       /\ read.idlenessTimer = remote.idlenessTimer /\ read.backoffTimer = remote.backoffTimer
       /\ read.requests = remote.requests /\ read.responses = rest /\ read.finish = remote.finish
  BY <1>1, <1>6 DEF Remote
<1> HIDE DEF read
<1>11. Exchanges(read, a + 1)
  <2> DEFINE k == Len(p)
             m == Len(remote.requests)
  <2>1. k \in Nat /\ m \in Nat /\ DOMAIN remote.requests = 1 .. m
    BY <1>2
  <2>2. /\ remote.finish = "none" =>
              n + m = k /\ \A i \in DOMAIN remote.requests : remote.requests[i] = a + n + i
        /\ remote.finish = "permanent" => n < k /\ a + n + 1 \in Refused
    BY <1>1 DEF Exchanges, n, told, p
  <2>3. Len(read.responses) = n - 1 /\ Len(read.requests) = m /\ Len(read.writePipeline) = k - 1
    BY <1>6, <1>10
  <2> HIDE DEF k, m, a
  <2>4. ASSUME NEW i \in DOMAIN read.responses
        PROVE  read.responses[i] = a + 1 + i /\ read.responses[i] \notin Refused
    <3>1. i \in 1 .. n - 1 /\ i + 1 \in 1 .. n /\ i \in Int
      BY <1>1, <1>7, <1>10
    <3>2. read.responses[i] = told[i + 1]
      BY <3>1, <1>6, <1>10
    <3>3. told[i + 1] = a + (i + 1) /\ told[i + 1] \notin Refused
      BY <3>1, <1>4
    <3>4. QED
      BY <3>1, <3>2, <3>3, <1>1
  <2>5. read.finish = "none" =>
           /\ Len(read.responses) + Len(read.requests) = Len(read.writePipeline)
           /\ \A i \in DOMAIN read.requests : read.requests[i] = a + 1 + Len(read.responses) + i
    <3>1. SUFFICES ASSUME remote.finish = "none"
                   PROVE  /\ (n - 1) + m = k - 1
                          /\ \A i \in 1 .. m : remote.requests[i] = a + 1 + (n - 1) + i
      BY <2>1, <2>3, <1>10
    <3>2. ASSUME NEW i \in 1 .. m
          PROVE  remote.requests[i] = a + 1 + (n - 1) + i
      <4>1. remote.requests[i] = a + n + i /\ i \in Int
        BY <3>1, <2>1, <2>2
      <4>2. QED
        BY <4>1, <1>1
    <3>3. QED
      BY <3>1, <3>2, <2>1, <2>2, <1>1
  <2>6. read.finish = "permanent" =>
           /\ Len(read.responses) < Len(read.writePipeline)
           /\ a + 1 + Len(read.responses) + 1 \in Refused
    <3>1. a + 1 + (n - 1) + 1 = a + n + 1
      BY <1>1
    <3>2. n < k => n - 1 < k - 1
      BY <2>1, <1>1
    <3>3. QED
      BY <3>1, <3>2, <2>2, <2>3, <1>10
  <2>7. QED
    BY <2>4, <2>5, <2>6 DEF Exchanges
<1>12. StreamInv(read, a + 1)
  <2>1. ~remote.idlenessTimer
    BY <1>1, <1>3, PipelineFacts DEF StreamInv, p
  <2>2. QED
    BY <2>1, <1>1, <1>10, <1>11, PipelineFacts DEF StreamInv, CredentialsInv
<1>13. HoldsFirst(read, mutationQueue')
  <2>1. [remote EXCEPT !.writePipeline = Tail(@)].writePipeline = left
    BY <1>1 DEF Remote, left, p
  <2>2. QED
    BY <2>1, <1>9, <1>10 DEF HoldsFirst
<1>14. /\ StreamInv(remote', a + 1) /\ IsFilled(remote', mutationQueue')
       /\ remote'.responses = rest /\ remote'.handshakeComplete
  <2> DEFINE q == mutationQueue'
             b == a + 1
  <2>1. /\ q \in Seq(Batch) /\ Ordered(q) /\ b \in Int
        /\ \A i \in DOMAIN q : q[i].write = b + i
        /\ StreamInv(read, b) /\ HoldsFirst(read, q)
        /\ remote' = FillWritePipeline(read, q)
    BY <1>1, <1>8, <1>9, <1>12, <1>13 DEF QueueInv
  <2> HIDE DEF q, b
  <2>2. /\ StreamInv(remote', b) /\ IsFilled(remote', q)
        /\ remote'.responses = read.responses
        /\ remote'.handshakeComplete = read.handshakeComplete
    BY <2>1, FillKeeps
  <2>3. QED
    BY <2>2, <1>10 DEF q, b
<1>15. ServerInv'
  <2>1. ASSUME NEW i \in DOMAIN remote'.responses
        PROVE  remote'.responses[i] \in applied'
    <3>1. i \in 1 .. n - 1 /\ i + 1 \in 1 .. n
      BY <1>1, <1>7, <1>14
    <3>2. QED
      BY <3>1, <1>4, <1>6, <1>8, <1>14
  <2>2. QED
    BY <2>1, <1>8, <1>9 DEF PipelineInv, ServerInv, IsTrue
<1>16. StoredInv'
  <2>1. stored = a + n /\ stored \in 0 .. issued
    BY <1>1 DEF PipelineInv, StoredInv, n, told
  <2>2. stored \notin Refused
    <3>1. n \in 1 .. n
      BY <1>1
    <3>2. QED
      BY <3>1, <2>1, <1>4
  <2>3. CASE rest # <<>>
    <3>1. stored = (a + 1) + Len(rest)
      BY <2>1, <1>1, <1>6
    <3>2. QED
      BY <3>1, <2>1, <2>3, <1>8, <1>9, <1>14 DEF StoredInv
  <2>4. CASE rest = <<>>
    <3>1. n = 1
      BY <2>4, <1>1, <1>6
    <3>2. stored = a + 1
      BY <3>1, <2>1
    <3>3. IsBest(stored, a + 1)
      BY <3>2, <2>2, <1>1 DEF IsBest
    <3>4. QED
      BY <3>3, <2>1, <2>4, <1>8, <1>9, <1>14 DEF StoredInv, IsBest
  <2>5. QED
    BY <2>3, <2>4
<1>17. restarts' \in Nat
  BY <1>8 DEF PipelineInv
<1>18. QED
  BY <1>9, <1>14, <1>15, <1>16, <1>17 DEF PipelineInv

\* The end of a stream, reported while the responses have all been read if it answers a write.
LEMMA StreamFinishKeeps ==
    ASSUME PipelineInv, NEW status \in {"transient", "permanent"}, OnStreamFinish(status),
           IsOpen(remote),
           status = "permanent" => remote.finish = "permanent" /\ remote.responses = <<>>
    PROVE  PipelineInv'
<1> DEFINE batch == Head(remote.writePipeline)
<1>1. /\ remote \in Remote /\ IsStarted(remote) /\ ~remote.failed /\ remote.networkEnabled
      /\ remote.credentials \subseteq 0 .. remote.closeCount /\ remote.state = "Open"
  BY PipelineFacts DEF IsStarted, IsOpen
<1>2. CASE ~RejectsFirst(remote, status)
  <2>1. remote' = Close(remote, status, mutationQueue) /\ UNCHANGED <<diskVars, serverVars>>
    BY <1>2 DEF OnStreamFinish
  <2>2. /\ StreamInv(remote', Settled) /\ remote'.writePipeline = remote.writePipeline
        /\ ~remote'.handshakeComplete
    BY <2>1, <1>1, <1>2, CloseUnanswered
  <2>3. IsFilled(remote', mutationQueue)
    BY <2>2, PipelineFacts DEF IsFilled, HoldsFirst
  <2>4. QED
    BY <2>1, <2>2, <2>3, RemoteStepKeeps
<1>3. CASE RejectsFirst(remote, status)
  <2>1. /\ status = "permanent" /\ remote.handshakeComplete /\ remote.writePipeline # <<>>
        /\ remote.finish = "permanent" /\ remote.responses = <<>>
    BY <1>3 DEF RejectsFirst
  <2>2. Settled + 1 \in Refused
    <3>1. Exchanges(remote, Settled) /\ Len(remote.responses) = 0 /\ Settled \in Nat
      BY <2>1, <1>1, PipelineFacts DEF StreamInv
    <3>2. Settled + 0 + 1 \in Refused
      BY <3>1, <2>1 DEF Exchanges
    <3>3. QED
      BY <3>1, <3>2
  <2>3. /\ mutationQueue' = RemoveMutationBatch(mutationQueue, batch)
        /\ NotifyUser(batch, FALSE)
        /\ remote' = Close(remote, "permanent", mutationQueue')
        /\ UNCHANGED <<nextBatchId, issued, restarts, applied, stored>>
    BY <2>1, <1>3 DEF OnStreamFinish, serverVars
  <2>4. /\ mutationQueue' = Tail(mutationQueue)
        /\ Settled' = Settled + 1
        /\ QueueInv' /\ Ordered(mutationQueue') /\ CallbacksInv'
        /\ HoldsFirst([remote EXCEPT !.writePipeline = Tail(@)], mutationQueue')
        /\ executor' \in Seq(Outcome) /\ reported' \in Seq(Outcome)
        /\ \A i \in DOMAIN reported' : IsTrue(reported'[i])
    <3>1. PICK ok \in BOOLEAN : ok = FALSE
      OBVIOUS
    <3>2. NotifyUser(batch, ok) /\ ~ok
      BY <2>3, <3>1
    <3>3. QED
      BY <3>2, <2>1, <2>2, <2>3, OldestLeaves
  <2>5. /\ StreamInv(remote', Settled + 1) /\ IsFilled(remote', mutationQueue')
        /\ ~remote'.handshakeComplete
    <3> DEFINE q == mutationQueue'
    <3>1. /\ q \in Seq(Batch) /\ Ordered(q)
          /\ HoldsFirst([remote EXCEPT !.writePipeline = Tail(@)], q)
          /\ RejectsFirst(remote, "permanent") /\ remote' = Close(remote, "permanent", q)
      BY <2>1, <2>3, <2>4, <1>3 DEF QueueInv
    <3> HIDE DEF q
    <3>2. StreamInv(remote', Settled + 1) /\ IsFilled(remote', q) /\ ~remote'.handshakeComplete
      BY <3>1, <1>1, CloseAnswered
    <3>3. QED
      BY <3>2 DEF q
  <2>6. ServerInv'
    BY <2>3, <2>4, <2>5 DEF PipelineInv, ServerInv, IsTrue
  <2>7. StoredInv'
    <3>1. IsBest(stored, Settled) \/ (stored > Settled /\ stored \notin Refused)
      BY StoredUnanswered
    <3>2. stored \in 0 .. issued /\ Settled \in Nat /\ issued \in Nat
      BY PipelineFacts DEF PipelineInv, StoredInv, QueueInv
    <3>3. CASE IsBest(stored, Settled)
      <4>1. IsBest(stored, Settled + 1)
        BY <3>2, <3>3, <2>2 DEF IsBest
      <4>2. QED
        BY <4>1, <3>2, <2>3, <2>4, <2>5 DEF StoredInv, IsBest
    <3>4. CASE stored > Settled /\ stored \notin Refused
      <4>1. stored > Settled + 1
        BY <3>2, <3>4, <2>2
      <4>2. QED
        BY <4>1, <3>2, <3>4, <2>3, <2>4, <2>5 DEF StoredInv
    <3>5. QED
      BY <3>1, <3>3, <3>4
  <2>8. restarts' \in Nat
    BY <2>3 DEF PipelineInv
  <2>9. QED
    BY <2>4, <2>5, <2>6, <2>7, <2>8 DEF PipelineInv
<1>4. QED
  BY <1>2, <1>3

LEMMA StreamEndsKeeps == ASSUME PipelineInv, StreamEnds PROVE PipelineInv'
<1>1. remote.finish = "permanent" /\ remote.responses = <<>>
  BY PipelineFacts DEF StreamEnds, Remote
<1>2. IsOpen(remote)
  BY <1>1, PipelineFacts DEF StreamInv, IsSilent, IsOpen
<1>3. QED
  BY <1>1, <1>2, StreamFinishKeeps DEF StreamEnds

LEMMA ConnectionLostKeeps == ASSUME PipelineInv, ConnectionLost PROVE PipelineInv'
BY StreamFinishKeeps DEF ConnectionLost

-----------------------------------------------------------------------------
(***************************************************************************)
(* The theorems.                                                           *)
(***************************************************************************)
LEMMA PipelineStep ==
    ASSUME PipelineInv, [PipelineNext]_pipelineVars
    PROVE  PipelineInv'
<1>1. CASE IssueWrite
  BY <1>1, IssueWriteKeeps
<1>2. CASE Stream
  BY <1>2, ResumeStartKeeps, HandshakeCompletesKeeps, MutationResultKeeps, StreamEndsKeeps,
     BackoffElapsedKeeps DEF Stream
<1>3. CASE \E count \in remote.credentials : CredentialsFail(count)
  BY <1>3, CredentialsFailKeeps
<1>4. CASE ConnectionLost
  BY <1>4, ConnectionLostKeeps
<1>5. CASE IdleTimeout
  BY <1>5, IdleTimeoutKeeps
<1>6. CASE ConnectivityChanges
  BY <1>6, ConnectivityChangesKeeps
<1>7. CASE Backend
  BY <1>7, ServeHandshakeKeeps, RefuseHandshakeKeeps, ApplyWriteKeeps, RefuseWriteKeeps DEF Backend
<1>8. CASE RunBlock
  BY <1>8, RunBlockKeeps
<1>9. CASE RestartProcess
  BY <1>9, RestartProcessKeeps
<1>10. CASE UNCHANGED pipelineVars
  <2>1. UNCHANGED <<diskVars, serverVars>> /\ remote' = remote
    BY <1>10 DEF pipelineVars, diskVars, serverVars
  <2>2. QED
    BY <2>1, PipelineFacts, RemoteStepKeeps
<1>11. QED
  BY <1>1, <1>2, <1>3, <1>4, <1>5, <1>6, <1>7, <1>8, <1>9, <1>10 DEF PipelineNext

LEMMA PipelineInvariant == PipelineSpec => []PipelineInv
<1>1. PipelineInit => PipelineInv
  BY PipelineInitInv
<1>2. PipelineInv /\ [PipelineNext]_pipelineVars => PipelineInv'
  BY PipelineStep
<1>3. QED
  BY <1>1, <1>2, PTL DEF PipelineSpec

(***************************************************************************)
(* Type correctness: the pipeline never holds more than kMaxPendingWrites  *)
(* writes, however FillWritePipeline, rejections and reconnections of the  *)
(* stream follow each other, and no credentials are for a stream to come.  *)
(***************************************************************************)
THEOREM PipelineTyped == PipelineSpec => []PipelineTypeOK
<1>1. ASSUME PipelineInv PROVE PipelineTypeOK
  <2>1. /\ mutationQueue \in Seq(Batch) /\ remote \in Remote
        /\ remote.credentials \subseteq 0 .. remote.closeCount
        /\ Len(remote.writePipeline) <= MaxPendingWrites
    BY <1>1, PipelineFacts DEF HoldsFirst
  <2>2. /\ issued \in Nat /\ nextBatchId \in Nat /\ restarts \in Nat /\ stored \in 0 .. issued
        /\ mutationCallbacks \subseteq 0 .. nextBatchId - 1
        /\ executor \in Seq(Outcome) /\ reported \in Seq(Outcome) /\ applied \subseteq Nat
    BY <1>1 DEF PipelineInv, QueueInv, StoredInv, CallbacksInv, ServerInv
  <2>3. stored \in Nat /\ mutationCallbacks \subseteq Nat
    BY <2>2
  <2>4. QED
    BY <2>1, <2>2, <2>3 DEF PipelineTypeOK
<1>2. QED
  BY <1>1, PipelineInvariant, PTL

(***************************************************************************)
(* No HARD_ASSERT of Stream, WriteStream, RemoteStore and SyncEngine on    *)
(* the write path fails, for any order of timers, credentials, responses,  *)
(* lost connections, connectivity changes and restarts.                    *)
(***************************************************************************)
THEOREM AssertionsHold == PipelineSpec => []NoAssertionFails
<1>1. PipelineInv => NoAssertionFails
  BY DEF PipelineInv, StreamInv, NoAssertionFails
<1>2. QED
  BY <1>1, PipelineInvariant, PTL

(***************************************************************************)
(* RemoteStore's pipeline always holds the oldest batches on disk, in      *)
(* their order and as many as fit, for every kMaxPendingWrites.            *)
(***************************************************************************)
THEOREM OldestHeld == PipelineSpec => []PipelineHoldsOldest
<1>1. ASSUME PipelineInv PROVE PipelineHoldsOldest
  <2> DEFINE p == remote.writePipeline
             k == Len(p)
             n == Len(mutationQueue)
             m == Min({MaxPendingWrites, n})
             t == SubSeq(mutationQueue, 1, m)
  <2>1. /\ p \in Seq(Batch) /\ mutationQueue \in Seq(Batch) /\ k \in Nat /\ n \in Nat
        /\ MaxPendingWrites \in Nat /\ DOMAIN mutationQueue = 1 .. n /\ DOMAIN p = 1 .. k
        /\ k <= n /\ k <= MaxPendingWrites /\ (k = n \/ k = MaxPendingWrites)
        /\ \A i \in 1 .. k : p[i] = mutationQueue[i]
    BY <1>1, PipelineFacts, WritePipelineAssumption DEF IsFilled, HoldsFirst, Remote
  <2> HIDE DEF k, n
  <2>2. m = k
    BY <2>1, MinOfTwo
  <2> HIDE DEF m
  <2>3. \A i \in 1 .. m : mutationQueue[i] \in Batch
    BY <2>1, <2>2, BatchEntries
  <2>4. /\ t \in Seq(Batch) /\ Len(t) = m
        /\ \A i \in 1 .. m : t[i] = mutationQueue[i]
    <3>1. /\ t \in Seq(Batch) /\ Len(t) = IF 1 <= m THEN m - 1 + 1 ELSE 0
          /\ \A i \in 1 .. m - 1 + 1 : t[i] = mutationQueue[1 + i - 1]
      BY <2>1, <2>2, <2>3, SubSeqProperties
    <3>2. m \in Nat /\ m - 1 + 1 = m /\ \A i \in 1 .. m : 1 + i - 1 = i
      BY <2>1, <2>2
    <3> HIDE DEF t
    <3>3. QED
      BY <3>1, <3>2
  <2> HIDE DEF t
  <2>5. p = t
    BY <2>1, <2>2, <2>4, SeqEqual DEF k
  <2>6. QED
    BY <2>5 DEF PipelineHoldsOldest, t, m, n
<1>2. QED
  BY <1>1, PipelineInvariant, PTL

(***************************************************************************)
(* SyncEngine tells a completion block success only when the backend has   *)
(* carried the write out and failure only when it refuses it, although a   *)
(* response is matched with a batch by its place in the pipeline alone.    *)
(***************************************************************************)
THEOREM BlocksToldTruth == PipelineSpec => []ReportedTruthfully
<1>1. PipelineInv => ReportedTruthfully
  BY DEF PipelineInv, ServerInv, IsTrue, ReportedTruthfully
<1>2. QED
  BY <1>1, PipelineInvariant, PTL

(***************************************************************************)
(* Writes that are sent and carried out again never leave an older write   *)
(* in the document: once the queue on disk is empty, it holds the last     *)
(* write the backend does not refuse.                                      *)
(***************************************************************************)
THEOREM LastStands == PipelineSpec => []LastWriteStands
<1>1. ASSUME PipelineInv, mutationQueue = <<>>
      PROVE  stored = Max({0} \cup {w \in 1 .. issued : w \notin Refused})
  <2> DEFINE S == {0} \cup {w \in 1 .. issued : w \notin Refused}
  <2>1. issued \in Nat /\ Settled = issued
    BY <1>1 DEF PipelineInv, QueueInv, Settled
  <2>2. remote.writePipeline = <<>>
    BY <1>1, OldestBatch
  <2>3. remote.handshakeComplete => remote.responses = <<>>
    <3>1. SUFFICES ASSUME remote.handshakeComplete PROVE remote.responses = <<>>
      OBVIOUS
    <3>2. Exchanges(remote, Settled) /\ remote \in Remote
      BY <1>1, <3>1, PipelineFacts DEF StreamInv
    <3> DEFINE a == Len(remote.responses)
               b == Len(remote.requests)
    <3>3. /\ remote.responses \in Seq(Nat) /\ a \in Nat /\ b \in Nat
          /\ Len(remote.writePipeline) = 0 /\ remote.finish \in {"none", "permanent"}
      BY <3>2, <2>2 DEF Remote
    <3>4. a + b = 0 \/ a < 0
      BY <3>2, <3>3 DEF Exchanges
    <3> HIDE DEF a, b
    <3>5. a = 0
      BY <3>3, <3>4
    <3>6. QED
      BY <3>3, <3>5 DEF a
  <2>4. stored \in 0 .. issued /\ IsBest(stored, issued)
    <3>1. stored \in 0 .. issued
      BY <1>1 DEF PipelineInv, StoredInv
    <3>2. IsBest(stored, issued) \/ stored > issued
      BY <1>1, <2>1, <2>3 DEF PipelineInv, StoredInv
    <3>3. QED
      BY <3>1, <3>2, <2>1
  <2>5. stored \in S /\ \A v \in S : v <= stored
    BY <2>1, <2>4 DEF IsBest
  <2>6. \A x \in S : (\A v \in S : v <= x) => x = stored
    <3>1. \A x \in S : x \in Nat
      BY <2>1
    <3> HIDE DEF S
    <3>2. QED
      BY <2>5, <3>1
  <2>7. \A x \in S : x \in Nat
    BY <2>1
  <2> HIDE DEF S
  <2>8. Max(S) = stored
    BY <2>5, <2>6, <2>7 DEF Max
  <2>9. QED
    BY <2>8 DEF S
<1>2. PipelineInv => LastWriteStands
  BY <1>1 DEF LastWriteStands
<1>3. QED
  BY <1>2, PipelineInvariant, PTL

-----------------------------------------------------------------------------
(***************************************************************************)
(* The refinement.  The writes whose blocks wait are consecutive numbers:  *)
(* they follow those that have left the disk and those of the orphans.     *)
(***************************************************************************)
Numbers(m, n) == [i \in 1 .. n |-> m + i]

LEMMA NumbersSeq ==
    ASSUME NEW m \in Nat, NEW n \in Nat
    PROVE  /\ Numbers(m, n) \in Seq(Nat) /\ Len(Numbers(m, n)) = n
           /\ \A i \in 1 .. n : Numbers(m, n)[i] = m + i
BY DEF Numbers

LEMMA NumbersAppend ==
    ASSUME NEW m \in Nat, NEW n \in Nat
    PROVE  Numbers(m, n + 1) = Append(Numbers(m, n), m + n + 1)
<1> DEFINE s == Numbers(m, n)
           t == Numbers(m, n + 1)
           u == Append(s, m + n + 1)
<1>1. s \in Seq(Nat) /\ Len(s) = n /\ \A i \in 1 .. n : s[i] = m + i
  BY NumbersSeq
<1>2. t \in Seq(Nat) /\ Len(t) = n + 1 /\ \A i \in 1 .. n + 1 : t[i] = m + i
  BY NumbersSeq
<1> HIDE DEF s, t
<1>3. /\ u \in Seq(Nat) /\ Len(u) = n + 1
      /\ \A i \in 1 .. n : u[i] = s[i]
      /\ u[n + 1] = m + n + 1
  BY <1>1, AppendProperties
<1> HIDE DEF u
<1>4. \A i \in 1 .. n + 1 : t[i] = u[i]
  BY <1>1, <1>2, <1>3
<1>5. t = u
  BY <1>2, <1>3, <1>4, SeqEqual
<1>6. QED
  BY <1>5 DEF s, t, u

LEMMA NumbersTail ==
    ASSUME NEW m \in Nat, NEW n \in Nat, n > 0
    PROVE  /\ Numbers(m, n) # <<>> /\ Head(Numbers(m, n)) = m + 1
           /\ Tail(Numbers(m, n)) = Numbers(m + 1, n - 1)
<1> DEFINE s == Numbers(m, n)
           t == Numbers(m + 1, n - 1)
           u == Tail(s)
<1>1. s \in Seq(Nat) /\ Len(s) = n /\ \A i \in 1 .. n : s[i] = m + i
  BY NumbersSeq
<1>2. t \in Seq(Nat) /\ Len(t) = n - 1 /\ \A i \in 1 .. n - 1 : t[i] = m + 1 + i
  <2> DEFINE k == m + 1
             l == n - 1
  <2>1. k \in Nat /\ l \in Nat
    OBVIOUS
  <2> HIDE DEF k, l
  <2>2. /\ Numbers(k, l) \in Seq(Nat) /\ Len(Numbers(k, l)) = l
        /\ \A i \in 1 .. l : Numbers(k, l)[i] = k + i
    BY <2>1, NumbersSeq, Zenon
  <2> QED
    BY <2>2, Zenon DEF k, l
<1> HIDE DEF s, t
<1>3. s # <<>> /\ Head(s) = m + 1
  BY <1>1
<1>4. u \in Seq(Nat) /\ Len(u) = n - 1 /\ \A i \in 1 .. n - 1 : u[i] = s[i + 1]
  BY <1>1, <1>3, HeadTailProperties
<1> HIDE DEF u
<1>5. \A i \in 1 .. n - 1 : t[i] = u[i]
  <2> TAKE i \in 1 .. n - 1
  <2>1. i + 1 \in 1 .. n /\ m + (i + 1) = m + 1 + i
    OBVIOUS
  <2>2. QED
    BY <2>1, <1>1, <1>2, <1>4
<1>6. t = u
  BY <1>2, <1>4, <1>5, SeqEqual
<1>7. QED
  BY <1>3, <1>6 DEF s, t, u

LEMMA NumbersEmpty == ASSUME NEW m PROVE Numbers(m, 0) = <<>>
BY DEF Numbers

\* The writes of the batches after the first k.
LEMMA LaterWrites ==
    ASSUME NEW queue \in Seq(Batch), NEW a \in Nat, NEW k \in 0 .. Len(queue),
           \A i \in DOMAIN queue : queue[i].write = a + i
    PROVE  LET rest == SubSeq(queue, 1 + Cardinality(1 .. k), Len(queue))
           IN  [i \in DOMAIN rest |-> rest[i].write] = Numbers(a + k, Len(queue) - k)
<1> DEFINE n == Len(queue)
           rest == SubSeq(queue, k + 1, n)
<1>1. n \in Nat /\ DOMAIN queue = 1 .. n /\ k \in Nat /\ k <= n
  OBVIOUS
<1>2. 1 + Cardinality(1 .. k) = k + 1
  <2>1. Cardinality(1 .. k) = k
    BY <1>1, FS_Interval
  <2>2. QED
    BY <2>1, <1>1
<1> HIDE DEF n
<1>3. \A i \in k + 1 .. n : queue[i] \in Batch
  BY <1>1
<1>4. /\ rest \in Seq(Batch) /\ Len(rest) = IF k + 1 <= n THEN n - (k + 1) + 1 ELSE 0
      /\ \A i \in 1 .. n - (k + 1) + 1 : rest[i] = queue[k + 1 + i - 1]
  BY <1>1, <1>3, SubSeqProperties
<1>5. (IF k + 1 <= n THEN n - (k + 1) + 1 ELSE 0) = n - k /\ n - (k + 1) + 1 = n - k
  BY <1>1
<1>6. DOMAIN rest = 1 .. n - k
  <2>1. DOMAIN rest = 1 .. Len(rest)
    BY <1>4
  <2>2. QED
    BY <2>1, <1>4, <1>5
<1>7. \A i \in 1 .. n - k : rest[i].write = a + k + i
  <2> TAKE i \in 1 .. n - k
  <2>1. k + 1 + i - 1 = k + i /\ k + i \in 1 .. n /\ a + (k + i) = a + k + i
    BY <1>1
  <2>2. rest[i] = queue[k + i]
    BY <2>1, <1>4, <1>5
  <2>3. QED
    BY <2>1, <2>2, <1>1
<1> HIDE DEF rest
<1>8. [i \in DOMAIN rest |-> rest[i].write] = Numbers(a + k, n - k)
  BY <1>6, <1>7 DEF Numbers
<1>9. QED
  BY <1>2, <1>8 DEF n, rest

Unacked == [i \in DOMAIN Awaited |-> Awaited[i].write]

LEMMA UnackedNow ==
    ASSUME PipelineInv, NEW k \in 0 .. Len(mutationQueue), Orphans = 1 .. k
    PROVE  Unacked = Numbers(Settled + k, Len(mutationQueue) - k)
<1>1. /\ mutationQueue \in Seq(Batch) /\ Settled \in Nat
      /\ \A i \in DOMAIN mutationQueue : mutationQueue[i].write = Settled + i
  BY PipelineFacts
<1>2. QED
  BY <1>1, LaterWrites DEF Unacked, Awaited

LEMMA UnackedNext ==
    ASSUME PipelineInv', NEW k \in 0 .. Len(mutationQueue'), Orphans' = 1 .. k
    PROVE  Unacked' = Numbers(Settled' + k, Len(mutationQueue') - k)
<1> DEFINE q == mutationQueue'
           a == Settled'
<1>1. /\ q \in Seq(Batch) /\ a \in Nat
      /\ \A i \in DOMAIN q : q[i].write = a + i
  BY DEF PipelineInv, QueueInv, Settled
<1>2. Unacked' = LET rest == SubSeq(q, 1 + Cardinality(1 .. k), Len(q))
                 IN  [i \in DOMAIN rest |-> rest[i].write]
  BY DEF Unacked, Awaited
<1>3. k \in 0 .. Len(q)
  OBVIOUS
<1> HIDE DEF q, a
<1>4. Unacked' = Numbers(a + k, Len(q) - k)
  BY <1>1, <1>2, <1>3, LaterWrites
<1>5. QED
  BY <1>4 DEF q, a

LEMMA AcksIssue ==
    ASSUME PipelineInv, PipelineInv', IssueWrite
    PROVE  Acks!IssueWrite
<1> DEFINE n == Len(mutationQueue)
<1>1. PICK k \in 0 .. n : Orphans = 1 .. k
  BY DEF PipelineInv, CallbacksInv
<1>2. /\ issued \in Nat /\ n \in Nat /\ Settled = issued - n /\ Settled \in Nat
      /\ mutationQueue \in Seq(Batch) /\ nextBatchId \in Nat
  BY PipelineFacts DEF PipelineInv, QueueInv, Settled
<1>3. /\ issued' = issued + 1 /\ executor' = executor
      /\ mutationQueue' = Append(mutationQueue, [id |-> nextBatchId, write |-> issued + 1])
  BY DEF IssueWrite
<1>4. Len(mutationQueue') = n + 1
  <2>1. [id |-> nextBatchId, write |-> issued + 1] \in Batch
    BY <1>2 DEF Batch
  <2>2. QED
    BY <2>1, <1>2, <1>3, AppendProperties
<1>5. Settled' = Settled
  <2>1. Settled' = issued' - Len(mutationQueue')
    BY DEF Settled
  <2>2. issued' = issued + 1
    BY <1>3
  <2> HIDE DEF n
  <2>3. QED
    BY <2>1, <2>2, <1>2, <1>4
<1>6. Unacked = Numbers(Settled + k, n - k)
  BY <1>1, UnackedNow
<1>7. Unacked' = Numbers(Settled + k, n + 1 - k)
  <2>1. Orphans' = 1 .. k
    BY <1>1, IssueOrphans
  <2>2. k \in 0 .. Len(mutationQueue')
    BY <1>1, <1>2, <1>4
  <2>3. QED
    BY <2>1, <2>2, <1>4, <1>5, UnackedNext
<1> HIDE DEF n
<1>8. Unacked' = Append(Unacked, issued + 1)
  <2> DEFINE m == Settled + k
             h == n - k
  <2>1. /\ m \in Nat /\ h \in Nat /\ n + 1 - k = h + 1 /\ m + h + 1 = issued + 1
        /\ Unacked = Numbers(m, h) /\ Unacked' = Numbers(m, n + 1 - k)
    BY <1>1, <1>2, <1>6, <1>7
  <2> HIDE DEF m, h
  <2>2. QED
    BY <2>1, NumbersAppend
<1>9. QED
  BY <1>3, <1>8 DEF Acks!IssueWrite, Unacked

\* The oldest batch leaves the disk: its block, if it has one, is told the backend's decision.
LEMMA AcksDecide ==
    ASSUME PipelineInv, PipelineInv', mutationQueue # <<>>, NEW ok \in BOOLEAN,
           mutationQueue' = Tail(mutationQueue), Settled' = Settled + 1,
           NotifyUser(mutationQueue[1], ok), issued' = issued,
           ok <=> Settled + 1 \notin Refused
    PROVE  Acks!Decide \/ UNCHANGED <<issued, Unacked, executor>>
<1> DEFINE n == Len(mutationQueue)
           batch == mutationQueue[1]
           told == IF batch.id \in mutationCallbacks THEN <<[write |-> batch.write, ok |-> ok]>>
                                                      ELSE <<>>
<1>1. PICK k \in 0 .. n : Orphans = 1 .. k
  BY DEF PipelineInv, CallbacksInv
<1>2. /\ mutationQueue \in Seq(Batch) /\ n \in Nat /\ n > 0 /\ Settled \in Nat
      /\ 1 \in DOMAIN mutationQueue /\ batch.write = Settled + 1
  BY PipelineFacts
<1>3. Len(mutationQueue') = n - 1
  BY <1>2, HeadTailProperties
<1>4. mutationCallbacks' = mutationCallbacks \ {batch.id} /\ executor' = executor \o told
  BY DEF NotifyUser
<1>5. executor \in Seq(Outcome)
  BY DEF PipelineInv, ServerInv
<1>6. Unacked = Numbers(Settled + k, n - k)
  BY <1>1, UnackedNow
<1>7. Orphans' = 1 .. (IF k = 0 THEN 0 ELSE k - 1)
  BY <1>1, <1>4, OldestOrphan
<1>8. 1 \in Orphans <=> batch.id \notin mutationCallbacks
  BY <1>2 DEF Orphans
<1>9. CASE k = 0
  <2>1. told = <<[write |-> batch.write, ok |-> ok]>>
    BY <1>1, <1>8, <1>9
  <2>2. 0 \in 0 .. Len(mutationQueue') /\ Orphans' = 1 .. 0
    <3> HIDE DEF n
    <3>1. QED
      BY <1>2, <1>3, <1>7, <1>9
  <2>3. Unacked' = Numbers(Settled' + 0, Len(mutationQueue') - 0)
    BY <2>2, UnackedNext
  <2> HIDE DEF n, told
  <2>4. Unacked' = Numbers(Settled + 1, n - 1) /\ Unacked = Numbers(Settled, n)
    <3>1. Settled' + 0 = Settled + 1 /\ Len(mutationQueue') - 0 = n - 1
      BY <1>2, <1>3
    <3>2. Settled + k = Settled /\ n - k = n
      BY <1>2, <1>9
    <3>3. QED
      BY <3>1, <3>2, <2>3, <1>6
  <2>5. Unacked # <<>> /\ Head(Unacked) = Settled + 1 /\ Unacked' = Tail(Unacked)
    BY <2>4, <1>2, NumbersTail
  <2> DEFINE o == [write |-> Head(Unacked), ok |-> Head(Unacked) \notin Refused]
  <2>6. o = [write |-> batch.write, ok |-> ok]
    BY <2>5, <1>2
  <2>7. o \in Outcome
    <3>1. [write |-> batch.write, ok |-> ok] \in Outcome
      BY <1>2 DEF Outcome
    <3>2. QED
      BY <3>1, <2>6
  <2>8. executor' = executor \o <<o>>
    BY <2>1, <2>6, <1>4
  <2> HIDE DEF o
  <2>9. executor' = Append(executor, o)
    BY <2>7, <2>8, <1>5, AppendIsConcat
  <2>10. Acks!Decide
    BY <2>5, <2>9 DEF Acks!Decide, Unacked, o
  <2>11. QED
    BY <2>10
<1>10. CASE k # 0
  <2>1. k \in Nat /\ k > 0 /\ k <= n /\ 1 \in Orphans
    BY <1>1, <1>2, <1>10
  <2>2. told = <<>> /\ executor' = executor
    <3>1. told = <<>>
      BY <2>1, <1>8
    <3>2. QED
      BY <3>1, <1>4, <1>5, ConcatEmptySeq
  <2> HIDE DEF n, told
  <2>3. k - 1 \in 0 .. Len(mutationQueue') /\ Orphans' = 1 .. (k - 1)
    BY <2>1, <1>2, <1>3, <1>7, <1>10
  <2>4. Unacked' = Numbers(Settled' + (k - 1), Len(mutationQueue') - (k - 1))
    BY <2>3, UnackedNext
  <2>5. Settled' + (k - 1) = Settled + k /\ Len(mutationQueue') - (k - 1) = n - k
    BY <2>1, <1>2, <1>3
  <2>6. Unacked' = Unacked
    BY <2>4, <2>5, <1>6
  <2>7. QED
    BY <2>2, <2>6
<1>11. QED
  BY <1>9, <1>10

LEMMA AcksUnchanged ==
    ASSUME UNCHANGED <<mutationQueue, mutationCallbacks>>
    PROVE  Unacked' = Unacked
BY DEF Unacked, Awaited, Orphans

LEMMA AcksMutationResult ==
    ASSUME PipelineInv, PipelineInv', OnWriteStreamMutationResult
    PROVE  Acks!Decide \/ UNCHANGED <<issued, Unacked, executor>>
<1> DEFINE batch == Head(remote.writePipeline)
<1>1. remote.handshakeComplete /\ remote.responses # <<>>
  BY DEF OnWriteStreamMutationResult
<1>2. /\ Exchanges(remote, Settled) /\ remote.responses \in Seq(Nat)
      /\ remote.finish \in {"none", "permanent"} /\ Settled \in Nat
      /\ Len(remote.writePipeline) \in Nat /\ Len(remote.requests) \in Nat
  BY <1>1, PipelineFacts DEF StreamInv, Remote
<1>3. Settled + 1 \notin Refused /\ Settled + 1 \in applied
  <2>1. 1 \in DOMAIN remote.responses
    BY <1>1, <1>2
  <2>2. QED
    BY <2>1, <1>1, <1>2 DEF Exchanges, PipelineInv, ServerInv
<1>4. remote.writePipeline # <<>>
  <2> DEFINE a == Len(remote.responses)
             b == Len(remote.requests)
             c == Len(remote.writePipeline)
  <2>1. a + b = c \/ a < c
    BY <1>2 DEF Exchanges
  <2>2. a \in Nat /\ a # 0 /\ b \in Nat /\ c \in Nat
    BY <1>1, <1>2
  <2> HIDE DEF a, b, c
  <2>3. c # 0
    BY <2>1, <2>2
  <2>4. QED
    BY <2>3 DEF c
<1>5. /\ mutationQueue' = RemoveMutationBatch(mutationQueue, batch)
      /\ NotifyUser(batch, TRUE)
      /\ UNCHANGED <<nextBatchId, issued, applied>>
  BY <1>4 DEF OnWriteStreamMutationResult, serverVars
<1>6. PICK ok \in BOOLEAN : ok = TRUE
  OBVIOUS
<1>7. NotifyUser(batch, ok) /\ ok
  BY <1>5, <1>6
<1>8. mutationQueue # <<>> /\ batch = mutationQueue[1]
  BY <1>4, OldestBatch
<1>9. mutationQueue' = Tail(mutationQueue) /\ Settled' = Settled + 1
  BY <1>3, <1>4, <1>5, <1>7, OldestLeaves
<1>10. QED
  BY <1>3, <1>5, <1>7, <1>8, <1>9, AcksDecide

LEMMA AcksStreamFinish ==
    ASSUME PipelineInv, PipelineInv', NEW status \in {"transient", "permanent"},
           OnStreamFinish(status),
           status = "permanent" => remote.finish = "permanent" /\ remote.responses = <<>>
    PROVE  Acks!Decide \/ UNCHANGED <<issued, Unacked, executor>>
<1> DEFINE batch == Head(remote.writePipeline)
<1>1. CASE ~RejectsFirst(remote, status)
  <2>1. UNCHANGED <<mutationQueue, mutationCallbacks, issued, executor>>
    BY <1>1 DEF OnStreamFinish, diskVars
  <2>2. QED
    BY <2>1, AcksUnchanged
<1>2. CASE RejectsFirst(remote, status)
  <2>1. /\ remote.handshakeComplete /\ remote.writePipeline # <<>>
        /\ remote.finish = "permanent" /\ remote.responses = <<>>
    BY <1>2 DEF RejectsFirst
  <2>2. Settled + 1 \in Refused
    <3>1. Exchanges(remote, Settled) /\ Len(remote.responses) = 0 /\ Settled \in Nat
      BY <2>1, PipelineFacts DEF StreamInv
    <3>2. Settled + 0 + 1 \in Refused
      BY <3>1, <2>1 DEF Exchanges
    <3>3. QED
      BY <3>1, <3>2
  <2>3. /\ mutationQueue' = RemoveMutationBatch(mutationQueue, batch)
        /\ NotifyUser(batch, FALSE)
        /\ UNCHANGED <<nextBatchId, issued, applied>>
    BY <1>2 DEF OnStreamFinish, serverVars
  <2>4. PICK ok \in BOOLEAN : ok = FALSE
    OBVIOUS
  <2>5. NotifyUser(batch, ok) /\ ~ok
    BY <2>3, <2>4
  <2>6. mutationQueue # <<>> /\ batch = mutationQueue[1]
    BY <2>1, OldestBatch
  <2>7. mutationQueue' = Tail(mutationQueue) /\ Settled' = Settled + 1
    BY <2>1, <2>2, <2>3, <2>5, OldestLeaves
  <2>8. QED
    BY <2>2, <2>3, <2>5, <2>6, <2>7, AcksDecide
<1>3. QED
  BY <1>1, <1>2

LEMMA AcksRestart ==
    ASSUME PipelineInv, PipelineInv', RestartProcess
    PROVE  Acks!LoseBlocks
<1> DEFINE n == Len(mutationQueue)
<1>1. UNCHANGED <<mutationQueue, issued>> /\ mutationCallbacks' = {} /\ executor' = <<>>
  BY DEF RestartProcess
<1>2. mutationQueue \in Seq(Batch) /\ n \in Nat /\ DOMAIN mutationQueue = 1 .. n
  BY PipelineFacts
<1>3. Orphans' = 1 .. n /\ Len(mutationQueue') = n /\ n \in 0 .. n
  BY <1>1, <1>2 DEF Orphans
<1>4. Unacked' = Numbers(Settled' + n, n - n)
  BY <1>3, UnackedNext
<1>5. Unacked' = <<>>
  <2> HIDE DEF n
  <2>1. n - n = 0
    BY <1>2
  <2>2. QED
    BY <2>1, <1>4, NumbersEmpty
<1>6. QED
  BY <1>1, <1>5 DEF Acks!LoseBlocks, Unacked

(***************************************************************************)
(* The whole write path, with its mutation queue, pipeline, streams and    *)
(* restarts, implements WriteAcks: a completion block runs at most once,   *)
(* in the order of the writes, with what the backend decides about its     *)
(* write.  The batches that an earlier process left are answered without   *)
(* a step of WriteAcks.                                                    *)
(***************************************************************************)
THEOREM WritesAcknowledged == PipelineSpec => ImplementsWriteAcks
<1>1. PipelineInit => Acks!AcksInit
  <2>1. SUFFICES ASSUME PipelineInit PROVE Acks!AcksInit
    OBVIOUS
  <2>2. issued = 0 /\ executor = <<>> /\ mutationQueue = <<>>
    BY <2>1 DEF PipelineInit
  <2>3. Orphans = 1 .. 0 /\ 0 \in 0 .. Len(mutationQueue) /\ Len(mutationQueue) = 0
    BY <2>2 DEF Orphans
  <2>4. Unacked = Numbers(Settled + 0, Len(mutationQueue) - 0)
    BY <2>1, <2>3, PipelineInitInv, UnackedNow
  <2>5. Unacked = <<>>
    BY <2>3, <2>4, NumbersEmpty
  <2>6. QED
    BY <2>2, <2>5 DEF Acks!AcksInit, Unacked
<1>2. PipelineInv /\ PipelineInv' /\ [PipelineNext]_pipelineVars => [Acks!AcksNext]_Acks!ackVars
  <2>1. SUFFICES ASSUME PipelineInv, PipelineInv', [PipelineNext]_pipelineVars
                 PROVE  Acks!AcksNext \/ UNCHANGED <<issued, Unacked, executor>>
    BY DEF Acks!ackVars, Unacked
  <2>2. ASSUME UNCHANGED <<diskVars, serverVars>> PROVE UNCHANGED <<issued, Unacked, executor>>
    BY <2>2, AcksUnchanged DEF diskVars
  <2>3. CASE IssueWrite
    BY <2>1, <2>3, AcksIssue DEF Acks!AcksNext
  <2>4. CASE Stream
    <3>1. CASE \E count \in remote.credentials : ResumeStartWithCredentials(count)
      BY <3>1, <2>2 DEF ResumeStartWithCredentials
    <3>2. CASE HandshakeCompletes
      BY <3>2, <2>2 DEF HandshakeCompletes
    <3>3. CASE OnWriteStreamMutationResult
      BY <3>3, <2>1, AcksMutationResult DEF Acks!AcksNext
    <3>4. CASE StreamEnds
      <4>1. remote.finish = "permanent" /\ remote.responses = <<>>
        BY <3>4, <2>1, PipelineFacts DEF StreamEnds, Remote
      <4>2. QED
        BY <4>1, <3>4, <2>1, AcksStreamFinish DEF StreamEnds, Acks!AcksNext
    <3>5. CASE BackoffElapsed
      BY <3>5, <2>2 DEF BackoffElapsed
    <3>6. QED
      BY <3>1, <3>2, <3>3, <3>4, <3>5, <2>4 DEF Stream
  <2>5. CASE \E count \in remote.credentials : CredentialsFail(count)
    BY <2>2, <2>5 DEF CredentialsFail
  <2>6. CASE ConnectionLost
    BY <2>1, <2>6, AcksStreamFinish DEF ConnectionLost, Acks!AcksNext
  <2>7. CASE IdleTimeout
    BY <2>2, <2>7 DEF IdleTimeout
  <2>8. CASE ConnectivityChanges
    BY <2>2, <2>8 DEF ConnectivityChanges
  <2>9. CASE Backend
    <3>1. UNCHANGED diskVars
      BY <2>9 DEF Backend, ServeHandshake, RefuseHandshake, ApplyWrite, RefuseWrite
    <3>2. QED
      BY <3>1, AcksUnchanged DEF diskVars
  <2>10. CASE RunBlock
    <3>1. UNCHANGED <<mutationQueue, mutationCallbacks, issued>>
      BY <2>10 DEF RunBlock
    <3>2. Acks!RunBlock
      BY <3>1, <2>10, AcksUnchanged DEF RunBlock, Acks!RunBlock, Unacked
    <3>3. QED
      BY <3>2 DEF Acks!AcksNext
  <2>11. CASE RestartProcess
    BY <2>1, <2>11, AcksRestart DEF Acks!AcksNext
  <2>12. CASE UNCHANGED pipelineVars
    BY <2>12, AcksUnchanged DEF pipelineVars
  <2>13. QED
    BY <2>1, <2>3, <2>4, <2>5, <2>6, <2>7, <2>8, <2>9, <2>10, <2>11, <2>12 DEF PipelineNext
<1>3. QED
  BY <1>1, <1>2, PipelineInvariant, PTL DEF PipelineSpec, ImplementsWriteAcks, Acks!AcksSpec

=============================================================================
