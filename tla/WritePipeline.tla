---------------------------- MODULE WritePipeline -----------------------------
(***************************************************************************)
(* How the Firestore client library gets the writes of AuthManager to the  *)
(* backend: the mutation queue on disk, RemoteStore with its pipeline of   *)
(* writes that were sent, the write stream with credentials, handshake,    *)
(* idle timer and backoff, and SyncEngine's completion blocks.             *)
(*                                                                         *)
(* Everything here runs on one worker queue, so a handler is one step, but *)
(* handlers call each other: closing a stream may reject a write, refill   *)
(* the pipeline and start the stream again.  The variable remote is        *)
(* therefore one record, and each method a function from one value of it   *)
(* to the next.  Writes are numbered in the order they are issued.         *)
(***************************************************************************)
EXTENDS Integers, Sequences, FiniteSets, SequencesExt, FiniteSetsExt

CONSTANTS
    Refused,           \* numbers of the writes the backend refuses for good
    MaxPendingWrites,  \* kMaxPendingWrites
    MaxWrites,         \* bound on the writes issued
    MaxCloses,         \* faults close a stream only this often in one process
    MaxRestarts,       \* bound on restarts
    StreamFaults       \* what may fail in this instance

ASSUME WritePipelineAssumption ==
    /\ Refused \subseteq Nat \ {0}
    /\ MaxPendingWrites \in Nat \ {0}
    /\ {MaxWrites, MaxCloses, MaxRestarts} \subseteq Nat
    /\ StreamFaults \subseteq {"connectionLost", "noCredentials", "handshakeRefused",
                               "connectivityChanges"}

VARIABLES
    mutationQueue,  \* batches on disk, by increasing batch id
    nextBatchId,    \* LevelDbMutationQueue::next_batch_id_
    remote,         \* RemoteStore, its WriteStream and the gRPC stream under it
    mutationCallbacks,  \* batch ids with a completion block, SyncEngine::mutation_callbacks_
    executor,       \* blocks handed to the user's queue
    applied,        \* the backend: writes it has carried out
    stored,         \* the backend: the write the document holds
    issued,         \* history: number of writes issued
    reported,       \* history: what the blocks handed over in this process were told
    restarts        \* history: number of restarts

pipelineVars == <<mutationQueue, nextBatchId, remote, mutationCallbacks, executor, applied,
                  stored, issued, reported, restarts>>

Batch == [id : Nat, write : Nat]

\* Requests and responses of a stream: a write's number, or the handshake.
Handshake == 0

Remote == [state             : {"Initial", "Starting", "Open", "Error", "Backoff"},
           handshakeComplete : BOOLEAN,
           writePipeline     : Seq(Batch),
           networkEnabled    : BOOLEAN,
           closeCount        : Nat,
           credentials       : SUBSET Nat,   \* close counts captured by pending GetToken calls
           idlenessTimer     : BOOLEAN,
           backoffTimer      : BOOLEAN,
           requests          : Seq(Nat),
           responses         : Seq(Nat),
           finish            : {"none", "permanent"},  \* status that follows the responses
           failed            : BOOLEAN]      \* a HARD_ASSERT has failed

Outcome == [write : Nat, ok : BOOLEAN]

(***************************************************************************)
(* The types of the write path's state: at most kMaxPendingWrites writes   *)
(* are in the pipeline, and credentials belong to streams there have been. *)
(***************************************************************************)
PipelineTypeOK ==
    /\ mutationQueue \in Seq(Batch)
    /\ {nextBatchId, stored, issued, restarts} \subseteq Nat
    /\ remote \in Remote
    /\ Len(remote.writePipeline) <= MaxPendingWrites
    /\ remote.credentials \subseteq 0 .. remote.closeCount
    /\ mutationCallbacks \subseteq Nat
    /\ executor \in Seq(Outcome) /\ reported \in Seq(Outcome)
    /\ applied \subseteq Nat

-----------------------------------------------------------------------------
(***************************************************************************)
(* Stream: its state, and what writing to it does.                         *)
(***************************************************************************)
IsOpen(r) == r.state = "Open"

IsStarted(r) == r.state \in {"Starting", "Backoff"} \/ IsOpen(r)

HardAssert(r, condition) == [r EXCEPT !.failed = @ \/ ~condition]

RequestCredentials(r) == [r EXCEPT !.credentials = @ \cup {r.closeCount}]

BackoffAndTryRestarting(r) == [r EXCEPT !.state = "Backoff", !.backoffTimer = TRUE]

Start(r) ==
    IF r.state = "Error"
    THEN BackoffAndTryRestarting(r)
    ELSE RequestCredentials([HardAssert(r, r.state = "Initial") EXCEPT !.state = "Starting"])

InhibitBackoff(r) == [HardAssert(r, ~IsStarted(r)) EXCEPT !.state = "Initial"]

MarkIdle(r) == IF IsOpen(r) THEN [r EXCEPT !.idlenessTimer = TRUE] ELSE r

Write(r, messages) ==
    IF messages = <<>> THEN r
    ELSE [HardAssert(r, IsOpen(r)) EXCEPT !.idlenessTimer = FALSE, !.requests = @ \o messages]

WriteHandshake(r) == Write(HardAssert(r, ~r.handshakeComplete), <<Handshake>>)

WriteMutations(r, batches) ==
    Write(HardAssert(r, r.handshakeComplete), [i \in DOMAIN batches |-> batches[i].write])

OnStreamStart(r) == WriteHandshake([r EXCEPT !.state = "Open"])

-----------------------------------------------------------------------------
(***************************************************************************)
(* RemoteStore: the pipeline holds the oldest batches of the queue.        *)
(***************************************************************************)
\* The row an iterator stands at after seeking this batch id: the first that is not before it.
Seek(queue, id) == 1 + Cardinality({i \in DOMAIN queue : queue[i].id < id})

\* Mutant: the batch to continue after is found again.
BatchesFrom(queue, id) == SubSeq(queue, Seek(queue, id), Len(queue))

BatchesAfter(queue, id) == SubSeq(queue, Seek(queue, id + 1), Len(queue))

\* Mutant: the size of the pipeline is compared with <=.
RoomForOneMore(r) == 1 + MaxPendingWrites - Len(r.writePipeline)

Room(r) == MaxPendingWrites - Len(r.writePipeline)

CanAddToWritePipeline(r) == r.networkEnabled /\ Room(r) > 0

ShouldStartWriteStream(r) == r.networkEnabled /\ ~IsStarted(r) /\ r.writePipeline # <<>>

StartIfNeeded(r) == IF ShouldStartWriteStream(r) THEN Start(r) ELSE r

AddToWritePipeline(r, batches) ==
    LET added == [r EXCEPT !.writePipeline = @ \o batches]
    IN  IF IsOpen(r) /\ r.handshakeComplete /\ batches # <<>>
        THEN WriteMutations(added, batches)
        ELSE added

FillWritePipeline(r, queue) ==
    LET last  == IF r.writePipeline = <<>> THEN -1 ELSE Last(r.writePipeline).id
        next  == BatchesAfter(queue, last)
        added == SubSeq(next, 1, Min({Room(r), Len(next)}))
    IN  IF ~CanAddToWritePipeline(r) THEN StartIfNeeded(r)
        ELSE IF r.writePipeline \o added = <<>> THEN MarkIdle(r)  \* which starts no stream
        ELSE StartIfNeeded(AddToWritePipeline(r, added))

\* Mutant: an error before the handshake is taken for an answer to the first write.
RejectsWithoutHandshake(r, status) == status = "permanent" /\ r.writePipeline # <<>>

\* Mutant: a broken connection is taken for an answer to the first write.
RejectsOnAnyError(r, status) == status # "ok" /\ r.handshakeComplete /\ r.writePipeline # <<>>

\* Does this end of the stream answer the first write of the pipeline?
RejectsFirst(r, status) == status = "permanent" /\ r.handshakeComplete /\ r.writePipeline # <<>>

HandleWriteError(r, queue) ==
    FillWritePipeline(InhibitBackoff([r EXCEPT !.writePipeline = Tail(@)]), queue)

\* Mutant: the stream is not started again for the writes that wait.
OnWriteStreamCloseRests(r, status, queue) ==
    IF RejectsFirst(r, status) THEN HandleWriteError(r, queue) ELSE r

OnWriteStreamClose(r, status, queue) ==
    LET checked == HardAssert(r, status = "ok" => ~ShouldStartWriteStream(r))
    IN  StartIfNeeded(IF RejectsFirst(r, status) THEN HandleWriteError(checked, queue) ELSE checked)

\* The stream ends; queue is what is left on disk when the listener is told.
Close(r, status, queue) ==
    LET closed == [HardAssert(r, IsStarted(r)) EXCEPT
                      !.idlenessTimer = FALSE, !.backoffTimer = FALSE, !.closeCount = @ + 1,
                      !.requests = <<>>, !.responses = <<>>, !.finish = "none",
                      !.state = IF status = "ok" THEN "Initial" ELSE "Error"]
    IN  [OnWriteStreamClose(closed, status, queue) EXCEPT !.handshakeComplete = FALSE]

Stop(r, queue) == IF IsStarted(r) THEN Close(r, "ok", queue) ELSE r

EnableNetwork(r, queue) == FillWritePipeline([r EXCEPT !.networkEnabled = TRUE], queue)

RestartNetwork(r, queue) ==
    LET stopped == Stop([r EXCEPT !.networkEnabled = FALSE], queue)
    IN  EnableNetwork(InhibitBackoff([stopped EXCEPT !.writePipeline = <<>>]), queue)

-----------------------------------------------------------------------------
(***************************************************************************)
(* Batches leave the disk, and SyncEngine hands their blocks over.         *)
(***************************************************************************)
RemoveMutationBatch(queue, batch) ==
    LET i == Seek(queue, batch.id)
    IN  IF i \in DOMAIN queue /\ queue[i].id = batch.id THEN RemoveAt(queue, i) ELSE queue

NotifyUser(batch, ok) ==
    LET told == IF batch.id \in mutationCallbacks THEN <<[write |-> batch.write, ok |-> ok]>> ELSE <<>>
    IN  /\ mutationCallbacks' = mutationCallbacks \ {batch.id}
        /\ executor' = executor \o told
        /\ reported' = reported \o told

(***************************************************************************)
(* A process starts: RemoteStore fills its pipeline from what is on disk.  *)
(***************************************************************************)
FreshRemote ==
    [state |-> "Initial", handshakeComplete |-> FALSE, writePipeline |-> <<>>,
     networkEnabled |-> FALSE, closeCount |-> 0, credentials |-> {}, idlenessTimer |-> FALSE,
     backoffTimer |-> FALSE, requests |-> <<>>, responses |-> <<>>, finish |-> "none",
     failed |-> FALSE]

\* One more than the id in the last row of the queue.
LoadNextBatchIdFromDb(queue) == IF queue = <<>> THEN 1 ELSE 1 + Last(queue).id

PipelineInit ==
    /\ mutationQueue = <<>> /\ nextBatchId = LoadNextBatchIdFromDb(mutationQueue)
    /\ remote = EnableNetwork(FreshRemote, mutationQueue)
    /\ mutationCallbacks = {} /\ executor = <<>>
    /\ applied = {} /\ stored = 0
    /\ issued = 0 /\ reported = <<>> /\ restarts = 0

\* The process dies and the next one starts.
RestartProcess ==
    /\ restarts < MaxRestarts
    /\ restarts' = restarts + 1
    /\ nextBatchId' = LoadNextBatchIdFromDb(mutationQueue)
    /\ remote' = EnableNetwork(FreshRemote, mutationQueue)
    /\ mutationCallbacks' = {} /\ executor' = <<>> /\ reported' = <<>>
    /\ UNCHANGED <<mutationQueue, applied, stored, issued>>

-----------------------------------------------------------------------------
(***************************************************************************)
(* The steps of the worker queue.                                          *)
(***************************************************************************)
\* setData and updateData: FirestoreClient::WriteMutations.
IssueWrite ==
    /\ ~remote.failed
    /\ issued < MaxWrites
    /\ issued' = issued + 1
    /\ mutationQueue' = Append(mutationQueue, [id |-> nextBatchId, write |-> issued'])
    /\ nextBatchId' = nextBatchId + 1
    /\ mutationCallbacks' = mutationCallbacks \cup {nextBatchId}
    /\ remote' = FillWritePipeline(remote, mutationQueue')
    /\ UNCHANGED <<executor, applied, stored, reported, restarts>>

diskVars == <<mutationQueue, nextBatchId, mutationCallbacks, executor, issued, reported, restarts>>
serverVars == <<applied, stored>>

\* Mutant: the close count is not compared.
CredentialsAnyway(count) == TRUE

\* Were these credentials requested for the stream as it is now?
CredentialsCurrent(count) == count = remote.closeCount

ResumeStartWithCredentials(count) ==
    /\ ~remote.failed
    /\ count \in remote.credentials
    /\ LET taken == [remote EXCEPT !.credentials = @ \ {count}]
       IN  remote' = IF CredentialsCurrent(count)
                     THEN OnStreamStart(HardAssert(taken, taken.state = "Starting"))
                     ELSE taken
    /\ UNCHANGED <<diskVars, serverVars>>

CredentialsFail(count) ==
    /\ ~remote.failed
    /\ "noCredentials" \in StreamFaults /\ remote.closeCount < MaxCloses
    /\ count \in remote.credentials
    /\ LET taken == [remote EXCEPT !.credentials = @ \ {count}]
       IN  remote' = IF CredentialsCurrent(count)
                     THEN Close(HardAssert(taken, taken.state = "Starting"), "transient", mutationQueue)
                     ELSE taken
    /\ UNCHANGED <<diskVars, serverVars>>

\* The first response of a stream completes the handshake, whatever it says.
HandshakeCompletes ==
    /\ ~remote.failed
    /\ remote.responses # <<>> /\ ~remote.handshakeComplete
    /\ LET read == [HardAssert(remote, IsStarted(remote)) EXCEPT !.responses = Tail(@), !.handshakeComplete = TRUE]
       IN  remote' = WriteMutations(read, read.writePipeline)
    /\ UNCHANGED <<diskVars, serverVars>>

\* Every later response answers the first write of the pipeline.
OnWriteStreamMutationResult ==
    /\ ~remote.failed
    /\ remote.responses # <<>> /\ remote.handshakeComplete
    /\ IF remote.writePipeline = <<>>
       THEN remote' = HardAssert(remote, FALSE) /\ UNCHANGED diskVars
       ELSE LET batch == Head(remote.writePipeline)
                found == \E i \in DOMAIN mutationQueue : mutationQueue[i].id = batch.id
                read  == [HardAssert(remote, IsStarted(remote) /\ found) EXCEPT
                             !.responses = Tail(@), !.writePipeline = Tail(@)]
            IN  /\ NotifyUser(batch, TRUE)
                /\ mutationQueue' = RemoveMutationBatch(mutationQueue, batch)
                /\ remote' = FillWritePipeline(read, mutationQueue')
                /\ UNCHANGED <<nextBatchId, issued, restarts>>
    /\ UNCHANGED serverVars

\* The gRPC stream reports its end after its last response.
OnStreamFinish(status) ==
    IF RejectsFirst(remote, status)
    THEN LET batch == Head(remote.writePipeline)
         IN  /\ mutationQueue' = RemoveMutationBatch(mutationQueue, batch)
             /\ NotifyUser(batch, FALSE)
             /\ remote' = Close(remote, status, mutationQueue')
             /\ UNCHANGED <<nextBatchId, issued, restarts, serverVars>>
    ELSE /\ remote' = Close(remote, status, mutationQueue)
         /\ UNCHANGED <<diskVars, serverVars>>

StreamEnds ==
    /\ ~remote.failed
    /\ remote.finish # "none" /\ remote.responses = <<>>
    /\ OnStreamFinish(remote.finish)

ConnectionLost ==
    /\ ~remote.failed
    /\ "connectionLost" \in StreamFaults /\ remote.closeCount < MaxCloses
    /\ IsOpen(remote)
    /\ OnStreamFinish("transient")

IdleTimeout ==
    /\ ~remote.failed
    /\ remote.idlenessTimer
    /\ remote' = Stop(remote, mutationQueue)
    /\ UNCHANGED <<diskVars, serverVars>>

BackoffElapsed ==
    /\ ~remote.failed
    /\ remote.backoffTimer
    /\ LET woken == [HardAssert(remote, remote.state = "Backoff") EXCEPT
                        !.backoffTimer = FALSE, !.state = "Initial"]
       IN  remote' = HardAssert(Start(woken), IsStarted(Start(woken)))
    /\ UNCHANGED <<diskVars, serverVars>>

ConnectivityChanges ==
    /\ ~remote.failed
    /\ "connectivityChanges" \in StreamFaults /\ remote.closeCount < MaxCloses
    /\ remote' = RestartNetwork(remote, mutationQueue)
    /\ UNCHANGED <<diskVars, serverVars>>

\* The user's queue runs the next block.
RunBlock ==
    /\ executor # <<>>
    /\ executor' = Tail(executor)
    /\ UNCHANGED <<mutationQueue, nextBatchId, remote, mutationCallbacks, issued, reported,
                   restarts, serverVars>>

-----------------------------------------------------------------------------
(***************************************************************************)
(* The backend.  It handles the requests of a stream in order and answers  *)
(* each; a write it refuses ends the stream with a permanent error, after  *)
(* the responses to the writes before it.  Requests of a stream that has   *)
(* ended are not carried out: had they been, it would have happened before *)
(* the next stream, which looks the same to the client.                    *)
(***************************************************************************)
Serving == remote.finish = "none" /\ remote.requests # <<>>

ServeHandshake ==
    /\ Serving /\ Head(remote.requests) = Handshake
    /\ remote' = [remote EXCEPT !.requests = Tail(@), !.responses = Append(@, Handshake)]
    /\ UNCHANGED <<diskVars, serverVars>>

RefuseHandshake ==
    /\ "handshakeRefused" \in StreamFaults /\ remote.closeCount < MaxCloses
    /\ Serving /\ Head(remote.requests) = Handshake
    /\ remote' = [remote EXCEPT !.requests = <<>>, !.finish = "permanent"]
    /\ UNCHANGED <<diskVars, serverVars>>

ApplyWrite ==
    /\ Serving /\ Head(remote.requests) \notin Refused \cup {Handshake}
    /\ applied' = applied \cup {Head(remote.requests)}
    /\ stored' = Head(remote.requests)
    /\ remote' = [remote EXCEPT !.requests = Tail(@), !.responses = Append(@, Head(remote.requests))]
    /\ UNCHANGED diskVars

RefuseWrite ==
    /\ Serving /\ Head(remote.requests) \in Refused
    /\ remote' = [remote EXCEPT !.requests = <<>>, !.finish = "permanent"]
    /\ UNCHANGED <<diskVars, serverVars>>

Backend == ServeHandshake \/ RefuseHandshake \/ ApplyWrite \/ RefuseWrite

-----------------------------------------------------------------------------
Stream ==
    \/ \E count \in remote.credentials : ResumeStartWithCredentials(count)
    \/ HandshakeCompletes
    \/ OnWriteStreamMutationResult
    \/ StreamEnds
    \/ BackoffElapsed

PipelineNext ==
    \/ IssueWrite
    \/ Stream
    \/ \E count \in remote.credentials : CredentialsFail(count)
    \/ ConnectionLost
    \/ IdleTimeout
    \/ ConnectivityChanges
    \/ Backend
    \/ RunBlock
    \/ RestartProcess

PipelineSpec == PipelineInit /\ [][PipelineNext]_pipelineVars

(***************************************************************************)
(* The worker queue runs what is in it, credentials arrive, the backoff    *)
(* ends, and the backend answers what a stream that stays open has sent.   *)
(* Faults are bounded, so in the end a stream stays open.                  *)
(***************************************************************************)
PipelineFairness == WF_pipelineVars(Stream) /\ WF_pipelineVars(Backend)

FairPipelineSpec == PipelineSpec /\ PipelineFairness

-----------------------------------------------------------------------------
(***************************************************************************)
(* No HARD_ASSERT of the write path fails: no write or handshake goes to a *)
(* stream that is not ready for it, no timer or late credentials act on a  *)
(* later stream, and no stream is stopped for idleness while it is needed. *)
(***************************************************************************)
NoAssertionFails == ~remote.failed

(***************************************************************************)
(* Between two steps the pipeline holds the oldest batches of the queue on *)
(* disk, in their order and as many as fit: no batch is skipped, sent out  *)
(* of turn or left behind when a slot is free, whatever stream failures,   *)
(* rejections and restarts have done to both.                              *)
(***************************************************************************)
PipelineHoldsOldest ==
    remote.writePipeline = SubSeq(mutationQueue, 1, Min({MaxPendingWrites, Len(mutationQueue)}))

(***************************************************************************)
(* A completion block is told the truth, although responses carry no batch *)
(* id: success only for a write that the backend has carried out, failure  *)
(* only for one that it refuses.                                           *)
(***************************************************************************)
ReportedTruthfully ==
    \A i \in DOMAIN reported :
        IF reported[i].ok THEN reported[i].write \in applied ELSE reported[i].write \in Refused

(***************************************************************************)
(* Writes are sent again after a stream has failed or the process has      *)
(* died, also those the backend has carried out already; still, once the   *)
(* queue is empty the document holds the last write that is not refused.   *)
(***************************************************************************)
LastWriteStands ==
    mutationQueue = <<>> =>
        stored = Max({0} \cup {w \in 1 .. issued : w \notin Refused})

(***************************************************************************)
(* The completion blocks as WriteAcks has them: those of the batches that  *)
(* are on disk, and those handed to the user's queue.  Batches left by an  *)
(* earlier process have none, and come first in the queue.                 *)
(***************************************************************************)
Orphans == {i \in DOMAIN mutationQueue : mutationQueue[i].id \notin mutationCallbacks}

Awaited == SubSeq(mutationQueue, 1 + Cardinality(Orphans), Len(mutationQueue))

Acks == INSTANCE WriteAcks WITH
            unacked   <- [i \in DOMAIN Awaited |-> Awaited[i].write],
            callbacks <- executor

(***************************************************************************)
(* The write path implements the queue of completion blocks that its       *)
(* callers, and the module Firestore, rely on.                             *)
(***************************************************************************)
ImplementsWriteAcks == Acks!AcksSpec

(***************************************************************************)
(* Every write is answered by the backend and leaves the disk, however the *)
(* streams before failed and however often the process was restarted.      *)
(***************************************************************************)
QueueDrains ==
    \A w \in 1 .. MaxWrites :
        issued >= w ~> \A i \in DOMAIN mutationQueue : mutationQueue[i].write # w

(***************************************************************************)
(* The completion block of a write is handed over unless the process dies. *)
(***************************************************************************)
WritesReported ==
    \A w \in 1 .. MaxWrites, k \in 0 .. MaxRestarts :
        (restarts = k /\ \E i \in DOMAIN mutationQueue \ Orphans : mutationQueue[i].write = w)
            ~> (restarts > k \/ \E i \in DOMAIN reported : reported[i].write = w)
=============================================================================
