------------------------------ MODULE LocalStore -------------------------------
(***************************************************************************)
(* How the Firestore client library shows a document that has been written *)
(* and not yet confirmed: the mutation queue, the cache of remote          *)
(* documents, and the overlay, a mutation saved on disk that stands for    *)
(* all pending mutations of the document.  One document is modelled, which *)
(* is all the code lets interact: users/<authID> or one purchase.          *)
(*                                                                         *)
(* The SDK uses two mutations: setData replaces the document, updateData   *)
(* changes the fields it names and requires that the document exists.      *)
(* Every operation is one transaction on the library's worker queue.       *)
(***************************************************************************)
EXTENDS Integers, Sequences, SequencesExt

CONSTANTS
    Fields,         \* fields of the document
    Values,         \* values of a field
    Nil,            \* an absent field, overlay or field mask
    Updates,        \* the setData and updateData calls that may be issued
    MaxBatchId,     \* bound on the batch ids a process hands out
    MaxVersion,     \* bound on versions at the backend
    StoreFaults     \* what may happen in this instance beside one device's writes

VARIABLES
    remoteDocument,  \* the entry of the RemoteDocumentCache
    mutationQueue,   \* pending batches, by increasing batch id
    nextBatchId,
    overlay,         \* the entry of the DocumentOverlayCache
    server,          \* the backend's document
    results,         \* answers to the oldest batches that have not arrived yet
    snapshot,        \* a watch snapshot that has not arrived yet
    promised         \* history: the document with every write of this device, Nil as soon as
                     \* the backend has refused one or carried out another device's

storeVars == <<remoteDocument, mutationQueue, nextBatchId, overlay, server, results, snapshot,
               promised>>

-----------------------------------------------------------------------------
(***************************************************************************)
(* Documents and mutations.                                                *)
(***************************************************************************)
Data == [Fields -> Values \cup {Nil}]

NoData == [f \in Fields |-> Nil]

Document == [kind : {"invalid", "found", "none", "unknown"}, version : Nat, data : Data,
             state : {"synced", "local", "committed"}]

InvalidDocument == [kind |-> "invalid", version |-> 0, data |-> NoData, state |-> "synced"]

Mutation == [type : {"set", "patch"}, data : Data, mask : (SUBSET Fields) \cup {Nil},
             exists : BOOLEAN]

SetMutation(data) == [type |-> "set", data |-> data, mask |-> Nil, exists |-> FALSE]

PatchMutation(data, mask, exists) ==
    [type |-> "patch", data |-> [f \in Fields |-> IF f \in mask THEN data[f] ELSE Nil],
     mask |-> mask, exists |-> exists]

\* setData replaces the document, updateData needs one and names the fields it changes.
IsSetData(mutation) == mutation.type = "set" /\ ~mutation.exists
IsUpdateData(mutation) == mutation.type = "patch" /\ mutation.mask # Nil /\ mutation.exists

Overlay == [largestBatchId : Nat, mutation : Mutation]

ASSUME LocalStoreAssumption ==
    /\ Nil \notin Values /\ Nil \notin Overlay /\ \A mask \in SUBSET Fields : mask # Nil
    /\ Updates \subseteq Mutation
    /\ \A mutation \in Updates : IsSetData(mutation) \/ IsUpdateData(mutation)
    /\ {MaxBatchId, MaxVersion} \subseteq Nat
    /\ StoreFaults \subseteq {"refused", "otherDevice", "lostResults", "restart"}

Batch == [id : Nat, mutation : Mutation]

Result == [ok : BOOLEAN, version : Nat]

(***************************************************************************)
(* The types of the local store's state.                                   *)
(***************************************************************************)
StoreTypeOK ==
    /\ remoteDocument \in Document
    /\ mutationQueue \in Seq(Batch) /\ nextBatchId \in Nat
    /\ overlay \in Overlay \cup {Nil}
    /\ server \in Document
    /\ results \in Seq(Result) /\ Len(results) <= Len(mutationQueue)
    /\ snapshot \in Document \cup {Nil}
    /\ promised \in Document \cup {Nil}

IsValidFor(mutation, doc) == mutation.exists => doc.kind = "found"

\* The data of a document after a mutation.
Applied(mutation, data) ==
    IF mutation.type = "set"
    THEN mutation.data
    ELSE [f \in Fields |-> IF f \in mutation.mask THEN mutation.data[f] ELSE data[f]]

ApplyToLocalView(mutation, doc) ==
    IF ~IsValidFor(mutation, doc) THEN doc
    ELSE [kind |-> "found", version |-> 0, data |-> Applied(mutation, doc.data), state |-> "local"]

\* The fields changed so far, Nil when a set is among the mutations.
MergedMask(mutation, doc, mask) ==
    IF ~IsValidFor(mutation, doc) THEN mask
    ELSE IF mutation.type = "set" \/ mask = Nil THEN Nil ELSE mask \cup mutation.mask

ApplyToRemoteDocument(mutation, doc, version) ==
    IF ~IsValidFor(mutation, doc)
    THEN [kind |-> "unknown", version |-> version, data |-> NoData, state |-> "committed"]
    ELSE [kind |-> "found", version |-> version, data |-> Applied(mutation, doc.data),
          state |-> "committed"]

\* The mutation that stands for the changes of a document with local mutations.
CalculateOverlayMutation(doc, mask) ==
    IF mask = Nil THEN SetMutation(doc.data) ELSE PatchMutation(doc.data, mask, FALSE)

-----------------------------------------------------------------------------
(***************************************************************************)
(* The overlay.  SaveOverlays writes it and never removes one.             *)
(***************************************************************************)
SaveOverlay(id, doc, mask, old) ==
    IF doc.state # "local" THEN old
    ELSE [largestBatchId |-> id, mutation |-> CalculateOverlayMutation(doc, mask)]

\* Mutant: an overlay is not removed with its batch.
KeepOverlays(id) == overlay

RemoveOverlaysForBatchId(id) ==
    IF overlay # Nil /\ overlay.largestBatchId = id THEN Nil ELSE overlay

\* The document with its overlay, and the fields the overlay changes.
ComputeView(doc) ==
    IF overlay = Nil THEN [doc |-> doc, mask |-> Nil]
    ELSE [doc |-> ApplyToLocalView(overlay.mutation, doc), mask |-> overlay.mutation.mask]

\* One more mutation on a view.
Replay(mutation, view) ==
    [doc  |-> ApplyToLocalView(mutation, view.doc),
     mask |-> MergedMask(mutation, view.doc, view.mask)]

\* All pending mutations applied to a document.
Replayed(queue, doc) ==
    LET view[n \in 0 .. Len(queue)] ==
            IF n = 0 THEN [doc |-> doc, mask |-> {}] ELSE Replay(queue[n].mutation, view[n - 1])
    IN  view[Len(queue)]

RecalculateAndSaveOverlays(queue, doc, old) ==
    LET view == Replayed(queue, doc)
    IN  IF queue = <<>> THEN old
        ELSE SaveOverlay(Last(queue).id, view.doc, view.mask, old)

\* What a reader is shown.
GetDocument ==
    LET base == IF overlay = Nil \/ overlay.mutation.type = "patch" THEN remoteDocument
                ELSE InvalidDocument
    IN  IF overlay = Nil THEN base ELSE ApplyToLocalView(overlay.mutation, base)

-----------------------------------------------------------------------------
(***************************************************************************)
(* Either the document has been fetched in an earlier session or the cache *)
(* is empty.                                                               *)
(***************************************************************************)
StoreInit ==
    /\ \E kind \in {"found", "none"}, data \in Data :
          /\ kind = "none" => data = NoData
          /\ kind = "found" => \A f \in Fields : data[f] # Nil
          /\ server = [kind |-> kind, version |-> 1, data |-> data, state |-> "synced"]
    /\ remoteDocument \in {server, InvalidDocument}
    /\ mutationQueue = <<>> /\ nextBatchId = 1
    /\ overlay = Nil
    /\ results = <<>> /\ snapshot = Nil
    /\ promised = server

\* Mutant: the overlay is computed from the cached document instead of the local view.
LocalBaseIsRemote == [doc |-> remoteDocument, mask |-> Nil]

LocalBase == ComputeView(remoteDocument)

WriteLocally(mutation) ==
    /\ nextBatchId <= MaxBatchId
    /\ LET base == LocalBase
           doc  == ApplyToLocalView(mutation, base.doc)
           mask == MergedMask(mutation, base.doc, base.mask)
       IN  overlay' = SaveOverlay(nextBatchId, doc, mask, overlay)
    /\ mutationQueue' = Append(mutationQueue, [id |-> nextBatchId, mutation |-> mutation])
    /\ nextBatchId' = nextBatchId + 1
    /\ promised' = IF promised = Nil THEN Nil ELSE ApplyToLocalView(mutation, promised)
    /\ UNCHANGED <<remoteDocument, server, results, snapshot>>

\* A result that a snapshot has overtaken is in the cached document already.
NewerThanCached(doc, version) == doc.version < version

\* Mutant: an answer is kept and used again for the next batch.
AcknowledgeAgain ==
    /\ results # <<>> /\ Head(results).ok
    /\ overlay' = RemoveOverlaysForBatchId(Head(mutationQueue).id)
    /\ mutationQueue' = Tail(mutationQueue)
    /\ UNCHANGED <<remoteDocument, nextBatchId, server, results, snapshot, promised>>

AcknowledgeBatch ==
    /\ results # <<>> /\ Head(results).ok
    /\ LET batch == Head(mutationQueue)
           version == Head(results).version
       IN  /\ remoteDocument' =
                  IF NewerThanCached(remoteDocument, version)
                  THEN ApplyToRemoteDocument(batch.mutation, remoteDocument, version)
                  ELSE remoteDocument
           /\ overlay' = RemoveOverlaysForBatchId(batch.id)
    /\ mutationQueue' = Tail(mutationQueue)
    /\ results' = Tail(results)
    /\ UNCHANGED <<nextBatchId, server, snapshot, promised>>

RejectBatch ==
    /\ results # <<>> /\ ~Head(results).ok
    /\ LET batch == Head(mutationQueue)
       IN  overlay' = RecalculateAndSaveOverlays(Tail(mutationQueue), remoteDocument,
                                                 RemoveOverlaysForBatchId(batch.id))
    /\ mutationQueue' = Tail(mutationQueue)
    /\ results' = Tail(results)
    /\ UNCHANGED <<remoteDocument, nextBatchId, server, snapshot, promised>>

\* Mutant: a snapshot replaces whatever is cached.
AcceptsOutdated(doc) == TRUE

\* PopulateDocumentChanges: is the document of the snapshot news?
AcceptsUpdate(doc) ==
    \/ remoteDocument.kind = "invalid"
    \/ doc.version > remoteDocument.version
    \/ doc.version = remoteDocument.version /\ remoteDocument.state # "synced"

ApplyRemoteEvent ==
    /\ snapshot # Nil
    /\ snapshot' = Nil
    /\ LET existenceChanged == (snapshot.kind = "found") # (remoteDocument.kind = "found")
           recalculates == existenceChanged /\ (overlay = Nil \/ overlay.mutation.type = "patch")
       IN  IF AcceptsUpdate(snapshot)
           THEN /\ remoteDocument' = snapshot
                /\ overlay' = IF recalculates
                              THEN RecalculateAndSaveOverlays(mutationQueue, snapshot, overlay)
                              ELSE overlay
           ELSE UNCHANGED <<remoteDocument, overlay>>
    /\ UNCHANGED <<mutationQueue, nextBatchId, server, results, promised>>

-----------------------------------------------------------------------------
(***************************************************************************)
(* The backend.  It decides about the batches in order; when a stream is   *)
(* lost with its answers, it is sent the batches again.  A missing         *)
(* document is reported at the version the backend has reached.            *)
(***************************************************************************)
Commit(mutation) ==
    [kind |-> "found", version |-> server.version + 1, data |-> Applied(mutation, server.data),
     state |-> "synced"]

DecideBatch ==
    /\ Len(results) < Len(mutationQueue)
    /\ \A i \in DOMAIN results : results[i].ok
    /\ LET mutation == mutationQueue[Len(results) + 1].mutation
       IN  \/ /\ IsValidFor(mutation, server) /\ server.version < MaxVersion
              /\ server' = Commit(mutation)
              /\ results' = Append(results, [ok |-> TRUE, version |-> server'.version])
              /\ UNCHANGED promised
           \/ /\ ~IsValidFor(mutation, server)
              /\ results' = Append(results, [ok |-> FALSE, version |-> 0])
              /\ UNCHANGED <<server, promised>>
           \/ /\ "refused" \in StoreFaults
              /\ results' = Append(results, [ok |-> FALSE, version |-> 0])
              /\ promised' = Nil
              /\ UNCHANGED server
    /\ UNCHANGED <<remoteDocument, mutationQueue, nextBatchId, overlay, snapshot>>

TakeSnapshot ==
    /\ snapshot = Nil
    /\ snapshot' = server
    /\ UNCHANGED <<remoteDocument, mutationQueue, nextBatchId, overlay, server, results, promised>>

LoseResults ==
    /\ "lostResults" \in StoreFaults
    /\ results # <<>>
    /\ results' = <<>>
    /\ UNCHANGED <<remoteDocument, mutationQueue, nextBatchId, overlay, server, snapshot, promised>>

OtherDeviceWrites(mutation) ==
    /\ "otherDevice" \in StoreFaults
    /\ IsValidFor(mutation, server) /\ server.version < MaxVersion
    /\ server' = Commit(mutation)
    /\ promised' = Nil
    /\ UNCHANGED <<remoteDocument, mutationQueue, nextBatchId, overlay, results, snapshot>>

\* One more than the id in the last row of the queue.
LoadNextBatchIdFromDb == IF mutationQueue = <<>> THEN 1 ELSE 1 + Last(mutationQueue).id

\* The process dies; everything but what was on its way is on disk.
RestartStore ==
    /\ "restart" \in StoreFaults
    /\ results' = <<>> /\ snapshot' = Nil
    /\ nextBatchId' = LoadNextBatchIdFromDb
    /\ UNCHANGED <<remoteDocument, mutationQueue, overlay, server, promised>>

StoreNext ==
    \/ \E mutation \in Updates : WriteLocally(mutation)
    \/ AcknowledgeBatch
    \/ RejectBatch
    \/ ApplyRemoteEvent
    \/ DecideBatch
    \/ TakeSnapshot
    \/ LoseResults
    \/ \E mutation \in Updates : OtherDeviceWrites(mutation)
    \/ RestartStore

StoreSpec == StoreInit /\ [][StoreNext]_storeVars

-----------------------------------------------------------------------------
\* What a document shows to its reader.
Shown(doc) == IF doc.kind = "found" THEN doc.data ELSE Nil

(***************************************************************************)
(* "The view is computed by applying the mutations in the MutationQueue to *)
(* the RemoteDocumentCache": the overlay, which stands for the pending     *)
(* mutations, shows the document they would make of the cached one.        *)
(***************************************************************************)
ViewIsReplay == Shown(GetDocument) = Shown(Replayed(mutationQueue, remoteDocument).doc)

(***************************************************************************)
(* What is true of it: while one device writes and the backend refuses no  *)
(* valid write, the overlay that WriteLocally extends and ApplyRemoteEvent *)
(* recalculates agrees with the replay, across answers and snapshots in    *)
(* any order, writes sent twice and restarts.                              *)
(***************************************************************************)
OwnViewIsReplay == promised # Nil => ViewIsReplay

(***************************************************************************)
(* One device whose writes are not refused sees every one of its writes    *)
(* once the document is cached, also while answers and snapshots arrive in *)
(* any order, writes are sent twice, and the process is restarted.  The    *)
(* module Firestore reads documents this way.                              *)
(***************************************************************************)
OwnWritesSeen ==
    promised # Nil /\ remoteDocument.kind \in {"found", "none"}
        => Shown(GetDocument) = Shown(promised)

(***************************************************************************)
(* An overlay carries the id of the newest pending batch, so that it goes  *)
(* when that batch has been answered and never hides the backend's         *)
(* document after the queue is empty, whatever was refused.                *)
(***************************************************************************)
OverlayOfNewest ==
    overlay # Nil =>
        /\ mutationQueue # <<>>
        /\ overlay.largestBatchId = Last(mutationQueue).id
=============================================================================
