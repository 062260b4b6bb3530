# A TLA+ model of the SMSActivate SDK

SMSActivate is an iOS SDK (Swift, `src/SMSActivate/Classes`, about 1500 lines) that buys phone numbers
from sms-activate.org, waits for the verification code sent to them, and keeps the user's balance and
purchases in Cloud Firestore. A second product, renting numbers from a server of the vendor, shares the
facade and uses the Realtime Database. `src/Example/Pods` holds third-party code. Two parts of it are
modelled as well, because what the SDK may rely on is decided there: how the Firestore client gets a write
to the backend and runs its completion block, and how it shows a document with unconfirmed writes.

This directory holds the model, the runs that check it with TLC, and proofs of its main safety properties
with TLAPS.

## 1. The system

| Component | State | Operations | Talks to |
|---|---|---|---|
| `SMSActivate`, `Constant` | configuration, cached balances | `init`, `checkInit`, `publicInit`, thin wrappers for the host | everything below |
| `DataManager` | selected service and country, catalogue | select, unselect, `startActivation` | `ActivationNetworkManager`, `AuthManager` |
| `AuthManager`, session | `currentActivation`, `timer`, `isTimerRunning`, `duration` | `startPurchase`, `startTimer`, `stopTimer`, `checkNumber`, `finishOrder`, `cancelOrder`, `cancelOrderByUser` | `ActivationNetworkManager`, Firestore |
| `AuthManager`, balance | `Constant.userBalance` (a cache), document `users/<authID>` | `updateUserBalance`, `fetchUserBalance`, `initUser`, `updateFCMToken` | Firestore |
| `AuthManager`, records | `userNumbers`, collection `users/<authID>/purchases` | `initNumberPurchase`, `updateNumberPurchase`, `fetchNumberPurchases` | Firestore |
| `ActivationNetworkManager` | none | `buyNumber`, `getStatus`, `setStatus` | sms-activate.org over HTTP |
| `RentManager` | services, countries, selection, `Constant.userRentBalance` | `fetchServices`, `getData`, select, unselect, `rentNumber`, `cancelRent`, `savePurchase`, `fetchUserBalance` | `RentNetworkManager` |
| `RentNetworkManager` | the token, on disk | `login`, `getServices`, `getBalance`, `rent`, `cancel`, `savePurchase` | the rent server over HTTP |
| `AuthManager.fetchUserRent` | `userRentNumbers` | an observer per login | Realtime Database |
| Firestore client, write path | mutation queue on disk, pipeline, write stream, timers, completion blocks | `WriteMutations`, the stream's callbacks, idle and backoff timers, restarts | Firestore backend |
| Firestore client, local view | cache of remote documents, overlay, mutation queue | `WriteLocally`, `AcknowledgeBatch`, `RejectBatch`, `ApplyRemoteEvent`, `GetDocument` | Firestore backend |
| `ResourceManager` | none | images, JSON files | the bundle |

What makes it hard. Alamofire runs its response closures on the main queue, Firestore and the Realtime
Database their blocks too, and the timer fires on the main run loop. So a handler is never interrupted,
but between a request and its closure anything may happen: other answers in any order, ticks, host calls,
another `init`, the death of the process. The code captures some values when a request is sent and reads
others when the answer arrives. The balance is a read-modify-write over a cache. Nothing of the session is
persistent. Requests and answers may be lost and are repeated by the timer. Singletons copy the
configuration when they are first used. Inside the Firestore client one worker queue serializes all
handlers, but they call each other (closing a stream may reject a write, refill the pipeline and start the
stream again), responses carry no batch id, and streams, credentials and timers outlive what they were
started for.

What makes it correct: the session's variables agree; a purchase record says no more than the service has
confirmed and is closed once; a refund goes to a cancelled order, once; an order that a crash has left half
done is not charged or refunded a second time; balance changes are not lost when
they do not overlap; caches and lists settle on what is stored; a session ends; every `init` reports once;
the list of rents belongs to the account that is logged in; every completion block is told the truth about
its own write; a reader sees its own writes. The hazards behind these are listed in `PROJECT.json` with
their lines.

## 2. The modules

### Activation

`Firestore` (external, with the documents the SDK keeps). The client library and its backend as
`AuthManager` uses them. A write changes the local view at once and leaves a completion block in
`unacked`; the backend acknowledges writes in order (`Acknowledge`); a read is performed some time after
it is issued, sees the pending writes, and may fail (`FinishRead`); completion blocks wait in `callbacks`
in the order the library produced them. A restart keeps documents and pending writes and loses blocks and
reads (`LoseMemory`). One device writes the documents and no security rule refuses a write, so an
`updateData` fails exactly when its document is missing. These assumptions are what `WritePipeline` and
`LocalStore` are about.

`UserBalance`. `updateUserBalance` (`UpdateUserBalance`, `BalanceWritten`), `fetchUserBalance`
(`BalanceFetched`), `initUser`, `updateFCMToken`, `addBalance`, and another `init` in a running process
(`PublicInit`). Three history variables: `ledger`, the sum of the changes requested; `serial`, false once
a change has overlapped other balance traffic, hit a missing document or followed a failed fetch; `missed`,
the data whose last change nobody refetched. `BalanceSpec` runs it alone, with charges and refunds at any
time.

`SmsProvider`. The three requests of `ActivationNetworkManager`, each in a slot of `http` with what its
closure captured, and the service (external). An order is unsold, waiting, received, finished or cancelled.
Which states it can be finished or cancelled from, and whether a repeated `setStatus` is confirmed again,
are constants, because the code does not say; each run states its choice. The verification code of an
order is represented by the order's id.

`Activation` extends both and composes them: selection, `startActivation` and its closure, the timer,
polling, finishing, cancelling, the records and the list.

| Code | Action |
|---|---|
| `DataManager.startActivation` | `StartActivation`; closure: `NumberBought`, `NumberTraps` (a force unwrap of nil), `NumberRefused` |
| timer block of `startTimer` | `Tick` (`TimerFires`, `CheckNumber`, `CancelOrder`) |
| closure in `checkNumber`, with `finishOrder` | `StatusReceived` |
| closure in `finishOrder` | `OrderFinished` |
| closures in `cancelOrder`, `cancelOrderByUser` | `OrderCancelled`, `CancelRefused` |
| `cancelOrderByUser` | `CancelOrderByUser` |
| blocks of `initNumberPurchase`, `updateNumberPurchase`, `fetchNumberPurchases` | `PurchaseWritten`, `PurchasesFetched` |
| `select…`, `unselect…` | `Select` |
| end of the process and next launch | `Restart`; between the two writes of a closure: `KilledAfterCharge`, `KilledAfterClose` |

The list `userNumbers` is a function from order ids instead of a sorted array; number, image and date
fields, notifications and the texts given to the host are left out. The timer's period is abstracted: a
tick may come at any time.

A closure is one action, since nothing interrupts it on the main queue, with one exception. It charges and
records a sale, or closes and refunds a cancellation, with two writes, each a transaction of its own that the
library's worker queue stores in order. A process may die when none, one or both are stored. `Restart` is the
first case (the answer is lost with the process) and the last; `KilledAfterCharge` and `KilledAfterClose` are
the one between. Assumed is that the worker queue has stored the writes of a closure before the main queue
has gone through the next request and its answer over the network.

`OrderBook` is the abstract specification of buying numbers: the status of each order and the balance the
user is entitled to. An order costs 1 when it is opened, cancelling it gives the 1 back, a closed order
never changes. A crash may do half of the first (`ChargeOnly`: charged, recorded nowhere) or half of the
second (`CloseOnly`: cancelled, not refunded); such an order is final, it is neither mended nor charged or
refunded again. `Activation` implements it (`ImplementsOrderBook`) with the ledger as the credit and, as the
book, the statuses of the purchase records together with the history variables `charged` and `refunds`, which
tell the half-done orders. What the refinement says beyond the invariants is in which order money and record
change: no order is recorded before its charge or refunded before its record is closed, whenever the process
dies.

### Renting and initialisation

`RentClient`: `SMSActivate.init` with `checkInit` and `publicInit`, `RentNetworkManager`, `RentManager`
and `fetchUserRent`.

| Code | Action |
|---|---|
| `SMSActivate.init` | `NewSMSActivate`: `InitFails`, `InitThrows` (a path with an empty `authID`), `InitSucceeds` (no rent), `InitLogsIn` |
| first use of `AuthManager.shared` | `Capture`; by a call on the object of a failed init: `UseFailedObject` |
| closure of `login` | `LoginSucceeded`, `LoginFailed` |
| `fetchServices` | `ServicesAnswered` (`EntryOf`, `CountriesListed`), `ServicesTrap` (a field it unwraps is missing) |
| `getData`, `getCountries` | `GetRentData` |
| selection | `SelectRent`; any service or country, listed or not |
| `rentNumber`, `cancelRent`, `savePurchase` | `RentNumber`, `CancelRent`, `SavePurchase`; closures `HostCallSucceeded`, `HostCallFailed` |
| `RentManager.fetchUserBalance` | `FetchUserBalance`, `BalanceAnswered` |
| observers of `users/<authID>/codes` | `CachedEvent`, `SnapshotArrives`, `RentsFetched`, `RentsTrap` (a record that is no dictionary or has no time) |

Requests are answered in any order and their closures run in any order. The rent server and the two
databases are external: the server knows a user by the token (represented by the user), takes 1 for a
number and returns it on cancellation. Calls need an `SMSActivate` object and nothing else: they may come
before the login is answered, with the token an earlier process stored. The array `countries` is refilled for
every service of an answer within one closure, so that only what the last service leaves in it can be seen.
Constants name what a host does beyond one careful init
(`switchesUser`, `badConfig`, `usesFailedObject`) and what fails (`lostAnswer`, `noToken`, `missingField`,
`badRecord`, `restart`). `RentNetworkManager` copies the rent URL at its first use; requests to a wrong one
are among those that are refused (`Refuse`).
History variables record notifications, inits, the users named, whether one login alone decides the token
(`mixed`), and whether some change of the balance will not be fetched (`missed`; `answeredBefore` orders
the balance answers that wait).

### The Firestore client

`WritePipeline` models `RemoteStore`'s write half, `Stream`, `WriteStream`, the LevelDB mutation queue and
`SyncEngine`'s callbacks. A handler is one step, and handlers call each other, so the state of
`RemoteStore` and its stream is one record `remote`, and each method a function from one value of it to
the next (`Close` calls `OnWriteStreamClose`, which calls `HandleWriteError`, `FillWritePipeline`, `Start`).
`failed` is set where a `HARD_ASSERT` of the code does not hold. Assumed of gRPC and the backend: requests
of a stream that is closed are dropped unless they were served, responses are delivered before the status
that ends a stream, the backend refuses a write by ending the stream with a permanent error after the
handshake and never ends a stream with OK, answers parse. `Healthy` and `Open` are one state and the
stream token is left out, since neither decides anything here.

`WriteAcks` is what the client promises about completion blocks: each runs at most once, in the order the
writes were issued, and is told what the backend decided; a process that dies takes its blocks with it.
`WritePipeline` implements it (`ImplementsWriteAcks`), with the blocks of batches still on disk as those
that wait. `Firestore` has the same queue (`Acknowledge`, `Arrives`, `LoseMemory`).

`LocalStore` models one document: the cached remote document, the pending batches, and the overlay, a
mutation on disk that stands for all of them, with `WriteLocally`, `AcknowledgeBatch`, `RejectBatch`,
`ApplyRemoteEvent`, the view, `LoadNextBatchIdFromDb` and restarts. The SDK's two mutations are modelled,
`setData` and `updateData`. The backend answers batches in order, snapshots are taken at any time and
arrive at any later time. `promised` is the document with every write of the device; it becomes `Nil` when
the backend refuses a valid write or carries out one of another device.

Definitions whose comment begins with "Mutant" are plausible bugs. They are used by no specification; each
shows that a property is violated when it takes the place of the definition after it. The `MC` modules give
the constants their values; the modules named `…Proofs` hold the theorems.

## 3. The runs

| Run | Shows | Instance |
|---|---|---|
| `orders` | types, `SessionConsistent`, `RecordsMatchProvider`, `RefundsBacked`, `ClosedRecordsStay`, `ImplementsOrderBook` | two orders, two requests, lost answers, restarts, deaths between two writes; the host selects, buys and cancels at any time, tops up, calls `initUser` and makes a second init |
| `serial` | `NoOrderForgotten`, `NoTrap`, `RecordDescribesOrder`, `SessionResolves` | fairness, two orders, two services, two requests, lost answers; the host waits for each purchase and each order |
| `records` | `SerialUpdatesExact`, `CacheSettles`, `ListSettles` | one order, one request, Firestore answering, failed fetches, restarts, repeated init, token updates |
| `balance` | types, `SerialUpdatesExact`, `CacheSettles` | balances within -3..3, four operations on their way, missing document, failed fetches, restarts, every host call |
| `catalogue` | `TrapsOnlyUnnamed`, `InitReported`, `TokenOfLogin`, `ListOwnedByLogin`, `RentListSettles` | two inits of two users, complete or not, three requests, a service without countries that is selected before or after it is listed, a rented number of either user, logins without a token, restarts |
| `rents` | types, `RentBalanceSettles` | one user, one number, one service, three requests, lost answers, a catalogue and records that trap |
| `live` | `RentCallsComplete`, `InitsReport`, `RentListConverges` | fairness, one user, one number, three requests, two inits, cancellations |
| `streams` | types, `NoAssertionFails`, `PipelineHoldsOldest`, `ReportedTruthfully`, `LastWriteStands`, `ImplementsWriteAcks`, `QueueDrains`, `WritesReported` | fairness, four writes of which two are refused, a pipeline of two, three faults per process, two restarts |
| `ownwrites` | types, `OwnViewIsReplay`, `OwnWritesSeen`, `OverlayOfNewest` | two fields, two values, three batches, versions to 4, refusals, another device, lost answers, restarts |
| `trap`, `code`, `undone` | violations, section 5 | |

Bounds, activation. Two orders are enough for a late answer of one to meet the session of the other, and
two requests for a finish and a cancel, two cancels, or a late poll and a cancel to be on their way
together; the theorems of section 4 cover any number. `Timeout` is 1 or 2 instead of 600: both branches of
the timer are taken. In the runs about orders Firestore does not answer (`FirestoreOnline = FALSE`), since
no handler of the session reads what Firestore returns; `records` covers the other side, with one order and
one request. A service that confirms a repeated cancellation (`RepeatAccepted`) is left to the theorems.
`MaxBalance` bounds what the host adds, `MaxOutstanding` the writes and reads beyond which it waits; in
`orders` they are 1 and 2, so that one top-up, a reset or a second init falls into any place of a session.

Bounds, renting. A closure of login needs one slot more than its own, so a call or a login is sent only while
two slots are free (`Room`). The three slots of every run let two logins race, a login meet the two requests
of an earlier one, a call overlap a balance request, and two balance answers wait at once in either order
(`rents`). In `live` calls overlap each other and the requests of a second login; the calls are cancellations,
accepted or refused, which keeps the temporal check small. Renting, buying balance and lost answers are in
`rents`, where their closures run in every order. Two inits are enough for one to run into the other and for
two observers. One number is enough for a list that is not emptied; that several are sorted is
`NewestFirstSorts`. `MaxRentBalance` is 1 where numbers are bought: one can be bought, cancelled and paid
again. A run that is not about the catalogue has an empty one.

Bounds, Firestore client. A pipeline of two with four writes is full, refilled and emptied; three faults
per process (`MaxCloses`) let a stream fail before its handshake, after it, and once more on the retry.
Batch ids run to 3, versions to 4: a batch can be sent twice with another behind it.

Symmetry sets permute orders, requests, users and rented numbers, in runs without liveness properties only.
`CHECK_DEADLOCK FALSE` stands where the bounds, a trapped process or an idle client end a behaviour.

`serial` stands on three assumptions that the other runs drop: the host does not touch the selection
during a purchase and does not start an order while one is running; the service accepts a `setStatus`
once; the process lives. With repeats confirmed, a second closure of an earlier order stops the next
session; with a selection changed during a purchase the record names a service that was not bought
(`DataManager.swift:48-50` reads the title and the country when the answer arrives).

Fairness. `FairSpec`: the main run loop of a foreground app runs waiting closures (weak fairness of
`Answer`) and fires the timer. The service answers each request, or the HTTP timeout ends it (weak fairness
of `Served`). `Tick` is strongly fair only because the bound on `Requests` can disable it for a moment; the
real timer is never blocked. `SF(CancelAccepted)` is the one assumption about the service: it does not
refuse for ever to cancel an order it may cancel. In `serial` the service cancels waiting orders only, and
one case is left over: a session whose code arrived after the last poll that was answered stays at
`duration = 0` and sends a cancel every second that is never accepted (`Stranded`). `RentFairness`:
requests are answered or time out, and the main queue runs closures and database events; nothing is assumed
of the host. `PipelineFairness`: the worker queue runs what is in it, credentials arrive, the backoff ends
and the backend answers what an open stream has sent; the bound on faults stands for a network that in the
end stays up.

## 4. What is proved

Eight modules hold theorems. Each is about every value of the constants its `ASSUME`s allow: any sets of
orders, services, countries, users and requests, any host and combination of faults.

| Module | Theorem | States |
|---|---|---|
| `ActivationProofs` | `TypeCorrect` | `Spec => []TypeOK` |
| | `SessionAgrees` | `Spec => []SessionConsistent` |
| | `RecordsSound` | `Spec => []RecordsMatchProvider` |
| | `RefundsSound` | `Spec => []RefundsBacked` |
| | `ClosedForGood` | `Spec => ClosedRecordsStay` |
| `OrderBookProofs` | `OrderBookImplemented` | `Spec => ImplementsOrderBook` |
| `UserBalanceProofs` | `BalanceTyped`, `SerialExact`, `CacheConverges` | `BalanceSpec => []` of `BalanceTypeOK`, `SerialUpdatesExact`, `CacheSettles` |
| `SettlingProofs` | `OrdersChargeExactly` | `Spec => [](SerialUpdatesExact /\ CacheSettles)` |
| | `ListConverges` | `Spec => []ListSettles` |
| `SerialHostProofs` | `SerialHostNeverTraps`, `SerialHostRecordsTruth` | if `HostSerial`, `Spec => []` of `NoTrap`, `RecordDescribesOrder` |
| | `SerialHostForgetsNoOrder` | if `HostSerial`, `~RepeatAccepted` and no restarts, `Spec => []NoOrderForgotten` |
| `WritePipelineProofs` | `PipelineTyped`, `AssertionsHold`, `OldestHeld`, `BlocksToldTruth`, `LastStands` | `PipelineSpec => []` of `PipelineTypeOK`, `NoAssertionFails`, `PipelineHoldsOldest`, `ReportedTruthfully`, `LastWriteStands` |
| | `WritesAcknowledged` | `PipelineSpec => ImplementsWriteAcks` |
| `LocalStoreProofs` | `StoreTyped`, `OverlaysEnd`, `ViewReplays`, `OwnWritesShown` | `StoreSpec => []` of `StoreTypeOK`, `OverlayOfNewest`, `OwnViewIsReplay`, `OwnWritesSeen` |
| `RentClientProofs` | `RentTyped`, `InitsCounted`, `TokenDecided`, `ListOwned`, `RentListAgrees`, `RentBalanceAgrees` | `RentSpec => []` of `RentTypeOK`, `InitReported`, `TokenOfLogin`, `ListOwnedByLogin`, `RentListSettles`, `RentBalanceSettles` |
| | `TrapsExplained` | if nothing is missing in the data (neither `missingField` nor `badRecord`), `RentSpec => []TrapsOnlyUnnamed` |
| | `NewestFirstSorts` | `NewestFirst` lists every rent of a snapshot, the newest first, when no two were sold at one time |

The assumptions are the named `ASSUME`s of the modules: `Nil` is no order, service, country, token,
value, overlay or field mask, the bounds are naturals, a finish or cancel is accepted only from an open
state, the rented numbers and the requests on their way are finitely many, and every write of a document is
a `setData` or an `updateData`. `SerialHostProofs` takes the three
assumptions of the run `serial` as hypotheses of its theorems; without them section 5 and the end of section 3
say what happens.

`ActivationProofs`. None of the last three is inductive: a closure that has not run yet may still write a
record or a refund. The inductive invariant `IInv` therefore says what the answers on their way prove.
Requests about an order name one (`RequestsNamed`); a sale that is not recorded yet has no record, and no
two requests carry the same sale (`SalesUnrecorded`, `SoldOnce`), so a new record never replaces a closed
one; a confirmed finish or cancel has closed its order at the service (`AnswersBacked`), and a closed order
stays as it is, so two confirmations never contradict each other; if repeats are not confirmed, at most one
confirmed cancel of an order is on its way, and only while nothing was refunded (`CancelledOnce`). One
lemma per group of actions shows that a step keeps it.

`OrderBookProofs` needs five more facts (`BookInv`): the session's order has a record; every status, finish
or cancel request names an order that has one; only a record that says "8" was refunded (`RefundsRecorded`);
an order that is closed and not refunded is neither the session's nor that of any request on its way, because
the process that closed it is gone (`UnrefundedForgotten`); and an order whose sale is still to be handled has
not been charged (`ChargedOnce`). It then maps each closure to the book's action, `KilledAfterCharge` and
`KilledAfterClose` to the halves of a crash, and every other step to a stutter, a top-up or a reset.

`UserBalanceProofs` and `SettlingProofs`. Both need to know what the blocks on their way bring.
`SerialInv`: while changes have not overlapped, every acknowledgement is a success, every fetched balance in
the main queue is the stored one, and with nothing on its way so is the cache; the next change therefore
starts from the stored balance. `CacheInv`: unless a change will not be refetched, a read is still to come,
or the last result in the main queue is the stored balance, or the queue holds no result and the cache is
the stored balance. `SettlingProofs` shows that the steps of `Activation` keep the same invariant, and has
the analogous `ListInv` for the collection of purchases; the case of its own is an empty collection, which
the code reports as a failed fetch, so that the list is only right because nothing was ever in it
(`EmptyShown`).

`SerialHostProofs`. `SerialHostInv`: at most one purchase is on its way, with the selection it was sent with
still in place and no session running, and what was sold is what was asked. So the force unwraps find what
they unwrap, and the record names it. `WaitInv` adds that an accepted finish or cancel is about an order whose
record still waits, and is the only one about it: its closure then closes the session's own order.

`WritePipelineProofs`. `PipelineInv` describes the whole exchange. Batches on disk are numbered upwards and
without gaps (`QueueInv`); the pipeline is the front of the queue, as far as it fits (`IsFilled`); on an open
stream the responses followed by the requests are the writes of the pipeline in order, and a stream that
ended with a permanent error did so at the first write that was not answered (`Exchanges`, `Greets` before
the handshake); a stream that is not open has nothing in flight, and one that is not started has nothing to
send (`StreamInv`). Responses carry no batch id, so it is this order that lets `BlocksToldTruth` hold. The
document on the backend holds the last write answered, or one still on disk that was carried out and will be
sent again (`StoredInv`). Batches of earlier processes have no block and come first in the queue
(`CallbacksInv`), which gives the refinement of `WriteAcks`. Handlers are functions on `remote`, so the
lemmas follow the calls: what `FillWritePipeline`, `Close`, `HandleWriteError` and `EnableNetwork` return for
a store as the invariant has it.

`LocalStoreProofs`. `OverlayOfNewest` is inductive once it is known that answers belong to pending batches
and that a saved overlay has no precondition: then a write always extends an overlay that exists
(`LocalStays`), and only the batch an overlay is named after can be the last one.
The other two safety properties compare the overlay with the whole queue, which needs an induction over the
positions of the queue. The library's induction theorems are out of the provers' reach, but its least element
of a well-founded order is a fact about sets: `InductionTo` gets induction from it by a least counterexample,
`ReplayedSteps` shows that `Replayed` computes one view per position, and `ReplayedShows`, `ReplayedMask`,
`ReplayedNoMask` and `ReplayedNothing` say what the last of them is: a document whose fields hold the last
write that names them, or the cached value where none does. `HistoryInv` orders the versions of the cached
document, the snapshot and the answers, and says that an old snapshot never takes a document that exists for
missing. `ReadInv` adds what a device whose writes stand can rely on: a document as new as the answer to the
i-th pending batch agrees with the promised one in every field that no later batch writes (`Carries`: of the
backend's document, of a snapshot that would be accepted, of the cached one); only an update of a missing
document is refused (`OnlyMissingRefused`); the overlay shows the promised document, whole, or in the fields
it names while no pending batch writes another (`OverlayShows`); batch ids increase, so that an answer removes
an overlay only with the last batch (`OverlayGoesLast`). `WriteLocally` extends the overlay by one mutation,
`ApplyRemoteEvent` and `RejectBatch` make it anew from the queue; the lemmas `OwnWrite`, `OwnAcknowledge`,
`OwnReject`, `OwnRemoteEvent`, `OwnDecide` and `OwnLost` show that every action keeps `ReadInv`.

`RentClientProofs`. Invariants, each using the ones before. `TypedInv`: types, and no two numbers of any
snapshot were sold at the same time, which makes `NewestFirst` a sort that lists no number twice.
`CatalogueInv`: a listed service has an entry, with or without `supportedCountry`, and a selection is set
together with its flag, so that `getCountries` unwraps nil only for a service that is not listed.
`LoginInv`: logins on their way are of the user who decides the token. `AccountInv`: `AuthManager` keeps the
first user it saw, and every snapshot and the list hold that user's numbers only. `NewestEventInv`: the last
event that waits is what the database has told. `RentBalanceInv`: unless a change will not be fetched, a
balance request is on its way, or the newest answer (`answeredBefore`) carries the server's balance, or
there is none and the cache does.

Model-checked only:

- liveness (`SessionResolves`, `RentCallsComplete`, `InitsReport`, `RentListConverges`, `QueueDrains`,
  `WritesReported`), which is outside what the prover supports;
- the violations of section 5, which are counterexamples.

## 5. Where the code disagrees with what it says

- `trap`: the closure of `startActivation` unwraps the selection (`DataManager.swift:48`), which the host, or
  the closure of an overlapping purchase, may have cleared. The process ends after the number is bought and
  before it is charged or recorded.
- `code`: `finishOrder` finishes whichever order is current when a poll is answered
  (`AuthManager.swift:119`). A poll of order A answered after A was finished and B was started closes B with
  A's code, although the text for the user (`ActivationModel.swift:113`) says it is the code of B.
- `undone`: the view of a document is said to be "computed by applying the mutations in the MutationQueue to
  the RemoteDocumentCache" (`local_documents_view.h:49`). After the backend has refused a `setData` of a
  document that is not in the cache, an overlay that also contains a later `updateData` stays (`RejectBatch`
  removes overlays of its own batch only, and the recalculation saves nothing), and the reader is shown the
  refused document until the update is answered. With another device the sentence fails as well: the first
  `updateData` of a document is saved as a set of the whole document, which hides the other device's change
  of another field. `OwnViewIsReplay` states when it is true.

Narrower facts are visible in conditions of properties. `ImplementsOrderBook`: a process that dies between
the two writes of a closure leaves an order that is charged and recorded nowhere, or cancelled and never
refunded (`ChargeOnly`, `CloseOnly`). `TrapsOnlyUnnamed`: a host that reads a list on the object of an init
that failed for an empty `authID` makes `AuthManager` keep the empty `authID`, and the next, correct init
throws for the path `users/`; and a host that selects a service that no answer has listed, which the type of
`selectRentService` allows, and reads the countries makes `getCountries` unwrap nil. `TokenOfLogin` and
`ListOwnedByLogin`: a login answered without a token keeps the token of an earlier user, and two logins that
overlap leave the token of the one answered last.

## 6. Not modelled

- `ResourceManager`, the data classes' texts and images, the catalogue's filters (`getData` compares search
  texts; the catalogue itself is loaded once and constant), notifications other than those of `init`, and
  completion texts: no state of their own.
- The Firestore client's read path (watch stream, online state, listeners): it decides when a read is
  answered and whether from the cache, and `Firestore` allows a read to finish at any time or to fail.
  Queries, transactions, deletes, transforms, garbage collection and user changes are not used by the SDK.
- Malformed answers other than those that trap (`missingField`, `badRecord`), and Firestore security rules.
  Other devices and refusals appear in `LocalStore` only.
- The other pods (gRPC, BoringSSL, abseil, leveldb, Alamofire, the rest of Firebase), about 845000 lines of C
  and C++ that the SDK links and never decides about, and the example app.

## 7. Plan

1. Action properties of the Firestore client: a batch leaves the disk only from the front, and a completion
   block is handed over at most once.
2. Which of the conditions in `TokenOfLogin`, `ListOwnedByLogin` and `SerialUpdatesExact` a host can meet by
   its own calls alone: state the serial host for `UserBalance` and `RentClient` too, and prove that `serial`
   and `~mixed` hold for it.
