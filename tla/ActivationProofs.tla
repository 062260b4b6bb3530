-------------------------- MODULE ActivationProofs ---------------------------
(***************************************************************************)
(* Proofs about Activation, for any orders, requests, catalogue, timeout,  *)
(* host and faults.                                                        *)
(***************************************************************************)
EXTENDS Activation, SequenceTheorems, TLAPS

(***************************************************************************)
(* The inductive invariant.  What a record may claim depends on what the   *)
(* closures that have not run yet are going to write, so the invariant     *)
(* says of every request on its way what its answer proves.                *)
(***************************************************************************)
Bought(r) == http[r].call = "getNumber" /\ http[r].reply = "ACCESS_NUMBER"

Finishes(r) == http[r].call = "finish" /\ http[r].reply = "ACCESS_ACTIVATION"

Cancels(r) == http[r].call = "cancel" /\ http[r].reply = "ACCESS_CANCEL"

\* Every request about an order, and every answer that sells one, names an order.
RequestsNamed ==
    \A r \in Requests :
        http[r].call \in {"getStatus", "finish", "cancel"} \/ http[r].reply = "ACCESS_NUMBER"
            => http[r].order \in Orders

\* A sale whose closure has not run is not recorded, and no order is sold twice.
SalesUnrecorded ==
    \A r \in Requests : Bought(r) =>
        /\ purchases[http[r].order].status = "none"
        /\ provider[http[r].order].state # "unsold"

SoldOnce ==
    \A q, r \in Requests : Bought(q) /\ Bought(r) /\ http[q].order = http[r].order => q = r

\* A setStatus that has been accepted has closed its order at the service.
AnswersBacked ==
    \A r \in Requests :
        /\ Finishes(r) => provider[http[r].order].state = "finished"
        /\ Cancels(r) => provider[http[r].order].state = "cancelled"

\* A service that accepts a cancellation once leaves one refund to make, or none.
CancelledOnce ==
    ~RepeatAccepted =>
        /\ \A r \in Requests : Cancels(r) => refunds[http[r].order] = 0
        /\ \A q, r \in Requests : Cancels(q) /\ Cancels(r) /\ http[q].order = http[r].order => q = r

CoreInv ==
    /\ RequestsNamed
    /\ SalesUnrecorded
    /\ SoldOnce
    /\ AnswersBacked
    /\ CancelledOnce
    /\ RecordsMatchProvider
    /\ RefundsBacked

IInv == TypeOK /\ SessionConsistent /\ CoreInv

-----------------------------------------------------------------------------
(***************************************************************************)
(* Type correctness.  Lemmas on the values that the actions build.         *)
(***************************************************************************)

\* A completion block left with a write is one the library knows.
LEMMA AckType ==
    ASSUME NEW kind \in {"balanceWritten", "purchaseWritten"}, NEW ok \in BOOLEAN
    PROVE  Ack(kind, ok) \in WriteAck
BY DEF Ack, WriteAck

\* The blocks of updateUserBalance and of a write of a purchase record.
LEMMA BlocksType ==
    ASSUME TypeOK
    PROVE  /\ BalanceAck \in WriteAck
           /\ \A o \in Orders : PurchaseAck(o) \in WriteAck
           /\ Ack("purchaseWritten", TRUE) \in WriteAck
<1>1. userDoc.exists \in BOOLEAN
  BY DEF TypeOK, BalanceTypeOK, FirestoreTypeOK, UserDocuments
<1>2. \A o \in Orders : (purchases[o].status # "none") \in BOOLEAN
  OBVIOUS
<1> QED
  BY <1>1, <1>2, AckType DEF BalanceAck, PurchaseAck

\* What a read returns.
LEMMA ResultType ==
    ASSUME TypeOK, NEW kind \in ReadKinds, NEW ok \in BOOLEAN
    PROVE  Result(kind, ok) \in BalanceResult \cup PurchaseResult
<1>1. /\ userDoc.exists \in BOOLEAN
      /\ userDoc.userBalance \in Int
      /\ purchases \in [Orders -> Purchase]
  BY DEF TypeOK, BalanceTypeOK, FirestoreTypeOK, UserDocuments
<1>2. CASE kind = "balance"
  <2>1. (ok /\ userDoc.exists) \in BOOLEAN
    OBVIOUS
  <2> QED
    BY <1>1, <1>2, <2>1 DEF Result, BalanceResult
<1>3. CASE kind = "purchases"
  <2>1. (ok /\ \E o \in Orders : purchases[o].status # "none") \in BOOLEAN
    OBVIOUS
  <2> QED
    BY <1>1, <1>3, <2>1 DEF Result, PurchaseResult
<1> QED
  BY <1>2, <1>3 DEF ReadKinds

\* The requests the SDK sends, and the empty slot.
LEMMA RequestType ==
    /\ Idle \in Request
    /\ \A s \in Services \cup {Nil}, c \in Countries \cup {Nil} : BuyNumber(s, c) \in Request
    /\ \A o \in Orders : GetStatus(o) \in Request /\ SetStatusCancel(o) \in Request
    /\ \A o \in Orders, c \in Orders \cup {Nil} : SetStatusFinish(o, c) \in Request
BY DEF Idle, Request, Calls, Replies, BuyNumber, GetStatus, SetStatusCancel, SetStatusFinish

\* The reads of an init.
LEMMA ReadsOfType ==
    ASSUME NEW kinds
    PROVE  ReadsOf(kinds) \in [ReadKinds -> Nat]
BY DEF ReadsOf

\* A purchase record that is created or updated stays a purchase record.
LEMMA PurchaseType ==
    /\ NoPurchase \in Purchase
    /\ \A s, t \in Services \cup {Nil}, c \in Countries \cup {Nil} :
          CreateDic(s, t, c) \in Purchase
    /\ \A p \in Purchase : GetDicForCancel(p) \in Purchase /\ ModelOf(p) \in Purchase
    /\ \A p \in Purchase, c \in Orders \cup {Nil} : GetDicForFinish(p, c) \in Purchase
BY DEF NoPurchase, Purchase, CreateDic, GetDicForCancel, GetDicForFinish, ModelOf

\* The write of updateUserBalance, and the whole of it, keep the balance's types.
LEMMA WriteBalanceType ==
    ASSUME TypeOK, NEW isSpent \in BOOLEAN, NEW amount \in Int, WriteBalance(isSpent, amount)
    PROVE  /\ userDoc' \in UserDocuments
           /\ ledger' \in Int
           /\ serial' \in BOOLEAN
<1>1. Change(isSpent, amount) \in Int
  BY DEF Change
<1>2. userDoc' \in UserDocuments
  <2>1. userDoc \in UserDocuments /\ userBalance \in Int
    BY DEF TypeOK, BalanceTypeOK, FirestoreTypeOK
  <2>2. \A n \in Int : [userDoc EXCEPT !.userBalance = n] \in UserDocuments
    BY <2>1 DEF UserDocuments
  <2>3. userBalance + Change(isSpent, amount) \in Int
    BY <1>1, <2>1
  <2> QED
    BY <2>1, <2>2, <2>3 DEF WriteBalance
<1>3. serial' \in BOOLEAN
  <2>1. serial' = (serial /\ BalanceIdle /\ userDoc.exists)
    BY DEF WriteBalance
  <2> QED
    BY <2>1
<1> QED
  BY <1>1, <1>2, <1>3 DEF WriteBalance, TypeOK, BalanceTypeOK

LEMMA UpdateUserBalanceType ==
    ASSUME TypeOK, NEW isPurchased \in BOOLEAN, NEW isSpent \in BOOLEAN, NEW amount \in Int,
           UpdateUserBalance(isPurchased, isSpent, amount)
    PROVE  /\ userDoc' \in UserDocuments
           /\ userBalance' \in Int
           /\ ledger' \in Int
           /\ serial' \in BOOLEAN
<1>1. WriteBalance(isSpent, amount)
  BY DEF UpdateUserBalance
<1>2. userBalance' \in Int
  BY DEF UpdateUserBalance, TypeOK, BalanceTypeOK
<1> QED
  BY <1>1, <1>2, WriteBalanceType

\* stopTimer keeps the session's types.
LEMMA StopTimerType ==
    ASSUME TypeOK, StopTimer
    PROVE  /\ currentActivation' \in Orders \cup {Nil}
           /\ timer' \in BOOLEAN
           /\ isTimerRunning' \in BOOLEAN
           /\ duration' \in 0 .. Timeout
<1>1. timer' \in BOOLEAN /\ isTimerRunning' \in BOOLEAN
  BY Zenon DEF StopTimer, TypeOK
<1>2. currentActivation' \in Orders \cup {Nil} /\ duration' \in 0 .. Timeout
  BY DEF StopTimer, TypeOK
<1> QED
  BY <1>1, <1>2

\* Blocks added to, or taken from, the library's queues keep their types.
LEMMA QueuesType ==
    ASSUME TypeOK
    PROVE  /\ \A a \in WriteAck : Append(unacked, a) \in Seq(WriteAck)
           /\ \A a, b \in WriteAck : unacked \o <<a, b>> \in Seq(WriteAck)
           /\ unacked # <<>> => Head(unacked) \in WriteAck /\ Tail(unacked) \in Seq(WriteAck)
           /\ callbacks # <<>> =>
                 /\ Head(callbacks) \in WriteAck \cup BalanceResult \cup PurchaseResult
                 /\ Tail(callbacks) \in Seq(WriteAck \cup BalanceResult \cup PurchaseResult)
           /\ \A b \in WriteAck \cup BalanceResult \cup PurchaseResult :
                 Append(callbacks, b) \in Seq(WriteAck \cup BalanceResult \cup PurchaseResult)
<1> DEFINE Blocks == WriteAck \cup BalanceResult \cup PurchaseResult
<1>1. unacked \in Seq(WriteAck) /\ callbacks \in Seq(Blocks)
  BY DEF TypeOK, BalanceTypeOK, FirestoreTypeOK
<1>2. \A a, b \in WriteAck : <<a, b>> \in Seq(WriteAck)
  OBVIOUS
<1>3. \A a, b \in WriteAck : unacked \o <<a, b>> \in Seq(WriteAck)
  BY <1>1, <1>2, ConcatProperties
<1> HIDE DEF Blocks
<1>4. callbacks # <<>> => Head(callbacks) \in Blocks /\ Tail(callbacks) \in Seq(Blocks)
  BY <1>1
<1>5. \A b \in Blocks : Append(callbacks, b) \in Seq(Blocks)
  BY <1>1
<1>6. /\ \A a \in WriteAck : Append(unacked, a) \in Seq(WriteAck)
      /\ unacked # <<>> => Head(unacked) \in WriteAck /\ Tail(unacked) \in Seq(WriteAck)
  BY <1>1
<1> QED
  BY <1>3, <1>4, <1>5, <1>6 DEF Blocks

\* The block that runs next, by its kind.
LEMMA HeadType ==
    ASSUME TypeOK, callbacks # <<>>
    PROVE  /\ Head(callbacks).of = "balance" => Head(callbacks).value \in Int
           /\ Head(callbacks).of = "purchases" => Head(callbacks).docs \in [Orders -> Purchase]
<1>1. Head(callbacks) \in WriteAck \cup BalanceResult \cup PurchaseResult
  BY QueuesType
<1> QED
  BY <1>1 DEF WriteAck, BalanceResult, PurchaseResult

\* The rest of TypeOK: selection, session, list and history.
ActivationTypeOK ==
    /\ selectedService \in Services \cup {Nil}
    /\ isServiceSelected \in BOOLEAN
    /\ selectedCountry \in Countries \cup {Nil}
    /\ isCountrySelected \in BOOLEAN
    /\ currentActivation \in Orders \cup {Nil}
    /\ timer \in BOOLEAN
    /\ isTimerRunning \in BOOLEAN
    /\ duration \in 0 .. Timeout
    /\ userNumbers \in [Orders -> Purchase]
    /\ trapped \in BOOLEAN
    /\ charged \in SUBSET Orders
    /\ refunds \in [Orders -> Nat]

\* The three parts of TypeOK are kept by steps that do not touch their variables.
LEMMA TypeParts ==
    /\ TypeOK <=> BalanceTypeOK /\ ProviderTypeOK /\ ActivationTypeOK
    /\ TypeOK' <=> BalanceTypeOK' /\ ProviderTypeOK' /\ ActivationTypeOK'
    /\ BalanceTypeOK /\ UNCHANGED <<firestoreVars, balanceVars>> => BalanceTypeOK'
    /\ ProviderTypeOK /\ UNCHANGED providerVars => ProviderTypeOK'
    /\ ActivationTypeOK /\ UNCHANGED activationVars => ActivationTypeOK'
<1>1. /\ TypeOK <=> BalanceTypeOK /\ ProviderTypeOK /\ ActivationTypeOK
      /\ TypeOK' <=> BalanceTypeOK' /\ ProviderTypeOK' /\ ActivationTypeOK'
  BY DEF TypeOK, ActivationTypeOK
<1>2. BalanceTypeOK /\ UNCHANGED <<firestoreVars, balanceVars>> => BalanceTypeOK'
  BY DEF BalanceTypeOK, FirestoreTypeOK, firestoreVars, balanceVars
<1>3. ProviderTypeOK /\ UNCHANGED providerVars => ProviderTypeOK'
  BY DEF ProviderTypeOK, providerVars
<1>4. ActivationTypeOK /\ UNCHANGED activationVars => ActivationTypeOK'
  BY DEF ActivationTypeOK, activationVars, selectionVars, sessionVars
<1> QED
  BY <1>1, <1>2, <1>3, <1>4

\* A slot that takes a request keeps the types of http and provider.
LEMMA SlotType ==
    ASSUME TypeOK, NEW r \in Requests, NEW q \in Request,
           http' = [http EXCEPT ![r] = q], UNCHANGED provider
    PROVE  ProviderTypeOK'
BY DEF TypeOK, ProviderTypeOK

\* The service's steps.
LEMMA ProviderStepType ==
    ASSUME TypeOK, RequestsNamed, ProviderStep
    PROVE  ProviderTypeOK'
<1> USE DEF TypeOK, ProviderTypeOK
<1>1. ASSUME NEW r \in Requests, NEW text \in Replies
      PROVE  [http EXCEPT ![r].reply = text] \in [Requests -> Request]
  BY DEF Request
<1>2. ASSUME NEW o \in Orders, NEW st \in OrderStates
      PROVE  [provider EXCEPT ![o].state = st] \in [Orders -> SoldOrder]
  BY DEF SoldOrder
<1>3. ASSUME NEW r \in Requests, NEW o \in Orders, Sell(r, o)
      PROVE  ProviderTypeOK'
  <2>1. http[r].service \in Services \cup {Nil} /\ http[r].country \in Countries \cup {Nil}
    BY DEF Request
  <2>2. provider' \in [Orders -> SoldOrder]
    BY <1>3, <2>1 DEF Sell, SoldOrder, OrderStates, OpenStates
  <2>3. http' = [http EXCEPT ![r] = [http[r] EXCEPT !.reply = "ACCESS_NUMBER", !.order = o]]
    BY <1>3 DEF Sell
  <2>4. [http[r] EXCEPT !.reply = "ACCESS_NUMBER", !.order = o] \in Request
    BY DEF Request, Replies
  <2> QED
    BY <2>2, <2>3, <2>4
<1>4. ASSUME NEW r \in Requests, RefuseNumber(r) \/ ReportStatus(r) \/ Lose(r)
      PROVE  ProviderTypeOK'
  <2>1. PICK text \in Replies : Reply(r, text)
    BY <1>4 DEF RefuseNumber, ReportStatus, Lose, Replies
  <2>2. UNCHANGED provider
    BY <1>4 DEF RefuseNumber, ReportStatus, Lose
  <2> QED
    BY <1>1, <2>1, <2>2 DEF Reply
<1>5. ASSUME NEW r \in Requests, NEW call \in SetStatusCalls,
             Accept(r, call) \/ AcceptAgain(r, call) \/ Refuse(r, call)
      PROVE  ProviderTypeOK'
  <2>1. http[r].order \in Orders
    BY <1>5 DEF RequestsNamed, Accept, AcceptAgain, Refuse, Pending, SetStatusCalls
  <2>2. Final(call) \in OrderStates /\ Access(call) \in Replies
    BY DEF Final, Access, OrderStates, Replies
  <2>3. PICK text \in Replies : Reply(r, text)
    BY <1>5, <2>2 DEF Accept, AcceptAgain, Refuse, Replies
  <2>4. \/ UNCHANGED provider
        \/ provider' = [provider EXCEPT ![http[r].order].state = Final(call)]
    BY <1>5 DEF Accept, AcceptAgain, Refuse
  <2>5. http' \in [Requests -> Request]
    BY <1>1, <2>3 DEF Reply
  <2>6. provider' \in [Orders -> SoldOrder]
    BY <1>2, <2>1, <2>2, <2>4
  <2> QED
    BY <2>5, <2>6
<1>6. ASSUME NEW o \in Orders, CodeArrives(o)
      PROVE  ProviderTypeOK'
  BY <1>2, <1>6 DEF CodeArrives, OrderStates, OpenStates
<1> QED
  BY <1>3, <1>4, <1>5, <1>6 DEF ProviderStep, Serve

\* The balance's host calls.
LEMMA BalanceHostType ==
    ASSUME TypeOK,
           \/ \E amount \in Amounts : AddBalance(amount)
           \/ InitUser
           \/ \E token \in Tokens : UpdateFCMToken(token)
           \/ PublicInit(ReadKinds)
    PROVE  BalanceTypeOK'
<1> USE UserBalanceAssumption DEF TypeOK, BalanceTypeOK, FirestoreTypeOK
<1>1. ASSUME NEW amount \in Amounts, AddBalance(amount)
      PROVE  BalanceTypeOK'
  <2>1. amount \in Int
    OBVIOUS
  <2>2. /\ UpdateUserBalance(TRUE, FALSE, amount)
        /\ unacked' = Append(unacked, BalanceAck)
        /\ missed' = missed \ Refetched("balance", BalanceAck)
        /\ UNCHANGED <<purchases, reads, callbacks>>
    BY <1>1 DEF AddBalance
  <2>3. /\ userDoc' \in UserDocuments
        /\ userBalance' \in Int
        /\ ledger' \in Int
        /\ serial' \in BOOLEAN
    BY <2>1, <2>2, UpdateUserBalanceType
  <2>4. unacked' \in Seq(WriteAck)
    BY <2>2, BlocksType, QueuesType
  <2> QED
    BY <2>2, <2>3, <2>4
<1>2. CASE InitUser
  <2>1. userDoc' \in UserDocuments
    BY <1>2 DEF InitUser, UserDocuments
  <2>2. serial' \in BOOLEAN
    BY <1>2 DEF InitUser
  <2> QED
    BY <1>2, <2>1, <2>2 DEF InitUser, ReadKinds
<1>3. ASSUME NEW token \in Tokens, UpdateFCMToken(token)
      PROVE  BalanceTypeOK'
  <2>1. userDoc' \in UserDocuments
    BY <1>3 DEF UpdateFCMToken, UserDocuments
  <2> QED
    BY <1>3, <2>1 DEF UpdateFCMToken, balanceVars
<1>4. CASE PublicInit(ReadKinds)
  <2>1. reads' \in [ReadKinds -> Nat]
    BY <1>4, ReadsOfType DEF PublicInit
  <2> QED
    BY <1>4, <2>1 DEF PublicInit
<1> QED
  BY <1>1, <1>2, <1>3, <1>4

\* The library's steps.
LEMMA FirestoreStepType ==
    ASSUME TypeOK, FirestoreStep
    PROVE  BalanceTypeOK'
<1> USE DEF TypeOK, BalanceTypeOK, FirestoreTypeOK
<1>1. CASE Acknowledge /\ UNCHANGED balanceVars
  BY <1>1, QueuesType DEF Acknowledge, balanceVars
<1>2. ASSUME NEW kind \in ReadKinds, NEW ok \in BOOLEAN, FinishRead(kind, ok)
      PROVE  FirestoreTypeOK'
  <2>1. reads' \in [ReadKinds -> Nat]
    BY <1>2 DEF FinishRead
  <2>2. callbacks' \in Seq(WriteAck \cup BalanceResult \cup PurchaseResult)
    BY <1>2, ResultType, QueuesType DEF FinishRead
  <2> QED
    BY <1>2, <2>1, <2>2 DEF FinishRead
<1>3. ASSUME NEW kind \in ReadKinds, FinishRead(kind, TRUE), UNCHANGED balanceVars
      PROVE  BalanceTypeOK'
  <2>1. FirestoreTypeOK'
    BY <1>2, <1>3
  <2> QED
    BY <1>3, <2>1 DEF balanceVars
<1>4. ASSUME NEW kind \in ReadKinds, FinishRead(kind, FALSE),
             serial' = (serial /\ kind # "balance"), missed' = missed \cup {kind},
             UNCHANGED <<userBalance, ledger>>
      PROVE  BalanceTypeOK'
  <2>1. FirestoreTypeOK'
    BY <1>2, <1>4
  <2>2. serial' \in BOOLEAN
    BY <1>4
  <2> QED
    BY <1>4, <2>1, <2>2
<1> QED
  BY <1>1, <1>3, <1>4 DEF FirestoreStep

\* The balance's completion blocks.
LEMMA BalanceBlockType ==
    ASSUME TypeOK, BalanceWritten \/ BalanceFetched
    PROVE  BalanceTypeOK'
<1> USE DEF TypeOK, BalanceTypeOK, FirestoreTypeOK
<1>1. callbacks # <<>> /\ callbacks' = Tail(callbacks)
  BY DEF BalanceWritten, BalanceFetched, Arrives
<1>2. callbacks' \in Seq(WriteAck \cup BalanceResult \cup PurchaseResult)
  BY <1>1, QueuesType
<1>3. CASE BalanceWritten
  <2>1. reads' \in [ReadKinds -> Nat]
    BY <1>3 DEF BalanceWritten, Refetch, Issue, ReadKinds
  <2> QED
    BY <1>2, <1>3, <2>1 DEF BalanceWritten, balanceVars
<1>4. CASE BalanceFetched
  <2>1. userBalance' \in Int
    BY <1>1, <1>4, HeadType DEF BalanceFetched, FetchedBalance, Arrives
  <2> QED
    BY <1>2, <1>4, <2>1 DEF BalanceFetched
<1> QED
  BY <1>3, <1>4

\* Choosing a service or a country.
LEMMA SelectType ==
    ASSUME TypeOK, Select
    PROVE  ActivationTypeOK'
<1>1. /\ isServiceSelected' \in BOOLEAN
      /\ isCountrySelected' \in BOOLEAN
  BY Zenon DEF TypeOK, Select, SelectService, SelectCountry, UnselectService, UnselectCountry
<1>2. /\ selectedService' \in Services \cup {Nil}
      /\ selectedCountry' \in Countries \cup {Nil}
  BY DEF TypeOK, Select, SelectService, SelectCountry, UnselectService, UnselectCountry
<1> QED
  BY <1>1, <1>2 DEF TypeOK, ActivationTypeOK, Select, sessionVars

\* A tick of the timer.
LEMMA TickType ==
    ASSUME TypeOK, NEW r \in Requests, Tick(r)
    PROVE  TypeOK'
<1>1. BalanceTypeOK'
  BY TypeParts DEF Tick
<1>2. duration' \in 0 .. Timeout
  BY ActivationAssumption DEF Tick, TimerFires, TypeOK
<1>3. ActivationTypeOK'
  BY <1>2 DEF Tick, TypeOK, ActivationTypeOK, selectionVars
<1>4. ProviderTypeOK'
  <2>1. \/ UNCHANGED http
        \/ \E o \in Orders : http' = [http EXCEPT ![r] = GetStatus(o)]
        \/ \E o \in Orders : http' = [http EXCEPT ![r] = SetStatusCancel(o)]
    BY DEF Tick, TimerFires, CheckNumber, CancelOrder, Send, TypeOK
  <2>2. UNCHANGED provider
    BY DEF Tick
  <2> QED
    BY <2>1, <2>2, RequestType, SlotType, TypeParts DEF providerVars
<1> QED
  BY <1>1, <1>3, <1>4, TypeParts

\* The closure that takes over a number.
LEMMA NumberBoughtType ==
    ASSUME TypeOK, RequestsNamed, NEW r \in Requests, NumberBought(r)
    PROVE  TypeOK'
<1> DEFINE o == http[r].order
<1>1. http[r] \in Request /\ o \in Orders
  BY DEF NumberBought, RequestsNamed, TypeOK, ProviderTypeOK
<1>2. /\ userDoc' \in UserDocuments
      /\ userBalance' \in Int
      /\ ledger' \in Int
      /\ serial' \in BOOLEAN
  <2>1. UpdateUserBalance(FALSE, TRUE, 0)
    BY DEF NumberBought
  <2>2. 0 \in Int
    OBVIOUS
  <2> QED
    BY <2>1, <2>2, UpdateUserBalanceType
<1>3. unacked' \in Seq(WriteAck)
  BY BlocksType, QueuesType DEF NumberBought
<1>4. purchases' \in [Orders -> Purchase]
  <2>1. CreateDic(http[r].service, selectedService, selectedCountry) \in Purchase
    BY <1>1, PurchaseType DEF Request, TypeOK
  <2> QED
    BY <1>1, <2>1 DEF NumberBought, InitNumberPurchase, TypeOK, BalanceTypeOK, FirestoreTypeOK
<1>5. BalanceTypeOK'
  BY <1>2, <1>3, <1>4 DEF NumberBought, TypeOK, BalanceTypeOK, FirestoreTypeOK
<1>6. ProviderTypeOK'
  BY RequestType, SlotType DEF NumberBought, Release
<1>7. ActivationTypeOK'
  <2>1. /\ isServiceSelected' \in BOOLEAN
        /\ isCountrySelected' \in BOOLEAN
    BY Zenon DEF NumberBought, UnselectService, UnselectCountry
  <2>2. /\ selectedService' \in Services \cup {Nil}
        /\ selectedCountry' \in Countries \cup {Nil}
    BY DEF TypeOK, NumberBought, UnselectService, UnselectCountry
  <2> QED
    BY <1>1, <2>1, <2>2, ActivationAssumption
       DEF NumberBought, StartPurchase, TypeOK, ActivationTypeOK
<1> QED
  BY <1>5, <1>6, <1>7, TypeParts

\* The closure of setStatus(finish).
LEMMA OrderFinishedType ==
    ASSUME TypeOK, RequestsNamed, NEW r \in Requests, OrderFinished(r)
    PROVE  TypeOK'
<1> DEFINE o == http[r].order
<1>1. http[r] \in Request /\ o \in Orders
  BY DEF OrderFinished, Answered, RequestsNamed, TypeOK, ProviderTypeOK
<1>2. ProviderTypeOK'
  BY RequestType, SlotType DEF OrderFinished, Release
<1>3. /\ unacked' \in Seq(WriteAck)
      /\ missed' \in SUBSET ReadKinds
  BY <1>1, BlocksType, QueuesType DEF OrderFinished, TypeOK, BalanceTypeOK, FirestoreTypeOK
<1>4. purchases' \in [Orders -> Purchase]
  <2>1. purchases \in [Orders -> Purchase]
    BY DEF TypeOK, BalanceTypeOK, FirestoreTypeOK
  <2>2. GetDicForFinish(purchases[o], http[r].code) \in Purchase
    BY <1>1, <2>1, PurchaseType DEF Request
  <2>3. \/ purchases' = purchases
        \/ purchases' = [purchases EXCEPT ![o] = GetDicForFinish(purchases[o], http[r].code)]
    BY <1>1, <2>1 DEF OrderFinished, UpdateNumberPurchase
  <2> QED
    BY <1>1, <2>1, <2>2, <2>3
<1>5. BalanceTypeOK'
  BY <1>3, <1>4 DEF OrderFinished, TypeOK, BalanceTypeOK, FirestoreTypeOK
<1>6. ActivationTypeOK'
  BY StopTimerType DEF OrderFinished, TypeOK, ActivationTypeOK, selectionVars, sessionVars
<1> QED
  BY <1>2, <1>5, <1>6, TypeParts

\* The closure of an accepted setStatus(cancel).
LEMMA OrderCancelledType ==
    ASSUME TypeOK, RequestsNamed, NEW r \in Requests, OrderCancelled(r)
    PROVE  TypeOK'
<1> DEFINE o == http[r].order
<1>1. http[r] \in Request /\ o \in Orders
  BY DEF OrderCancelled, Answered, RequestsNamed, TypeOK, ProviderTypeOK
<1>2. ProviderTypeOK'
  BY RequestType, SlotType DEF OrderCancelled, Release
<1>3. unacked' \in Seq(WriteAck)
  BY <1>1, BlocksType, QueuesType DEF OrderCancelled
<1>4. purchases' \in [Orders -> Purchase]
  <2>1. purchases \in [Orders -> Purchase]
    BY DEF TypeOK, BalanceTypeOK, FirestoreTypeOK
  <2>2. GetDicForCancel(purchases[o]) \in Purchase
    BY <1>1, <2>1, PurchaseType
  <2>3. \/ purchases' = purchases
        \/ purchases' = [purchases EXCEPT ![o] = GetDicForCancel(purchases[o])]
    BY <1>1, <2>1 DEF OrderCancelled, UpdateNumberPurchase
  <2> QED
    BY <1>1, <2>1, <2>2, <2>3
<1>5. /\ userDoc' \in UserDocuments
      /\ userBalance' \in Int
      /\ ledger' \in Int
      /\ serial' \in BOOLEAN
  <2>1. UpdateUserBalance(TRUE, FALSE, 1)
    BY DEF OrderCancelled
  <2>2. 1 \in Int
    OBVIOUS
  <2> QED
    BY <2>1, <2>2, UpdateUserBalanceType
<1>6. BalanceTypeOK'
  BY <1>3, <1>4, <1>5 DEF OrderCancelled, TypeOK, BalanceTypeOK, FirestoreTypeOK
<1>7. refunds' \in [Orders -> Nat]
  BY <1>1 DEF OrderCancelled, TypeOK
<1>8. ActivationTypeOK'
  BY <1>7, StopTimerType DEF OrderCancelled, TypeOK, ActivationTypeOK, selectionVars
<1> QED
  BY <1>2, <1>6, <1>8, TypeParts

\* Steps that only put a request into a slot, or empty one.
LEMMA RequestOnlyType ==
    ASSUME TypeOK, NEW r \in Requests, NEW q \in Request, http' = [http EXCEPT ![r] = q],
           UNCHANGED <<firestoreVars, balanceVars, provider, activationVars>>
    PROVE  TypeOK'
BY SlotType, TypeParts

\* A launch after another, whatever the documents and the history are by then.
LEMMA LaunchType ==
    ASSUME TypeOK, LaunchAgain, UNCHANGED <<provider, refunds>>, charged' \in SUBSET Orders,
           userDoc' \in UserDocuments, purchases' \in [Orders -> Purchase],
           ledger' \in Int, serial' \in BOOLEAN
    PROVE  TypeOK'
<1>1. reads' \in [ReadKinds -> Nat] /\ NoPurchases \in [Orders -> Purchase]
  BY ReadsOfType, PurchaseType DEF LaunchAgain, LoseMemory, NoPurchases
<1>2. BalanceTypeOK'
  <2>1. FirestoreTypeOK'
    BY <1>1 DEF LaunchAgain, LoseMemory, FirestoreTypeOK
  <2>2. userBalance' \in Int /\ missed' \in SUBSET ReadKinds
    BY DEF LaunchAgain, RestartBalance
  <2> QED
    BY <2>1, <2>2 DEF BalanceTypeOK
<1>3. ProviderTypeOK'
  BY RequestType DEF LaunchAgain, TypeOK, ProviderTypeOK
<1>4. ActivationTypeOK'
  <2>1. duration' \in 0 .. Timeout /\ refunds' \in [Orders -> Nat]
    BY ActivationAssumption DEF LaunchAgain, TypeOK
  <2>2. userNumbers' \in [Orders -> Purchase]
    BY <1>1 DEF LaunchAgain
  <2> QED
    BY <2>1, <2>2 DEF LaunchAgain, ActivationTypeOK
<1> QED
  BY <1>2, <1>3, <1>4, TypeParts

\* The process dies: between two closures, or between the two writes of one.
LEMMA RestartType ==
    ASSUME TypeOK, Restart
    PROVE  TypeOK'
<1>1. userDoc' \in UserDocuments /\ purchases' \in [Orders -> Purchase] /\ ledger' \in Int
      /\ charged' \in SUBSET Orders
  BY DEF Restart, TypeOK, BalanceTypeOK, FirestoreTypeOK
<1>2. serial' \in BOOLEAN
  BY DEF Restart, TypeOK, BalanceTypeOK
<1> QED
  BY <1>1, <1>2, LaunchType DEF Restart

LEMMA KilledType ==
    ASSUME TypeOK, RequestsNamed, NEW r \in Requests, Killed(r)
    PROVE  TypeOK'
<1> DEFINE o == http[r].order
<1>1. o \in Orders
  BY DEF Killed, KilledAfterCharge, KilledAfterClose, Answered, RequestsNamed
<1>2. /\ LaunchAgain
      /\ UNCHANGED <<provider, refunds>>
      /\ charged' \in SUBSET Orders
  BY <1>1 DEF Killed, KilledAfterCharge, KilledAfterClose, TypeOK
<1>3. CASE KilledAfterCharge(r)
  <2>1. WriteBalance(TRUE, 0) /\ UNCHANGED purchases
    BY <1>3 DEF KilledAfterCharge
  <2>2. 0 \in Int
    OBVIOUS
  <2>3. userDoc' \in UserDocuments /\ ledger' \in Int /\ serial' \in BOOLEAN
    BY <2>1, <2>2, WriteBalanceType
  <2>4. purchases' \in [Orders -> Purchase]
    BY <2>1 DEF TypeOK, BalanceTypeOK, FirestoreTypeOK
  <2> QED
    BY <1>2, <2>3, <2>4, LaunchType
<1>4. CASE KilledAfterClose(r)
  <2>1. purchases \in [Orders -> Purchase]
    BY DEF TypeOK, BalanceTypeOK, FirestoreTypeOK
  <2>2. GetDicForCancel(purchases[o]) \in Purchase
    BY <1>1, <2>1, PurchaseType
  <2>3. purchases' \in [Orders -> Purchase]
    BY <1>1, <1>4, <2>1, <2>2 DEF KilledAfterClose, UpdateNumberPurchase
  <2>4. userDoc' \in UserDocuments /\ ledger' \in Int
    BY <1>4 DEF KilledAfterClose, TypeOK, BalanceTypeOK, FirestoreTypeOK
  <2>5. serial' \in BOOLEAN
    BY <1>4 DEF KilledAfterClose, TypeOK, BalanceTypeOK
  <2> QED
    BY <1>2, <2>3, <2>4, <2>5, LaunchType
<1> QED
  BY <1>3, <1>4 DEF Killed

\* Every step of the specification keeps the types.
LEMMA TypeStep ==
    ASSUME TypeOK, RequestsNamed, [Next]_vars
    PROVE  TypeOK'
<1>1. CASE Select
  BY <1>1, SelectType, TypeParts DEF Select
<1>2. ASSUME NEW r \in Requests, StartActivation(r)
      PROVE  TypeOK'
  <2>1. BuyNumber(selectedService, selectedCountry) \in Request
    BY RequestType DEF TypeOK
  <2> QED
    BY <1>2, <2>1, RequestOnlyType DEF StartActivation, Send
<1>3. ASSUME NEW r \in Requests, CancelOrderByUser(r)
      PROVE  TypeOK'
  <2>1. SetStatusCancel(currentActivation) \in Request
    BY <1>3, RequestType DEF CancelOrderByUser, TypeOK
  <2> QED
    BY <1>3, <2>1, RequestOnlyType DEF CancelOrderByUser, CancelOrder, Send
<1>4. CASE /\ \/ \E amount \in Amounts : AddBalance(amount)
              \/ InitUser
              \/ \E token \in Tokens : UpdateFCMToken(token)
              \/ PublicInit(ReadKinds)
           /\ UNCHANGED <<providerVars, activationVars>>
  BY <1>4, BalanceHostType, TypeParts
<1>5. ASSUME NEW r \in Requests, Tick(r)
      PROVE  TypeOK'
  BY <1>5, TickType
<1>6. ASSUME NEW r \in Requests, Answer(r)
      PROVE  TypeOK'
  <2>1. CASE NumberBought(r)
    BY <2>1, NumberBoughtType
  <2>2. CASE NumberTraps(r)
    <3>1. ActivationTypeOK'
      BY <2>2 DEF NumberTraps, TypeOK, ActivationTypeOK, selectionVars, sessionVars
    <3> QED
      BY <2>2, <3>1, RequestType, SlotType, TypeParts DEF NumberTraps, Release
  <2>3. CASE NumberRefused(r)
    BY <2>3, RequestType, RequestOnlyType DEF NumberRefused, Release
  <2>4. CASE StatusReceived(r)
    <3>1. http[r].order \in Orders
      BY <2>4 DEF StatusReceived, Answered, RequestsNamed
    <3>2. \/ http' = [http EXCEPT ![r] = Idle]
          \/ /\ currentActivation \in Orders
             /\ http' = [http EXCEPT ![r] = SetStatusFinish(currentActivation, http[r].order)]
      BY <2>4 DEF StatusReceived, FinishOrder, Release, TypeOK
    <3> QED
      BY <2>4, <3>1, <3>2, RequestType, RequestOnlyType DEF StatusReceived
  <2>5. CASE OrderFinished(r)
    BY <2>5, OrderFinishedType
  <2>6. CASE OrderCancelled(r)
    BY <2>6, OrderCancelledType
  <2>7. CASE CancelRefused(r)
    BY <2>7, RequestType, RequestOnlyType DEF CancelRefused, Release
  <2> QED
    BY <1>6, <2>1, <2>2, <2>3, <2>4, <2>5, <2>6, <2>7 DEF Answer
<1>7. CASE PurchaseWritten
  <2>1. /\ callbacks' \in Seq(WriteAck \cup BalanceResult \cup PurchaseResult)
        /\ reads' \in [ReadKinds -> Nat]
    BY <1>7, QueuesType
       DEF PurchaseWritten, Arrives, Refetch, Issue, ReadKinds, TypeOK, BalanceTypeOK, FirestoreTypeOK
  <2>2. BalanceTypeOK'
    BY <1>7, <2>1 DEF PurchaseWritten, TypeOK, BalanceTypeOK, FirestoreTypeOK, balanceVars
  <2> QED
    BY <1>7, <2>2, TypeParts DEF PurchaseWritten
<1>8. CASE PurchasesFetched
  <2>1. callbacks' \in Seq(WriteAck \cup BalanceResult \cup PurchaseResult)
    BY <1>8, QueuesType DEF PurchasesFetched, Arrives
  <2>2. BalanceTypeOK'
    BY <1>8, <2>1 DEF PurchasesFetched, TypeOK, BalanceTypeOK, FirestoreTypeOK, balanceVars
  <2>3. userNumbers' \in [Orders -> Purchase]
    BY <1>8, HeadType, PurchaseType DEF PurchasesFetched, Arrives, TypeOK
  <2>4. ActivationTypeOK'
    BY <1>8, <2>3 DEF PurchasesFetched, TypeOK, ActivationTypeOK, selectionVars, sessionVars
  <2> QED
    BY <1>8, <2>2, <2>4, TypeParts DEF PurchasesFetched
<1>9. CASE (BalanceWritten \/ BalanceFetched) /\ UNCHANGED <<providerVars, activationVars>>
  BY <1>9, BalanceBlockType, TypeParts
<1>10. CASE FirestoreStep /\ UNCHANGED <<providerVars, activationVars>>
  BY <1>10, FirestoreStepType, TypeParts
<1>11. CASE ProviderStep /\ UNCHANGED <<firestoreVars, balanceVars, activationVars>>
  BY <1>11, ProviderStepType, TypeParts
<1>12. CASE Restart \/ \E r \in Requests : Killed(r)
  BY <1>12, RestartType, KilledType
<1>13. CASE UNCHANGED vars
  BY <1>13, TypeParts DEF vars
<1> QED
  BY <1>1, <1>2, <1>3, <1>4, <1>5, <1>6, <1>7, <1>8, <1>9, <1>10, <1>11, <1>12, <1>13
     DEF Next, HostCall, Block

\* The initial states have the types.
LEMMA TypeInit ==
    ASSUME Init
    PROVE  TypeOK
<1>1. /\ NoPurchases \in [Orders -> Purchase]
      /\ reads \in [ReadKinds -> Nat]
      /\ <<>> \in Seq(WriteAck)
      /\ <<>> \in Seq(WriteAck \cup BalanceResult \cup PurchaseResult)
  <2>1. reads = ReadsOf(ReadKinds)
    BY DEF Init
  <2>2. NoPurchases \in [Orders -> Purchase]
    BY PurchaseType DEF NoPurchases
  <2> QED
    BY <2>1, <2>2, ReadsOfType
<1>2. userDoc \in UserDocuments
  <2>1. PICK balance \in StoredBalances : userDoc = Stored(balance)
    BY DEF Init, BalanceInit
  <2>2. (balance # Nil) \in BOOLEAN
    OBVIOUS
  <2> QED
    BY <2>1, <2>2, UserBalanceAssumption DEF Stored, UserDocuments
<1>3. BalanceTypeOK
  <2>1. ledger \in Int
    BY <1>2 DEF Init, BalanceInit, UserDocuments
  <2> QED
    BY <1>1, <1>2, <2>1 DEF Init, BalanceInit, BalanceTypeOK, FirestoreTypeOK
<1>4. ProviderTypeOK
  BY RequestType DEF Init, ProviderInit, ProviderTypeOK, SoldOrder, OrderStates
<1>5. ActivationTypeOK
  <2>1. duration \in 0 .. Timeout
    BY ActivationAssumption DEF Init
  <2>2. charged \in SUBSET Orders /\ refunds \in [Orders -> Nat]
    BY DEF Init
  <2> QED
    BY <1>1, <2>1, <2>2 DEF Init, ActivationTypeOK
<1> QED
  BY <1>3, <1>4, <1>5, TypeParts

-----------------------------------------------------------------------------
(***************************************************************************)
(* The session.                                                            *)
(***************************************************************************)

\* Every step keeps the session's variables in agreement.
LEMMA SessionStep ==
    ASSUME TypeOK, RequestsNamed, SessionConsistent, [Next]_vars
    PROVE  SessionConsistent'
<1>1. ASSUME UNCHANGED <<currentActivation, timer, isTimerRunning>>
      PROVE  SessionConsistent'
  BY <1>1 DEF SessionConsistent
<1>2. ASSUME NEW r \in Requests, NumberBought(r)
      PROVE  SessionConsistent'
  <2>1. http[r].order \in Orders
    BY <1>2 DEF NumberBought, RequestsNamed
  <2>2. http[r].order # Nil
    BY <2>1, FirestoreAssumption
  <2> QED
    BY <1>2, <2>2 DEF NumberBought, StartPurchase, SessionConsistent
<1>3. ASSUME StopTimer
      PROVE  SessionConsistent'
  BY <1>3 DEF StopTimer, SessionConsistent, TypeOK
<1>4. ASSUME NEW r \in Requests, OrderFinished(r) \/ OrderCancelled(r)
      PROVE  StopTimer \/ UNCHANGED <<currentActivation, timer, isTimerRunning>>
  BY <1>4 DEF OrderFinished, OrderCancelled, sessionVars
<1>5. ASSUME LaunchAgain
      PROVE  SessionConsistent'
  BY <1>5 DEF LaunchAgain, SessionConsistent
<1>6. ASSUME NEW r \in Requests,
             \/ Tick(r) \/ NumberTraps(r) \/ NumberRefused(r) \/ StatusReceived(r)
             \/ CancelRefused(r) \/ StartActivation(r) \/ CancelOrderByUser(r)
      PROVE  UNCHANGED <<currentActivation, timer, isTimerRunning>>
  BY <1>6 DEF Tick, NumberTraps, NumberRefused, StatusReceived, CancelRefused, StartActivation,
              CancelOrderByUser, activationVars, sessionVars
<1>7. ASSUME \/ Select
             \/ PurchaseWritten
             \/ PurchasesFetched
             \/ UNCHANGED <<providerVars, activationVars>>
             \/ UNCHANGED <<firestoreVars, balanceVars, activationVars>>
             \/ UNCHANGED vars
      PROVE  UNCHANGED <<currentActivation, timer, isTimerRunning>>
  BY <1>7 DEF Select, PurchaseWritten, PurchasesFetched, vars, activationVars, sessionVars
<1>8. ASSUME NEW r \in Requests, Answer(r)
      PROVE  SessionConsistent'
  BY <1>1, <1>2, <1>3, <1>4, <1>6, <1>8 DEF Answer
<1>9. CASE HostCall
  BY <1>1, <1>6, <1>7, <1>9 DEF HostCall
<1>10. CASE Block
  BY <1>1, <1>7, <1>10 DEF Block
<1>11. ASSUME NEW r \in Requests, Tick(r)
       PROVE  SessionConsistent'
  BY <1>1, <1>6, <1>11
<1> QED
  BY <1>1, <1>5, <1>7, <1>8, <1>9, <1>10, <1>11
     DEF Next, Restart, Killed, KilledAfterCharge, KilledAfterClose

-----------------------------------------------------------------------------
(***************************************************************************)
(* Requests, records and refunds.                                          *)
(***************************************************************************)

\* Steps that touch neither requests, orders, records nor refunds.
LEMMA CoreUnchanged ==
    ASSUME CoreInv, UNCHANGED <<http, provider, purchases, refunds>>
    PROVE  CoreInv'
BY DEF CoreInv, RequestsNamed, SalesUnrecorded, SoldOnce, AnswersBacked, CancelledOnce,
       RecordsMatchProvider, RefundsBacked, Bought, Finishes, Cancels

\* A slot that is emptied, or takes a request that has no answer yet.
LEMMA CoreSlot ==
    ASSUME TypeOK, CoreInv, NEW r \in Requests, NEW q \in Request, q.reply = "pending",
           q.call \in {"getStatus", "finish", "cancel"} => q.order \in Orders,
           http' = [http EXCEPT ![r] = q], UNCHANGED <<provider, purchases, refunds>>
    PROVE  CoreInv'
<1>1. \A x \in Requests : http'[x] = IF x = r THEN q ELSE http[x]
  BY DEF TypeOK, ProviderTypeOK
<1>2. RequestsNamed'
  BY <1>1 DEF CoreInv, RequestsNamed
<1>3. SalesUnrecorded' /\ SoldOnce'
  BY <1>1 DEF CoreInv, SalesUnrecorded, SoldOnce, Bought
<1>4. AnswersBacked'
  BY <1>1 DEF CoreInv, AnswersBacked, Finishes, Cancels
<1>5. CancelledOnce'
  BY <1>1 DEF CoreInv, CancelledOnce, Cancels
<1>6. RecordsMatchProvider' /\ RefundsBacked'
  BY DEF CoreInv, RecordsMatchProvider, RefundsBacked
<1> QED
  BY <1>2, <1>3, <1>4, <1>5, <1>6 DEF CoreInv

\* What the requests the SDK sends ask for.
LEMMA SentRequests ==
    /\ Idle.reply = "pending" /\ Idle.call = "idle"
    /\ \A s, c : BuyNumber(s, c).reply = "pending" /\ BuyNumber(s, c).call = "getNumber"
    /\ \A o : GetStatus(o).reply = "pending" /\ GetStatus(o).order = o
    /\ \A o : SetStatusCancel(o).reply = "pending" /\ SetStatusCancel(o).order = o
    /\ \A o, c : SetStatusFinish(o, c).reply = "pending" /\ SetStatusFinish(o, c).order = o
BY DEF Idle, BuyNumber, GetStatus, SetStatusCancel, SetStatusFinish

\* The steps of the SDK that only send a request or drop an answer.
LEMMA CoreRequests ==
    ASSUME TypeOK, CoreInv, NEW r \in Requests,
           \/ StartActivation(r) \/ CancelOrderByUser(r) \/ Tick(r) \/ StatusReceived(r)
           \/ NumberTraps(r) \/ NumberRefused(r) \/ CancelRefused(r)
    PROVE  CoreInv'
<1>1. UNCHANGED <<provider, purchases, refunds>>
  BY DEF StartActivation, CancelOrderByUser, Tick, StatusReceived, NumberTraps, NumberRefused,
         CancelRefused, firestoreVars, activationVars
<1>2. \/ UNCHANGED http
      \/ http' = [http EXCEPT ![r] = Idle]
      \/ http' = [http EXCEPT ![r] = BuyNumber(selectedService, selectedCountry)]
      \/ \E o \in Orders : http' = [http EXCEPT ![r] = GetStatus(o)]
      \/ \E o \in Orders : http' = [http EXCEPT ![r] = SetStatusCancel(o)]
      \/ \E o, c \in Orders : http' = [http EXCEPT ![r] = SetStatusFinish(o, c)]
  <2>1. currentActivation \in Orders \cup {Nil}
    BY DEF TypeOK
  <2>2. CASE StatusReceived(r)
    <3>1. http[r].order \in Orders
      BY <2>2 DEF StatusReceived, Answered, CoreInv, RequestsNamed
    <3> QED
      BY <2>1, <2>2, <3>1 DEF StatusReceived, FinishOrder, Release
  <2>3. CASE StartActivation(r)
    BY <2>3 DEF StartActivation, Send
  <2>4. CASE CancelOrderByUser(r) \/ Tick(r)
    BY <2>1, <2>4 DEF CancelOrderByUser, Tick, TimerFires, CheckNumber, CancelOrder, Send
  <2>5. CASE NumberTraps(r) \/ NumberRefused(r) \/ CancelRefused(r)
    BY <2>5 DEF NumberTraps, NumberRefused, CancelRefused, Release
  <2> QED
    BY <2>2, <2>3, <2>4, <2>5
<1>3. selectedService \in Services \cup {Nil} /\ selectedCountry \in Countries \cup {Nil}
  BY DEF TypeOK
<1> QED
  BY <1>1, <1>2, <1>3, RequestType, SentRequests, CoreSlot, CoreUnchanged

\* The service's steps: what an answer proves is true when it is given and stays true.
LEMMA CoreProvider ==
    ASSUME TypeOK, CoreInv, ProviderStep, UNCHANGED <<purchases, refunds>>
    PROVE  CoreInv'
<1> USE DEF TypeOK, ProviderTypeOK
<1>1. ASSUME NEW r \in Requests, NEW o \in Orders, Sell(r, o)
      PROVE  CoreInv'
  <2>1. /\ http[r].call = "getNumber" /\ http[r].reply = "pending"
        /\ provider[o].state = "unsold"
    BY <1>1 DEF Sell, Pending
  <2>2. \A x \in Requests :
           /\ http'[x].call = http[x].call
           /\ http'[x].order = IF x = r THEN o ELSE http[x].order
           /\ http'[x].reply = IF x = r THEN "ACCESS_NUMBER" ELSE http[x].reply
    BY <1>1 DEF Sell, Request
  <2>3. \A p \in Orders : provider'[p].state = IF p = o THEN "waiting" ELSE provider[p].state
    BY <1>1 DEF Sell, SoldOrder
  <2>4. purchases[o].status = "none" /\ ~ refunds[o] > 0
    BY <2>1 DEF CoreInv, RecordsMatchProvider, RefundsBacked
  <2>5. RequestsNamed'
    BY <2>2 DEF CoreInv, RequestsNamed
  <2>6. \A x \in Requests \ {r} : Bought(x) => http[x].order # o /\ http[x].order \in Orders
    BY <2>1 DEF CoreInv, SalesUnrecorded, RequestsNamed, Bought
  <2>7. SalesUnrecorded' /\ SoldOnce'
    BY <2>2, <2>3, <2>4, <2>6 DEF CoreInv, SalesUnrecorded, SoldOnce, Bought
  <2>8. AnswersBacked'
    BY <2>1, <2>2, <2>3 DEF CoreInv, AnswersBacked, Finishes, Cancels, RequestsNamed
  <2>9. CancelledOnce'
    BY <2>1, <2>2 DEF CoreInv, CancelledOnce, Cancels
  <2>10. RecordsMatchProvider' /\ RefundsBacked'
    BY <2>3, <2>4 DEF CoreInv, RecordsMatchProvider, RefundsBacked
  <2> QED
    BY <2>5, <2>7, <2>8, <2>9, <2>10 DEF CoreInv
<1>2. ASSUME NEW r \in Requests, RefuseNumber(r) \/ ReportStatus(r) \/ Lose(r)
                \/ \E call \in SetStatusCalls : Refuse(r, call)
      PROVE  CoreInv'
  <2>1. PICK text \in {"nil", "NO_NUMBERS", "STATUS_OK", "STATUS_WAIT_CODE", "BAD_STATUS"} :
           Reply(r, text) /\ UNCHANGED provider
    BY <1>2 DEF RefuseNumber, ReportStatus, Lose, Refuse
  <2>2. \A x \in Requests :
           /\ http'[x].call = http[x].call
           /\ http'[x].order = http[x].order
           /\ http'[x].reply = IF x = r THEN text ELSE http[x].reply
    BY <2>1 DEF Reply, Request
  <2>3. RequestsNamed'
    BY <2>2 DEF CoreInv, RequestsNamed
  <2>4. SalesUnrecorded' /\ SoldOnce'
    BY <2>1, <2>2 DEF CoreInv, SalesUnrecorded, SoldOnce, Bought
  <2>5. AnswersBacked' /\ CancelledOnce'
    BY <2>1, <2>2 DEF CoreInv, AnswersBacked, CancelledOnce, Finishes, Cancels
  <2>6. RecordsMatchProvider' /\ RefundsBacked'
    BY <2>1 DEF CoreInv, RecordsMatchProvider, RefundsBacked
  <2> QED
    BY <2>3, <2>4, <2>5, <2>6 DEF CoreInv
<1>3. ASSUME NEW r \in Requests, NEW call \in SetStatusCalls, Accept(r, call) \/ AcceptAgain(r, call)
      PROVE  CoreInv'
  <2> DEFINE o == http[r].order
  <2>1. /\ http[r].call = call /\ http[r].reply = "pending"
        /\ o \in Orders
    BY <1>3 DEF Accept, AcceptAgain, Pending, SetStatusCalls, CoreInv, RequestsNamed
  <2>2. \A x \in Requests :
           /\ http'[x].call = http[x].call
           /\ http'[x].order = http[x].order
           /\ http'[x].reply = IF x = r THEN Access(call) ELSE http[x].reply
    BY <1>3 DEF Accept, AcceptAgain, Reply, Request
  <2>3. \A p \in Orders : provider'[p].state = IF p = o THEN Final(call) ELSE provider[p].state
    BY <1>3, <2>1 DEF Accept, AcceptAgain, SoldOrder
  <2>4. \/ provider[o].state \in OpenStates
        \/ RepeatAccepted /\ provider[o].state = Final(call)
    BY <1>3, ProviderAssumption DEF Accept, AcceptAgain
  <2>5. /\ call = "finish" => Final(call) = "finished" /\ Access(call) = "ACCESS_ACTIVATION"
        /\ call = "cancel" => Final(call) = "cancelled" /\ Access(call) = "ACCESS_CANCEL"
        /\ call \in {"finish", "cancel"}
    BY DEF Final, Access, SetStatusCalls
  <2>6. RequestsNamed'
    BY <2>1, <2>2, <2>5 DEF CoreInv, RequestsNamed
  <2>7. SalesUnrecorded' /\ SoldOnce'
    BY <2>1, <2>2, <2>3, <2>5 DEF CoreInv, SalesUnrecorded, SoldOnce, Bought, RequestsNamed
  <2>8. AnswersBacked'
    BY <2>1, <2>2, <2>3, <2>4, <2>5
       DEF CoreInv, AnswersBacked, Finishes, Cancels, RequestsNamed, OpenStates
  <2>9. CancelledOnce'
    <3>1. ASSUME ~RepeatAccepted, call = "cancel"
          PROVE  /\ refunds[o] = 0
                 /\ \A x \in Requests : Cancels(x) => http[x].order # o
      BY <2>1, <2>4, <3>1 DEF CoreInv, RefundsBacked, AnswersBacked, OpenStates
    <3> QED
      BY <2>1, <2>2, <2>5, <3>1 DEF CoreInv, CancelledOnce, Cancels
  <2>10. RecordsMatchProvider' /\ RefundsBacked'
    BY <2>1, <2>3, <2>4, <2>5 DEF CoreInv, RecordsMatchProvider, RefundsBacked, OpenStates
  <2> QED
    BY <2>6, <2>7, <2>8, <2>9, <2>10 DEF CoreInv
<1>4. ASSUME NEW o \in Orders, CodeArrives(o)
      PROVE  CoreInv'
  <2>1. /\ provider[o].state = "waiting"
        /\ UNCHANGED http
        /\ \A p \in Orders : provider'[p].state = IF p = o THEN "received" ELSE provider[p].state
    BY <1>4 DEF CodeArrives, SoldOrder
  <2>2. RequestsNamed' /\ SoldOnce' /\ CancelledOnce'
    BY <2>1 DEF CoreInv, RequestsNamed, SoldOnce, CancelledOnce, Bought, Cancels
  <2>3. SalesUnrecorded' /\ AnswersBacked'
    BY <2>1 DEF CoreInv, SalesUnrecorded, AnswersBacked, RequestsNamed, Bought, Finishes, Cancels
  <2>4. RecordsMatchProvider' /\ RefundsBacked'
    BY <2>1 DEF CoreInv, RecordsMatchProvider, RefundsBacked
  <2> QED
    BY <2>2, <2>3, <2>4 DEF CoreInv
<1> QED
  BY <1>1, <1>2, <1>3, <1>4 DEF ProviderStep, Serve

\* The slot of a closure that has run is empty; the others are as they were.
LEMMA Released ==
    ASSUME TypeOK, NEW r \in Requests, Release(r)
    PROVE  \A x \in Requests :
              /\ x # r => http'[x] = http[x]
              /\ x = r => http'[x].call = "idle" /\ http'[x].reply = "pending"
BY SentRequests DEF Release, TypeOK, ProviderTypeOK

\* A record that exists takes its new status, one that does not exist stays away.
LEMMA RecordUpdated ==
    ASSUME TypeOK, NEW order \in Orders, NEW dic \in Purchase,
           UpdateNumberPurchase(order, dic)
    PROVE  \A o \in Orders :
              purchases'[o].status = IF o = order /\ purchases[o].status # "none"
                                     THEN dic.status ELSE purchases[o].status
BY DEF UpdateNumberPurchase, TypeOK, BalanceTypeOK, FirestoreTypeOK

\* The statuses that the dictionaries of a finish and of a cancel carry.
LEMMA DicStatus ==
    ASSUME TypeOK, NEW o \in Orders, NEW code \in Orders \cup {Nil}
    PROVE  /\ GetDicForFinish(purchases[o], code) \in Purchase
           /\ GetDicForFinish(purchases[o], code).status = "6"
           /\ GetDicForCancel(purchases[o]) \in Purchase
           /\ GetDicForCancel(purchases[o]).status = "8"
<1>1. purchases[o] \in Purchase
  BY DEF TypeOK, BalanceTypeOK, FirestoreTypeOK
<1> QED
  BY <1>1, PurchaseType DEF GetDicForFinish, GetDicForCancel, Purchase

\* The closures that write a record.  A closed record is not written again.
LEMMA CoreClosures ==
    ASSUME TypeOK, CoreInv, NEW r \in Requests,
           NumberBought(r) \/ OrderFinished(r) \/ OrderCancelled(r)
    PROVE  /\ CoreInv'
           /\ \A o \in Orders : purchases[o].status \in {"6", "8"}
                                   => purchases'[o].status = purchases[o].status
<1> DEFINE order == http[r].order
<1>1. order \in Orders /\ UNCHANGED provider
  BY DEF NumberBought, OrderFinished, OrderCancelled, Answered, CoreInv, RequestsNamed
<1>2. \A x \in Requests :
         /\ x # r => http'[x] = http[x]
         /\ x = r => http'[x].call = "idle" /\ http'[x].reply = "pending"
  BY Released DEF NumberBought, OrderFinished, OrderCancelled
<1>3. RequestsNamed' /\ SoldOnce' /\ AnswersBacked'
  BY <1>1, <1>2
     DEF CoreInv, RequestsNamed, SoldOnce, AnswersBacked, Bought, Finishes, Cancels
<1>4. CASE NumberBought(r)
  <2>1. Bought(r) /\ purchases[order].status = "none" /\ provider[order].state # "unsold"
    BY <1>1, <1>4 DEF NumberBought, Answered, Bought, CoreInv, SalesUnrecorded
  <2>2. \A o \in Orders :
           purchases'[o].status = IF o = order THEN "1" ELSE purchases[o].status
    BY <1>1, <1>4
       DEF NumberBought, InitNumberPurchase, CreateDic, TypeOK, BalanceTypeOK, FirestoreTypeOK
  <2>3. UNCHANGED refunds
    BY <1>4 DEF NumberBought
  <2>4. SalesUnrecorded'
    <3>1. \A x \in Requests \ {r} : Bought(x) => http[x].order # order /\ http[x].order \in Orders
      BY <2>1 DEF CoreInv, SoldOnce, RequestsNamed, Bought
    <3> QED
      BY <1>1, <1>2, <2>2, <3>1 DEF CoreInv, SalesUnrecorded, Bought
  <2>5. CancelledOnce'
    BY <1>2, <2>3 DEF CoreInv, CancelledOnce, Cancels
  <2>6. RecordsMatchProvider' /\ RefundsBacked'
    BY <1>1, <2>1, <2>2, <2>3 DEF CoreInv, RecordsMatchProvider, RefundsBacked
  <2> QED
    BY <1>3, <2>1, <2>2, <2>4, <2>5, <2>6 DEF CoreInv
<1>5. ASSUME NEW status \in {"6", "8"},
             \A o \in Orders :
                \/ purchases'[o].status = purchases[o].status
                \/ /\ purchases[o].status # "none" /\ purchases'[o].status = status
                   /\ o = order,
             status = "6" => provider[order].state = "finished",
             status = "8" => provider[order].state = "cancelled"
      PROVE  /\ SalesUnrecorded' /\ RecordsMatchProvider'
             /\ \A o \in Orders : purchases[o].status \in {"6", "8"}
                                     => purchases'[o].status = purchases[o].status
  <2>1. SalesUnrecorded'
    BY <1>1, <1>2, <1>5 DEF CoreInv, SalesUnrecorded, RequestsNamed, Bought
  <2> QED
    BY <1>1, <1>5, <2>1 DEF CoreInv, RecordsMatchProvider
<1>6. CASE OrderFinished(r)
  <2>1. UNCHANGED refunds
    BY <1>6 DEF OrderFinished
  <2>2. CancelledOnce' /\ RefundsBacked'
    BY <1>1, <1>2, <2>1 DEF CoreInv, CancelledOnce, Cancels, RefundsBacked
  <2>3. CASE http[r].reply = "ACCESS_ACTIVATION"
    <3>1. provider[order].state = "finished"
      BY <1>6, <2>3 DEF OrderFinished, Answered, Finishes, CoreInv, AnswersBacked
    <3>2. UpdateNumberPurchase(order, GetDicForFinish(purchases[order], http[r].code))
      BY <1>6, <2>3 DEF OrderFinished, Confirmed
    <3>3. http[r].code \in Orders \cup {Nil}
      BY DEF TypeOK, ProviderTypeOK, Request
    <3>4. \A o \in Orders :
             purchases'[o].status = IF o = order /\ purchases[o].status # "none"
                                    THEN "6" ELSE purchases[o].status
      BY <1>1, <3>2, <3>3, DicStatus, RecordUpdated
    <3> QED
      BY <1>1, <1>3, <1>5, <2>2, <3>1, <3>4 DEF CoreInv
  <2>4. CASE http[r].reply # "ACCESS_ACTIVATION"
    <3>1. UNCHANGED purchases
      BY <1>6, <2>4 DEF OrderFinished, Confirmed
    <3>2. SalesUnrecorded' /\ RecordsMatchProvider'
      BY <1>1, <1>2, <3>1 DEF CoreInv, SalesUnrecorded, RecordsMatchProvider, Bought
    <3> QED
      BY <1>3, <2>2, <3>1, <3>2 DEF CoreInv
  <2> QED
    BY <2>3, <2>4
<1>7. CASE OrderCancelled(r)
  <2>1. Cancels(r) /\ provider[order].state = "cancelled"
    BY <1>7 DEF OrderCancelled, Answered, Confirmed, Cancels, CoreInv, AnswersBacked
  <2>2. \A o \in Orders :
           purchases'[o].status = IF o = order /\ purchases[o].status # "none"
                                  THEN "8" ELSE purchases[o].status
    <3>1. UpdateNumberPurchase(order, GetDicForCancel(purchases[order]))
      BY <1>7 DEF OrderCancelled
    <3> QED
      BY <1>1, <3>1, DicStatus, RecordUpdated
  <2>3. \A o \in Orders : refunds[o] \in Nat
                          /\ refunds'[o] = IF o = order THEN refunds[o] + 1 ELSE refunds[o]
    BY <1>1, <1>7 DEF OrderCancelled, TypeOK
  <2>4. ~RepeatAccepted => /\ refunds[order] = 0
                           /\ \A x \in Requests \ {r} : Cancels(x) => http[x].order # order
    BY <2>1 DEF CoreInv, CancelledOnce
  <2>5. RefundsBacked'
    BY <1>1, <2>1, <2>3, <2>4 DEF CoreInv, RefundsBacked
  <2>6. CancelledOnce'
    BY <1>2, <2>3, <2>4 DEF CoreInv, CancelledOnce, Cancels, RequestsNamed
  <2> QED
    BY <1>1, <1>3, <1>5, <2>1, <2>2, <2>5, <2>6 DEF CoreInv
<1> QED
  BY <1>4, <1>6, <1>7

\* Every other step leaves requests, orders, records and refunds alone, or is a restart.
LEMMA CoreOthers ==
    ASSUME \/ Select
           \/ \E amount \in Amounts : AddBalance(amount) /\ UNCHANGED <<providerVars, activationVars>>
           \/ /\ InitUser \/ (\E token \in Tokens : UpdateFCMToken(token)) \/ PublicInit(ReadKinds)
              /\ UNCHANGED <<providerVars, activationVars>>
           \/ Block
           \/ FirestoreStep /\ UNCHANGED <<providerVars, activationVars>>
           \/ UNCHANGED vars
    PROVE  UNCHANGED <<http, provider, purchases, refunds>>
<1>1. CASE Select
  BY <1>1 DEF Select, firestoreVars, providerVars
<1>2. CASE \E amount \in Amounts : AddBalance(amount) /\ UNCHANGED <<providerVars, activationVars>>
  BY <1>2 DEF AddBalance, providerVars, activationVars
<1>3. CASE /\ InitUser \/ (\E token \in Tokens : UpdateFCMToken(token)) \/ PublicInit(ReadKinds)
           /\ UNCHANGED <<providerVars, activationVars>>
  BY <1>3 DEF InitUser, UpdateFCMToken, PublicInit, providerVars, activationVars
<1>4. CASE Block
  BY <1>4 DEF Block, PurchaseWritten, PurchasesFetched, BalanceWritten, BalanceFetched,
              providerVars, activationVars
<1>5. CASE FirestoreStep /\ UNCHANGED <<providerVars, activationVars>>
  BY <1>5 DEF FirestoreStep, Acknowledge, FinishRead, providerVars, activationVars
<1>6. CASE UNCHANGED vars
  BY <1>6 DEF vars, firestoreVars, providerVars, activationVars
<1> QED
  BY <1>1, <1>2, <1>3, <1>4, <1>5, <1>6

\* A launch forgets every request; the service keeps its orders.
LEMMA CoreLaunch ==
    ASSUME CoreInv, LaunchAgain, UNCHANGED <<provider, refunds>>, RecordsMatchProvider'
    PROVE  CoreInv'
<1>1. \A x \in Requests : http'[x] = Idle
  BY DEF LaunchAgain
<1>2. \A x \in Requests : http'[x].call = "idle" /\ http'[x].reply = "pending"
  BY <1>1, SentRequests
<1> QED
  BY <1>1, <1>2 DEF CoreInv, RequestsNamed, SalesUnrecorded, SoldOnce, AnswersBacked,
     CancelledOnce, RefundsBacked, Bought, Finishes, Cancels

\* A process that dies, between two closures or inside one, claims nothing unconfirmed.
LEMMA CoreDeath ==
    ASSUME TypeOK, CoreInv, Restart \/ \E r \in Requests : Killed(r)
    PROVE  /\ CoreInv'
           /\ \A o \in Orders : purchases[o].status \in {"6", "8"}
                                   => purchases'[o].status = purchases[o].status
<1>1. CASE Restart \/ \E r \in Requests : KilledAfterCharge(r)
  <2>1. LaunchAgain /\ UNCHANGED <<provider, purchases, refunds>>
    BY <1>1 DEF Restart, KilledAfterCharge
  <2>2. RecordsMatchProvider'
    BY <2>1 DEF CoreInv, RecordsMatchProvider
  <2> QED
    BY <2>1, <2>2, CoreLaunch
<1>2. ASSUME NEW r \in Requests, KilledAfterClose(r)
      PROVE  /\ CoreInv'
             /\ \A o \in Orders : purchases[o].status \in {"6", "8"}
                                     => purchases'[o].status = purchases[o].status
  <2> DEFINE order == http[r].order
  <2>1. order \in Orders /\ provider[order].state = "cancelled"
    BY <1>2 DEF KilledAfterClose, Answered, Confirmed, Cancels, CoreInv, RequestsNamed, AnswersBacked
  <2>2. \A o \in Orders :
           purchases'[o].status = IF o = order /\ purchases[o].status # "none"
                                  THEN "8" ELSE purchases[o].status
    <3>1. UpdateNumberPurchase(order, GetDicForCancel(purchases[order]))
      BY <1>2 DEF KilledAfterClose
    <3> QED
      BY <2>1, <3>1, DicStatus, RecordUpdated
  <2>3. LaunchAgain /\ UNCHANGED <<provider, refunds>>
    BY <1>2 DEF KilledAfterClose
  <2>4. RecordsMatchProvider'
    BY <2>1, <2>2, <2>3 DEF CoreInv, RecordsMatchProvider
  <2>5. purchases[order].status # "6"
    BY <2>1 DEF CoreInv, RecordsMatchProvider
  <2> QED
    BY <2>2, <2>3, <2>4, <2>5, CoreLaunch
<1> QED
  BY <1>1, <1>2 DEF Killed

\* Every step keeps the core invariant, and no step changes a closed record.
LEMMA CoreStep ==
    ASSUME TypeOK, CoreInv, [Next]_vars
    PROVE  /\ CoreInv'
           /\ \A o \in Orders : purchases[o].status \in {"6", "8"}
                                   => purchases'[o].status = purchases[o].status
<1>1. ASSUME NEW r \in Requests,
             \/ StartActivation(r) \/ CancelOrderByUser(r) \/ Tick(r) \/ StatusReceived(r)
             \/ NumberTraps(r) \/ NumberRefused(r) \/ CancelRefused(r)
      PROVE  CoreInv' /\ UNCHANGED purchases
  <2>1. UNCHANGED purchases
    BY <1>1 DEF StartActivation, CancelOrderByUser, Tick, StatusReceived, NumberTraps,
                NumberRefused, CancelRefused, firestoreVars
  <2> QED
    BY <1>1, <2>1, CoreRequests
<1>2. CASE HostCall
  BY <1>1, <1>2, CoreOthers, CoreUnchanged DEF HostCall
<1>3. ASSUME NEW r \in Requests, Tick(r) \/ Answer(r)
      PROVE  /\ CoreInv'
             /\ \A o \in Orders : purchases[o].status \in {"6", "8"}
                                     => purchases'[o].status = purchases[o].status
  BY <1>1, <1>3, CoreClosures DEF Answer
<1>4. CASE Block \/ (FirestoreStep /\ UNCHANGED <<providerVars, activationVars>>) \/ UNCHANGED vars
  BY <1>4, CoreOthers, CoreUnchanged
<1>5. CASE ProviderStep /\ UNCHANGED <<firestoreVars, balanceVars, activationVars>>
  <2>1. UNCHANGED <<purchases, refunds>>
    BY <1>5 DEF firestoreVars, activationVars
  <2> QED
    BY <1>5, <2>1, CoreProvider
<1>6. CASE Restart \/ \E r \in Requests : Killed(r)
  BY <1>6, CoreDeath
<1> QED
  BY <1>2, <1>3, <1>4, <1>5, <1>6 DEF Next

\* The initial states: no request, no order, no record, no refund.
LEMMA CoreInit ==
    ASSUME Init
    PROVE  SessionConsistent /\ CoreInv
<1>1. SessionConsistent
  BY DEF Init, SessionConsistent
<1>2. \A x \in Requests : http[x].call = "idle" /\ http[x].reply = "pending"
  BY SentRequests DEF Init, ProviderInit
<1>3. \A o \in Orders : purchases[o].status = "none" /\ refunds[o] = 0
  BY DEF Init, BalanceInit, NoPurchases, NoPurchase
<1> QED
  BY <1>1, <1>2, <1>3 DEF CoreInv, RequestsNamed, SalesUnrecorded, SoldOnce, AnswersBacked,
     CancelledOnce, RecordsMatchProvider, RefundsBacked, Bought, Finishes, Cancels

-----------------------------------------------------------------------------
(***************************************************************************)
(* IInv is an inductive invariant of the SDK, the library and the service. *)
(***************************************************************************)
THEOREM Invariance == Spec => []IInv
<1>1. Init => IInv
  BY TypeInit, CoreInit DEF IInv
<1>2. IInv /\ [Next]_vars => IInv'
  <2> SUFFICES ASSUME IInv, [Next]_vars PROVE IInv'
    OBVIOUS
  <2>1. RequestsNamed
    BY DEF IInv, CoreInv
  <2> QED
    BY <2>1, TypeStep, SessionStep, CoreStep DEF IInv
<1> QED
  BY <1>1, <1>2, PTL DEF Spec

\* Every variable keeps its type; the countdown of startTimer stays in 0 .. Timeout.
THEOREM TypeCorrect == Spec => []TypeOK
<1>1. IInv => TypeOK
  BY DEF IInv
<1> QED
  BY <1>1, Invariance, PTL

\* startTimer and stopTimer keep order, timer and isTimerRunning in agreement.
THEOREM SessionAgrees == Spec => []SessionConsistent
<1>1. IInv => SessionConsistent
  BY DEF IInv
<1> QED
  BY <1>1, Invariance, PTL

(***************************************************************************)
(* The records finishOrder, cancelOrder and cancelOrderByUser write never  *)
(* claim what the service has not confirmed.                               *)
(***************************************************************************)
THEOREM RecordsSound == Spec => []RecordsMatchProvider
<1>1. IInv => RecordsMatchProvider
  BY DEF IInv, CoreInv
<1> QED
  BY <1>1, Invariance, PTL

(***************************************************************************)
(* Refunds go to orders the service has cancelled, and at most one to each *)
(* if the service accepts a cancellation once, for any number of cancel    *)
(* requests of the timer and the user.                                     *)
(***************************************************************************)
THEOREM RefundsSound == Spec => []RefundsBacked
<1>1. IInv => RefundsBacked
  BY DEF IInv, CoreInv
<1> QED
  BY <1>1, Invariance, PTL

\* No step of any closure reopens or reverses a record that is closed.
THEOREM ClosedForGood == Spec => ClosedRecordsStay
<1> DEFINE Stays == \A o \in Orders : purchases[o].status \in {"6", "8"}
                                         => purchases'[o].status = purchases[o].status
<1>1. IInv /\ [Next]_vars => [Stays]_vars
  BY CoreStep DEF IInv
<1> QED
  BY <1>1, Invariance, PTL DEF Spec, ClosedRecordsStay
=============================================================================
