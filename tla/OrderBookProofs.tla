--------------------------- MODULE OrderBookProofs ---------------------------
(***************************************************************************)
(* Activation implements OrderBook, for every instance.                    *)
(***************************************************************************)
EXTENDS ActivationProofs

(***************************************************************************)
(* What the steps of the closures need beyond IInv: an order that a        *)
(* request or the session names has a record; a refund belongs to a record *)
(* that says "8"; an order cancelled without a refund is named by nobody,  *)
(* so that nobody can credit it later; and an order that has been charged  *)
(* is not sold again.                                                      *)
(***************************************************************************)
AboutOrder(call) == call \in {"getStatus", "finish", "cancel"}

SessionRecorded ==
    currentActivation # Nil => purchases[currentActivation].status # "none"

RequestsRecorded ==
    \A r \in Requests : AboutOrder(http[r].call) => purchases[http[r].order].status # "none"

RefundsRecorded == \A o \in Orders : refunds[o] > 0 => purchases[o].status = "8"

Unrefunded(o) == purchases[o].status = "8" /\ refunds[o] = 0

UnrefundedForgotten ==
    \A o \in Orders : Unrefunded(o) =>
        /\ currentActivation # o
        /\ \A r \in Requests : AboutOrder(http[r].call) => http[r].order # o

ChargedOnce ==
    /\ \A o \in charged : provider[o].state # "unsold"
    /\ \A r \in Requests : Bought(r) => http[r].order \notin charged

BookInv ==
    /\ SessionRecorded
    /\ RequestsRecorded
    /\ RefundsRecorded
    /\ UnrefundedForgotten
    /\ ChargedOnce

-----------------------------------------------------------------------------
(***************************************************************************)
(* Records never disappear, so it is enough that a request that is sent    *)
(* names the session's order and that a new session has an open record.    *)
(***************************************************************************)
LEMMA BookFrame ==
    ASSUME IInv, BookInv, RefundsRecorded', ChargedOnce', IInv',
           \A o \in Orders : Unrefunded(o)' => Unrefunded(o),
           \A o \in Orders : purchases[o].status # "none" => purchases'[o].status # "none",
           \A r \in Requests : AboutOrder(http'[r].call) =>
              \/ http[r].call = http'[r].call /\ http[r].order = http'[r].order
              \/ currentActivation # Nil /\ http'[r].order = currentActivation,
           \/ currentActivation' \in {currentActivation, Nil}
           \/ purchases'[currentActivation'].status = "1"
    PROVE  BookInv'
<1>1. currentActivation \in Orders \cup {Nil} /\ Nil \notin Orders
  BY FirestoreAssumption DEF IInv, TypeOK
<1>2. SessionRecorded'
  BY <1>1 DEF BookInv, SessionRecorded
<1>3. \A r \in Requests : AboutOrder(http[r].call) => http[r].order \in Orders
  BY DEF IInv, CoreInv, RequestsNamed, AboutOrder
<1>4. RequestsRecorded'
  BY <1>1, <1>3 DEF BookInv, RequestsRecorded, SessionRecorded, AboutOrder
<1>5. ASSUME NEW o \in Orders, Unrefunded(o)'
      PROVE  currentActivation' # o /\ \A r \in Requests : AboutOrder(http'[r].call) => http'[r].order # o
  <2>1. /\ currentActivation # o
        /\ \A r \in Requests : AboutOrder(http[r].call) => http[r].order # o
    BY <1>5 DEF BookInv, UnrefundedForgotten
  <2>2. purchases'[o].status # "1"
    BY <1>5 DEF Unrefunded
  <2> QED
    BY <1>1, <2>1, <2>2 DEF AboutOrder
<1>6. UnrefundedForgotten'
  BY <1>5 DEF UnrefundedForgotten
<1> QED
  BY <1>2, <1>4, <1>6 DEF BookInv

\* Steps that leave records and the history alone and answer no sale.
LEMMA HistoryKept ==
    ASSUME BookInv, UNCHANGED <<purchases, charged, refunds, provider>>,
           \A r \in Requests : Bought(r)' => Bought(r) /\ http'[r].order = http[r].order
    PROVE  /\ RefundsRecorded' /\ ChargedOnce'
           /\ \A o \in Orders : Unrefunded(o)' => Unrefunded(o)
BY DEF BookInv, RefundsRecorded, ChargedOnce, Unrefunded

\* The calls of the requests that the SDK sends.
LEMMA SentCalls ==
    /\ \A o : GetStatus(o).order = o
    /\ \A o : SetStatusCancel(o).order = o
    /\ \A o, c : SetStatusFinish(o, c).order = o
    /\ \A s, c : ~AboutOrder(BuyNumber(s, c).call)
    /\ ~AboutOrder(Idle.call)
BY DEF GetStatus, SetStatusCancel, SetStatusFinish, BuyNumber, Idle, AboutOrder

\* A slot that is filled or emptied; the others are as they were.
LEMMA SlotOnly ==
    ASSUME TypeOK, NEW r \in Requests, NEW q, http' = [http EXCEPT ![r] = q]
    PROVE  \A x \in Requests : http'[x] = IF x = r THEN q ELSE http[x]
BY DEF TypeOK, ProviderTypeOK

\* Steps of the SDK that only send a request or drop an answer.
LEMMA BookRequests ==
    ASSUME IInv, IInv', BookInv, NEW r \in Requests,
           \/ StartActivation(r) \/ CancelOrderByUser(r) \/ Tick(r) \/ StatusReceived(r)
           \/ NumberTraps(r) \/ NumberRefused(r) \/ CancelRefused(r)
    PROVE  BookInv' /\ UNCHANGED <<purchases, charged, refunds, ledger>>
<1>1. UNCHANGED <<purchases, charged, refunds, provider, currentActivation, ledger>>
  BY DEF StartActivation, CancelOrderByUser, Tick, StatusReceived, NumberTraps, NumberRefused,
         CancelRefused, firestoreVars, activationVars, sessionVars, balanceVars
<1>2. TypeOK
  BY DEF IInv
<1>3. \/ UNCHANGED http
      \/ http' = [http EXCEPT ![r] = Idle]
      \/ http' = [http EXCEPT ![r] = BuyNumber(selectedService, selectedCountry)]
      \/ /\ currentActivation # Nil
         /\ \/ http' = [http EXCEPT ![r] = GetStatus(currentActivation)]
            \/ http' = [http EXCEPT ![r] = SetStatusCancel(currentActivation)]
            \/ http' = [http EXCEPT ![r] = SetStatusFinish(currentActivation, http[r].order)]
  <2>1. CASE StatusReceived(r)
    BY <2>1 DEF StatusReceived, FinishOrder, Release
  <2>2. CASE StartActivation(r)
    BY <2>2 DEF StartActivation, Send
  <2>3. CASE CancelOrderByUser(r) \/ Tick(r)
    BY <2>3 DEF CancelOrderByUser, Tick, TimerFires, CheckNumber, CancelOrder, Send
  <2>4. CASE NumberTraps(r) \/ NumberRefused(r) \/ CancelRefused(r)
    BY <2>4 DEF NumberTraps, NumberRefused, CancelRefused, Release
  <2> QED
    BY <2>1, <2>2, <2>3, <2>4
<1>4. \A x \in Requests : AboutOrder(http'[x].call) =>
         \/ http[x].call = http'[x].call /\ http[x].order = http'[x].order
         \/ currentActivation # Nil /\ http'[x].order = currentActivation
  BY <1>2, <1>3, SlotOnly, SentCalls
<1>5. \A x \in Requests : Bought(x)' => Bought(x) /\ http'[x].order = http[x].order
  BY <1>2, <1>3, SlotOnly, SentRequests DEF Bought
<1>6. /\ RefundsRecorded' /\ ChargedOnce'
      /\ \A o \in Orders : Unrefunded(o)' => Unrefunded(o)
  BY <1>1, <1>5, HistoryKept
<1> QED
  BY <1>1, <1>4, <1>6, BookFrame

\* The service answers requests and changes nothing of the SDK.
LEMMA BookProvider ==
    ASSUME IInv, IInv', BookInv, ProviderStep,
           UNCHANGED <<purchases, charged, refunds, currentActivation>>
    PROVE  BookInv'
<1>1. \A x \in Requests : AboutOrder(http'[x].call) =>
         http[x].call = http'[x].call /\ http[x].order = http'[x].order
  <2> USE DEF IInv, TypeOK, ProviderTypeOK
  <2>1. ASSUME NEW r \in Requests, NEW o \in Orders, Sell(r, o)
        PROVE  \A x \in Requests : http'[x].call = http[x].call
                                   /\ (x # r => http'[x] = http[x]) /\ http[r].call = "getNumber"
    BY <2>1 DEF Sell, Pending, Request
  <2>2. ASSUME NEW r \in Requests, NEW text, Reply(r, text)
        PROVE  \A x \in Requests : http[x].call = http'[x].call /\ http[x].order = http'[x].order
    BY <2>2 DEF Reply, Request
  <2>3. ASSUME NEW r \in Requests,
               \/ RefuseNumber(r) \/ ReportStatus(r) \/ Lose(r)
               \/ \E call \in SetStatusCalls :
                     Accept(r, call) \/ AcceptAgain(r, call) \/ Refuse(r, call)
        PROVE  \E text : Reply(r, text)
    BY <2>3 DEF RefuseNumber, ReportStatus, Lose, Accept, AcceptAgain, Refuse
  <2>4. ASSUME NEW o \in Orders, CodeArrives(o)
        PROVE  UNCHANGED http
    BY <2>4 DEF CodeArrives
  <2> QED
    BY <2>1, <2>2, <2>3, <2>4 DEF ProviderStep, Serve, AboutOrder
<1>2. RefundsRecorded' /\ \A o \in Orders : Unrefunded(o)' => Unrefunded(o)
  BY DEF BookInv, RefundsRecorded, Unrefunded
<1>3. ChargedOnce'
  <2> USE DEF IInv, TypeOK, ProviderTypeOK
  <2>1. ASSUME NEW r \in Requests, NEW o \in Orders, Sell(r, o)
        PROVE  ChargedOnce'
    <3>1. provider[o].state = "unsold" /\ o \notin charged
      BY <2>1 DEF Sell, BookInv, ChargedOnce
    <3>2. \A x \in Requests : http'[x] = http[x] \/ http'[x].order = o
      BY <2>1 DEF Sell, Request
    <3>3. \A p \in Orders : provider'[p].state = IF p = o THEN "waiting" ELSE provider[p].state
      BY <2>1 DEF Sell, SoldOrder
    <3> QED
      BY <3>1, <3>2, <3>3 DEF BookInv, ChargedOnce, Bought
  <2>2. ASSUME NEW r \in Requests, NEW text, Reply(r, text), text # "ACCESS_NUMBER"
        PROVE  \A x \in Requests : Bought(x)' => Bought(x) /\ http'[x].order = http[x].order
    BY <2>2 DEF Reply, Request, Bought
  <2>3. ASSUME NEW r \in Requests,
               \/ RefuseNumber(r) \/ ReportStatus(r) \/ Lose(r)
               \/ \E call \in SetStatusCalls :
                     Accept(r, call) \/ AcceptAgain(r, call) \/ Refuse(r, call)
        PROVE  \E text : Reply(r, text) /\ text # "ACCESS_NUMBER"
    <3>1. \A call \in SetStatusCalls : Access(call) # "ACCESS_NUMBER"
      BY DEF Access
    <3>2. ASSUME NEW call \in SetStatusCalls, Accept(r, call) \/ AcceptAgain(r, call)
          PROVE  Reply(r, Access(call))
      BY <3>2 DEF Accept, AcceptAgain
    <3>3. ASSUME RefuseNumber(r) \/ ReportStatus(r) \/ Lose(r)
                 \/ \E call \in SetStatusCalls : Refuse(r, call)
          PROVE  \E text \in {"NO_NUMBERS", "STATUS_OK", "STATUS_WAIT_CODE", "nil", "BAD_STATUS"} :
                    Reply(r, text)
      BY <3>3 DEF RefuseNumber, ReportStatus, Lose, Refuse
    <3>4. \A text \in {"NO_NUMBERS", "STATUS_OK", "STATUS_WAIT_CODE", "nil", "BAD_STATUS"} :
             text # "ACCESS_NUMBER"
      OBVIOUS
    <3> QED
      BY <2>3, <3>1, <3>2, <3>3, <3>4, Zenon
  <2>4. \A o \in Orders : provider[o].state # "unsold" => provider'[o].state # "unsold"
    <3>1. ASSUME NEW p \in Orders, NEW sold \in {"waiting", "received", "finished", "cancelled"},
                 \/ provider' = [provider EXCEPT ![p].state = sold]
                 \/ \E s, c : provider' = [provider EXCEPT ![p] = [state |-> sold, service |-> s,
                                                                  country |-> c]]
          PROVE  \A o \in Orders : provider[o].state # "unsold" => provider'[o].state # "unsold"
      BY <3>1 DEF SoldOrder
    <3>2. ASSUME NEW r \in Requests, NEW call \in SetStatusCalls, Accept(r, call)
          PROVE  /\ http[r].order \in Orders
                 /\ Final(call) \in {"waiting", "received", "finished", "cancelled"}
                 /\ provider' = [provider EXCEPT ![http[r].order].state = Final(call)]
      BY <3>2 DEF Accept, Pending, SetStatusCalls, Final, CoreInv, RequestsNamed
    <3>3. ASSUME NEW r \in Requests,
                 \/ RefuseNumber(r) \/ ReportStatus(r) \/ Lose(r)
                 \/ \E call \in SetStatusCalls : AcceptAgain(r, call) \/ Refuse(r, call)
          PROVE  UNCHANGED provider
      BY <3>3 DEF RefuseNumber, ReportStatus, Lose, AcceptAgain, Refuse
    <3>4. CASE \E r \in Requests, o \in Orders : Sell(r, o)
      BY <3>1, <3>4 DEF Sell
    <3>5. CASE \E r \in Requests, call \in SetStatusCalls : Accept(r, call)
      BY <3>1, <3>2, <3>5
    <3>6. CASE \E o \in Orders : CodeArrives(o)
      BY <3>1, <3>6 DEF CodeArrives
    <3> QED
      BY <3>3, <3>4, <3>5, <3>6 DEF ProviderStep, Serve
  <2>5. ASSUME \A x \in Requests : Bought(x)' => Bought(x) /\ http'[x].order = http[x].order
        PROVE  ChargedOnce'
    BY <2>4, <2>5 DEF BookInv, ChargedOnce
  <2>6. ASSUME NEW o \in Orders, CodeArrives(o)
        PROVE  ChargedOnce'
    BY <2>5, <2>6 DEF CodeArrives, Bought
  <2> QED
    BY <2>1, <2>2, <2>3, <2>5, <2>6 DEF ProviderStep, Serve
<1> QED
  BY <1>1, <1>2, <1>3, BookFrame

-----------------------------------------------------------------------------
(***************************************************************************)
(* The closures that write a record, as steps of the book.                 *)
(***************************************************************************)
Statuses == [o \in Orders |-> BookStatus(o)]

\* A closure leaves at most one slot different, and that one empty.
LEMMA ClosureSlots ==
    ASSUME TypeOK, NEW r \in Requests, Release(r)
    PROVE  \A x \in Requests : AboutOrder(http'[x].call) =>
              http[x].call = http'[x].call /\ http[x].order = http'[x].order
BY Released DEF AboutOrder

\* The order that a closure takes over is new to the book, and is sold once.
LEMMA SoldOrderNew ==
    ASSUME IInv, BookInv, NEW r \in Requests, Bought(r)
    PROVE  /\ http[r].order \in Orders
           /\ BookStatus(http[r].order) = "none"
           /\ purchases[http[r].order].status = "none"
           /\ refunds[http[r].order] = 0
           /\ provider[http[r].order].state # "unsold"
           /\ \A x \in Requests \ {r} : Bought(x) => http[x].order # http[r].order
<1>1. http[r].order \in Orders
  BY DEF Bought, IInv, CoreInv, RequestsNamed
<1>2. /\ purchases[http[r].order].status = "none"
      /\ provider[http[r].order].state # "unsold"
      /\ http[r].order \notin charged
  BY DEF IInv, CoreInv, SalesUnrecorded, BookInv, ChargedOnce
<1>3. refunds[http[r].order] = 0
  BY <1>1, <1>2 DEF IInv, TypeOK, BookInv, RefundsRecorded
<1>4. \A x \in Requests \ {r} : Bought(x) => http[x].order # http[r].order
  BY DEF IInv, CoreInv, SoldOnce
<1> QED
  BY <1>1, <1>2, <1>3, <1>4 DEF BookStatus

LEMMA BoughtStep ==
    ASSUME IInv, IInv', BookInv, NEW r \in Requests, NumberBought(r)
    PROVE  BookInv' /\ Book!BookNext
<1>0. Bought(r)
  BY DEF NumberBought, Answered, Bought
<1> DEFINE order == http[r].order
<1>1. TypeOK /\ order \in Orders
  BY <1>0, SoldOrderNew DEF IInv
<1>2. \A o \in Orders : purchases'[o].status = IF o = order THEN "1" ELSE purchases[o].status
  BY <1>1 DEF NumberBought, InitNumberPurchase, CreateDic, TypeOK, BalanceTypeOK, FirestoreTypeOK
<1>3. /\ currentActivation' = order /\ UNCHANGED <<refunds, provider>>
      /\ charged' = charged \cup {order}
  BY DEF NumberBought, StartPurchase
<1>4. ledger' = ledger - 1
  BY <1>1 DEF NumberBought, UpdateUserBalance, WriteBalance, Change, TypeOK, BalanceTypeOK
<1>5. Release(r)
  BY DEF NumberBought
<1>6. RefundsRecorded' /\ \A o \in Orders : Unrefunded(o)' => Unrefunded(o)
  BY <1>0, <1>1, <1>2, <1>3, SoldOrderNew DEF BookInv, RefundsRecorded, Unrefunded, IInv, TypeOK
<1>7. ChargedOnce'
  BY <1>0, <1>1, <1>3, <1>5, SoldOrderNew, Released DEF BookInv, ChargedOnce, Bought
<1>8. BookInv'
  BY <1>0, <1>1, <1>2, <1>3, <1>5, <1>6, <1>7, SoldOrderNew, ClosureSlots, BookFrame
<1>9. Book!OpenOrder(order)
  <2>1. \A o \in Orders : BookStatus(o)' = IF o = order THEN "1" ELSE BookStatus(o)
    BY <1>1, <1>2, <1>3 DEF BookStatus
  <2> QED
    BY <1>0, <1>1, <1>4, <2>1, SoldOrderNew DEF Book!OpenOrder, Book!Moves
<1> QED
  BY <1>1, <1>8, <1>9 DEF Book!BookNext

\* The closures that close a record keep the sales and the charges as they are.
LEMMA ClosureCharges ==
    ASSUME TypeOK, BookInv, NEW r \in Requests, Release(r), UNCHANGED <<provider, charged>>
    PROVE  ChargedOnce'
BY Released DEF BookInv, ChargedOnce, Bought

LEMMA FinishedStep ==
    ASSUME IInv, IInv', BookInv, NEW r \in Requests, OrderFinished(r)
    PROVE  BookInv' /\ [Book!BookNext]_<<Statuses, ledger>>
<1>0. PICK order \in Orders : order = http[r].order
  BY DEF OrderFinished, Answered, IInv, CoreInv, RequestsNamed
<1>1. /\ TypeOK
      /\ purchases[order].status # "none"
  BY <1>0 DEF OrderFinished, Answered, IInv, CoreInv, RequestsNamed, BookInv, RequestsRecorded, AboutOrder
<1>2. UNCHANGED <<charged, refunds, ledger, provider>> /\ Release(r)
  BY <1>0 DEF OrderFinished
<1>3. currentActivation' \in {currentActivation, Nil} /\ ChargedOnce'
  BY <1>0, <1>1, <1>2, ClosureCharges DEF OrderFinished, StopTimer, sessionVars
<1>4. CASE http[r].reply = "ACCESS_ACTIVATION"
  <2>1. UpdateNumberPurchase(order, GetDicForFinish(purchases[order], http[r].code))
    BY <1>0, <1>4 DEF OrderFinished, Confirmed
  <2>2. http[r].code \in Orders \cup {Nil}
    BY <1>0, <1>1 DEF TypeOK, ProviderTypeOK, Request
  <2>3. \A o \in Orders : purchases'[o].status = IF o = order THEN "6" ELSE purchases[o].status
    BY <1>0, <1>1, <2>1, <2>2, DicStatus, RecordUpdated
  <2>4. purchases[order].status \in {"1", "6"}
    <3>1. provider[order].state = "finished"
      BY <1>0, <1>4 DEF OrderFinished, Answered, Finishes, IInv, CoreInv, AnswersBacked
    <3>2. purchases[order].status \in {"none", "1", "6", "8"}
      BY <1>0, <1>1 DEF TypeOK, BalanceTypeOK, FirestoreTypeOK, Purchase
    <3> QED
      BY <1>0, <1>1, <3>1, <3>2 DEF IInv, CoreInv, RecordsMatchProvider
  <2>5. RefundsRecorded' /\ \A o \in Orders : Unrefunded(o)' => Unrefunded(o)
    BY <1>2, <2>3, <2>4 DEF BookInv, RefundsRecorded, Unrefunded
  <2>6. BookInv'
    BY <1>0, <1>1, <1>2, <1>3, <2>3, <2>5, ClosureSlots, BookFrame
  <2>7. \A o \in Orders : BookStatus(o)' = IF o = order THEN "6" ELSE BookStatus(o)
    BY <1>2, <2>3 DEF BookStatus
  <2>8. BookStatus(order) = purchases[order].status
    BY <2>4 DEF BookStatus
  <2>9. CASE purchases[order].status = "1"
    <3>1. Book!FinishOrder(order)
      BY <1>0, <1>2, <2>7, <2>8, <2>9 DEF Book!FinishOrder, Book!Moves
    <3> QED
      BY <1>0, <1>1, <2>6, <3>1 DEF Book!BookNext
  <2>10. CASE purchases[order].status = "6"
    BY <1>2, <2>6, <2>7, <2>8, <2>10 DEF Statuses
  <2> QED
    BY <2>4, <2>9, <2>10
<1>5. CASE http[r].reply # "ACCESS_ACTIVATION"
  <2>1. UNCHANGED purchases
    BY <1>5 DEF OrderFinished, Confirmed
  <2>2. RefundsRecorded' /\ \A o \in Orders : Unrefunded(o)' => Unrefunded(o)
    BY <1>2, <2>1 DEF BookInv, RefundsRecorded, Unrefunded
  <2> QED
    BY <1>0, <1>1, <1>2, <1>3, <2>1, <2>2, ClosureSlots, BookFrame DEF Statuses, BookStatus
<1> QED
  BY <1>4, <1>5

\* The record a cancel closure is about to write is open, or closed and credited already.
LEMMA CancelTarget ==
    ASSUME IInv, BookInv, NEW r \in Requests, NEW order \in Orders, order = http[r].order,
           Cancels(r)
    PROVE  \/ purchases[order].status = "1" /\ refunds[order] = 0
           \/ RepeatAccepted /\ purchases[order].status = "8" /\ refunds[order] > 0
<1>1. AboutOrder(http[r].call) /\ provider[order].state = "cancelled"
  BY DEF Cancels, AboutOrder, IInv, CoreInv, AnswersBacked
<1>2. purchases[order].status \in {"none", "1", "6", "8"} /\ refunds[order] \in Nat
  BY DEF IInv, TypeOK, BalanceTypeOK, FirestoreTypeOK, Purchase
<1>3. purchases[order].status \notin {"none", "6"}
  BY <1>1 DEF IInv, CoreInv, RecordsMatchProvider, BookInv, RequestsRecorded
<1>4. ~RepeatAccepted => refunds[order] = 0
  BY DEF IInv, CoreInv, CancelledOnce
<1>5. ~Unrefunded(order)
  BY <1>1 DEF BookInv, UnrefundedForgotten
<1>6. refunds[order] > 0 => purchases[order].status = "8"
  BY DEF BookInv, RefundsRecorded
<1> QED
  BY <1>2, <1>3, <1>4, <1>5, <1>6 DEF Unrefunded

\* A cancel closure finds its record open, or the service has repeated itself.
LEMMA CancelledStep ==
    ASSUME IInv, IInv', BookInv, NEW r \in Requests, OrderCancelled(r)
    PROVE  BookInv' /\ Book!BookNext
<1>0. PICK order \in Orders : order = http[r].order
  BY DEF OrderCancelled, Answered, IInv, CoreInv, RequestsNamed
<1>1. TypeOK /\ Cancels(r)
  BY <1>0 DEF OrderCancelled, Answered, Confirmed, Cancels, IInv
<1>2. /\ currentActivation' \in {currentActivation, Nil} /\ Release(r)
      /\ UNCHANGED <<charged, provider>>
  BY <1>0 DEF OrderCancelled, StopTimer
<1>3. ledger' = ledger + 1
  BY <1>0, <1>1 DEF OrderCancelled, UpdateUserBalance, WriteBalance, Change, TypeOK, BalanceTypeOK
<1>4. purchases[order].status # "none"
  BY <1>0, <1>1, CancelTarget
<1>5. \A o \in Orders : purchases'[o].status = IF o = order THEN "8" ELSE purchases[o].status
  <2>1. UpdateNumberPurchase(order, GetDicForCancel(purchases[order]))
    BY <1>0 DEF OrderCancelled
  <2> QED
    BY <1>0, <1>1, <1>4, <2>1, DicStatus, RecordUpdated
<1>6. \A o \in Orders : refunds[o] \in Nat
                        /\ refunds'[o] = IF o = order THEN refunds[o] + 1 ELSE refunds[o]
  BY <1>0, <1>1 DEF OrderCancelled, TypeOK
<1>7. RefundsRecorded' /\ \A o \in Orders : Unrefunded(o)' => Unrefunded(o)
  BY <1>5, <1>6 DEF BookInv, RefundsRecorded, Unrefunded
<1>8. BookInv'
  BY <1>0, <1>1, <1>2, <1>5, <1>7, ClosureSlots, ClosureCharges, BookFrame
<1>9. \A o \in Orders : BookStatus(o)' = IF o = order THEN "8" ELSE BookStatus(o)
  BY <1>2, <1>5, <1>6 DEF BookStatus
<1>10. Book!CancelOrder(order) \/ Book!CreditAgain(order)
  <2>1. CASE purchases[order].status = "1" /\ refunds[order] = 0
    <3>1. BookStatus(order) = "1"
      BY <2>1 DEF BookStatus
    <3> QED
      BY <1>0, <1>3, <1>9, <3>1 DEF Book!CancelOrder, Book!Moves
  <2>2. CASE RepeatAccepted /\ purchases[order].status = "8" /\ refunds[order] > 0
    <3>1. BookStatus(order) = "8"
      BY <2>2 DEF BookStatus
    <3> QED
      BY <1>0, <1>3, <1>9, <2>2, <3>1 DEF Book!CreditAgain
  <2> QED
    BY <1>0, <1>1, <2>1, <2>2, CancelTarget
<1> QED
  BY <1>0, <1>1, <1>8, <1>10 DEF Book!BookNext

\* Steps that leave requests, orders, records, history and the session alone.
LEMMA BookUnchanged ==
    ASSUME BookInv, UNCHANGED <<http, provider, purchases, charged, refunds, currentActivation>>
    PROVE  BookInv' /\ UNCHANGED Statuses
BY DEF BookInv, SessionRecorded, RequestsRecorded, RefundsRecorded, UnrefundedForgotten, Unrefunded,
       ChargedOnce, Bought, Statuses, BookStatus

\* The host's calls about the balance are top-ups, resets or nothing to the book.
LEMMA HostStep ==
    ASSUME BookInv, UNCHANGED <<providerVars, activationVars>>,
           \/ \E amount \in Amounts : AddBalance(amount)
           \/ InitUser
           \/ \E token \in Tokens : UpdateFCMToken(token)
           \/ PublicInit(ReadKinds)
    PROVE  BookInv' /\ [Book!BookNext]_<<Statuses, ledger>>
<1>1. UNCHANGED <<http, provider, charged, refunds, currentActivation>>
  BY DEF providerVars, activationVars, sessionVars
<1>2. UNCHANGED purchases
  BY DEF AddBalance, InitUser, UpdateFCMToken, PublicInit
<1>3. BookInv' /\ UNCHANGED Statuses
  BY <1>1, <1>2, BookUnchanged
<1>4. ASSUME NEW amount \in Amounts, AddBalance(amount)
      PROVE  Book!BookNext
  <2>1. Book!TopUp(amount)
    BY <1>3, <1>4 DEF AddBalance, UpdateUserBalance, WriteBalance, Change, Book!TopUp, Statuses
  <2> QED
    BY <2>1 DEF Book!BookNext
<1>5. CASE InitUser
  <2>1. Book!ResetAccount
    BY <1>3, <1>5 DEF InitUser, Book!ResetAccount, Statuses
  <2> QED
    BY <1>3, <2>1 DEF Book!BookNext
<1>6. CASE (\E token \in Tokens : UpdateFCMToken(token)) \/ PublicInit(ReadKinds)
  BY <1>3, <1>6 DEF UpdateFCMToken, PublicInit, balanceVars
<1> QED
  BY <1>3, <1>4, <1>5, <1>6

\* Selecting, completion blocks and the library's own steps are nothing to the book.
LEMMA QuietStep ==
    ASSUME BookInv,
           \/ Select
           \/ Block
           \/ FirestoreStep /\ UNCHANGED <<providerVars, activationVars>>
           \/ UNCHANGED vars
    PROVE  BookInv' /\ UNCHANGED <<Statuses, ledger>>
<1>1. UNCHANGED <<http, provider, purchases, refunds>>
  BY CoreOthers
<1>2. UNCHANGED <<currentActivation, charged, ledger>>
  <2>1. CASE Select
    BY <2>1 DEF Select, sessionVars, balanceVars
  <2>2. CASE Block
    BY <2>2 DEF Block, PurchaseWritten, PurchasesFetched, BalanceWritten, BalanceFetched,
                activationVars, sessionVars, balanceVars
  <2>3. CASE FirestoreStep /\ UNCHANGED <<providerVars, activationVars>>
    BY <2>3 DEF FirestoreStep, activationVars, sessionVars, balanceVars
  <2>4. CASE UNCHANGED vars
    BY <2>4 DEF vars, activationVars, sessionVars, balanceVars
  <2> QED
    BY <2>1, <2>2, <2>3, <2>4
<1> QED
  BY <1>1, <1>2, BookUnchanged

(***************************************************************************)
(* The death of the process.  A launch forgets the session and every       *)
(* request, so an order left half done is named by nobody any more.        *)
(***************************************************************************)
LEMMA BookLaunch ==
    ASSUME LaunchAgain, RefundsRecorded', \A o \in charged' : provider'[o].state # "unsold"
    PROVE  BookInv'
<1>1. currentActivation' = Nil /\ \A x \in Requests : http'[x] = Idle
  BY DEF LaunchAgain
<1>2. \A x \in Requests : ~AboutOrder(http'[x].call) /\ ~Bought(x)'
  BY <1>1, SentCalls, SentRequests DEF Bought
<1>3. \A o \in Orders : o # Nil
  BY FirestoreAssumption
<1> QED
  BY <1>1, <1>2, <1>3
     DEF BookInv, SessionRecorded, RequestsRecorded, UnrefundedForgotten, ChargedOnce

\* Between two closures it is nothing to the book.
LEMMA RestartStep ==
    ASSUME BookInv, Restart
    PROVE  BookInv' /\ UNCHANGED <<Statuses, ledger>>
<1>1. LaunchAgain /\ UNCHANGED <<purchases, provider, charged, refunds, ledger>>
  BY DEF Restart
<1>2. RefundsRecorded' /\ \A o \in charged' : provider'[o].state # "unsold"
  BY <1>1 DEF BookInv, RefundsRecorded, ChargedOnce
<1> QED
  BY <1>1, <1>2, BookLaunch DEF Statuses, BookStatus

\* Between the charge and the record.
LEMMA KilledAfterChargeStep ==
    ASSUME IInv, BookInv, NEW r \in Requests, KilledAfterCharge(r)
    PROVE  BookInv' /\ Book!BookNext
<1>0. Bought(r)
  BY DEF KilledAfterCharge, Answered, Bought
<1> DEFINE order == http[r].order
<1>1. /\ LaunchAgain /\ UNCHANGED <<purchases, provider, refunds>>
      /\ charged' = charged \cup {order}
      /\ "restart" \in Faults
  BY DEF KilledAfterCharge
<1>2. order \in Orders /\ ledger' = ledger - 1
  BY <1>0, SoldOrderNew
     DEF KilledAfterCharge, WriteBalance, Change, IInv, TypeOK, BalanceTypeOK
<1>3. BookInv'
  <2>1. RefundsRecorded' /\ \A o \in charged' : provider'[o].state # "unsold"
    BY <1>0, <1>1, SoldOrderNew DEF BookInv, RefundsRecorded, ChargedOnce
  <2> QED
    BY <1>1, <2>1, BookLaunch
<1>4. \A o \in Orders : BookStatus(o)' = IF o = order THEN "unrecorded" ELSE BookStatus(o)
  BY <1>0, <1>1, SoldOrderNew DEF BookStatus
<1>5. Book!ChargeOnly(order)
  BY <1>0, <1>1, <1>2, <1>4, SoldOrderNew DEF Book!ChargeOnly, Book!Moves
<1> QED
  BY <1>2, <1>3, <1>5 DEF Book!BookNext

\* Between the record and the refund; a record that is closed already loses nothing.
LEMMA KilledAfterCloseStep ==
    ASSUME IInv, BookInv, NEW r \in Requests, KilledAfterClose(r)
    PROVE  BookInv' /\ [Book!BookNext]_<<Statuses, ledger>>
<1>0. PICK order \in Orders : order = http[r].order
  BY DEF KilledAfterClose, Answered, IInv, CoreInv, RequestsNamed
<1>1. TypeOK /\ Cancels(r)
  BY <1>0 DEF KilledAfterClose, Answered, Confirmed, Cancels, IInv
<1>2. /\ LaunchAgain /\ UNCHANGED <<provider, charged, refunds, ledger>>
      /\ "restart" \in Faults
  BY <1>0 DEF KilledAfterClose
<1>3. purchases[order].status # "none"
  BY <1>0, <1>1, CancelTarget
<1>4. \A o \in Orders : purchases'[o].status = IF o = order THEN "8" ELSE purchases[o].status
  <2>1. UpdateNumberPurchase(order, GetDicForCancel(purchases[order]))
    BY <1>0 DEF KilledAfterClose
  <2> QED
    BY <1>0, <1>1, <1>3, <2>1, DicStatus, RecordUpdated
<1>5. BookInv'
  <2>1. RefundsRecorded' /\ \A o \in charged' : provider'[o].state # "unsold"
    BY <1>2, <1>4 DEF BookInv, RefundsRecorded, ChargedOnce
  <2> QED
    BY <1>2, <2>1, BookLaunch
<1>6. CASE purchases[order].status = "1" /\ refunds[order] = 0
  <2>1. \A o \in Orders : BookStatus(o)' = IF o = order THEN "unrefunded" ELSE BookStatus(o)
    BY <1>2, <1>4, <1>6 DEF BookStatus
  <2>2. BookStatus(order) = "1"
    BY <1>6 DEF BookStatus
  <2>3. Book!CloseOnly(order)
    BY <1>0, <1>2, <2>1, <2>2 DEF Book!CloseOnly, Book!Moves
  <2> QED
    BY <1>0, <1>5, <2>3 DEF Book!BookNext
<1>7. CASE purchases[order].status = "8"
  <2>1. \A o \in Orders : BookStatus(o)' = BookStatus(o)
    BY <1>2, <1>4, <1>7 DEF BookStatus
  <2> QED
    BY <1>2, <1>5, <2>1 DEF Statuses
<1> QED
  BY <1>0, <1>1, <1>6, <1>7, CancelTarget

\* Every step of the SDK keeps the invariant and is a step of the book, or nothing to it.
LEMMA BookStep ==
    ASSUME IInv, IInv', BookInv, [Next]_vars
    PROVE  BookInv' /\ [Book!BookNext]_<<Statuses, ledger>>
<1>1. ASSUME NEW r \in Requests,
             \/ StartActivation(r) \/ CancelOrderByUser(r) \/ Tick(r) \/ StatusReceived(r)
             \/ NumberTraps(r) \/ NumberRefused(r) \/ CancelRefused(r)
      PROVE  BookInv' /\ [Book!BookNext]_<<Statuses, ledger>>
  BY <1>1, BookRequests DEF Statuses, BookStatus
<1>2. ASSUME NEW r \in Requests, NumberBought(r) \/ OrderFinished(r) \/ OrderCancelled(r)
      PROVE  BookInv' /\ [Book!BookNext]_<<Statuses, ledger>>
  BY <1>2, BoughtStep, FinishedStep, CancelledStep
<1>3. CASE HostCall
  BY <1>1, <1>3, HostStep, QuietStep DEF HostCall
<1>4. ASSUME NEW r \in Requests, Tick(r) \/ Answer(r) \/ Killed(r)
      PROVE  BookInv' /\ [Book!BookNext]_<<Statuses, ledger>>
  BY <1>1, <1>2, <1>4, KilledAfterChargeStep, KilledAfterCloseStep DEF Answer, Killed
<1>5. CASE Block \/ (FirestoreStep /\ UNCHANGED <<providerVars, activationVars>>) \/ UNCHANGED vars
  BY <1>5, QuietStep
<1>6. CASE ProviderStep /\ UNCHANGED <<firestoreVars, balanceVars, activationVars>>
  <2>1. UNCHANGED <<purchases, charged, refunds, currentActivation, ledger>>
    BY <1>6 DEF firestoreVars, balanceVars, activationVars, sessionVars
  <2> QED
    BY <1>6, <2>1, BookProvider DEF Statuses, BookStatus
<1>7. CASE Restart
  BY <1>7, RestartStep
<1> QED
  BY <1>3, <1>4, <1>5, <1>6, <1>7 DEF Next

LEMMA BookInitial == ASSUME Init PROVE BookInv /\ Book!BookInit
<1>1. /\ \A o \in Orders : purchases[o].status = "none" /\ refunds[o] = 0
      /\ currentActivation = Nil /\ charged = {}
      /\ ledger \in Int
  BY TypeInit DEF Init, BalanceInit, NoPurchases, NoPurchase, TypeOK, BalanceTypeOK
<1>2. \A x \in Requests : ~AboutOrder(http[x].call)
  BY SentCalls DEF Init, ProviderInit
<1>3. BookInv
  BY <1>1, <1>2 DEF BookInv, SessionRecorded, RequestsRecorded, RefundsRecorded,
     UnrefundedForgotten, Unrefunded, ChargedOnce
<1>4. \A o \in Orders : BookStatus(o) = "none"
  BY <1>1 DEF BookStatus
<1> QED
  BY <1>1, <1>3, <1>4 DEF Book!BookInit

LEMMA BookInvariant == Spec => []BookInv
<1>1. Init => BookInv
  BY BookInitial
<1>2. IInv /\ IInv' /\ BookInv /\ [Next]_vars => BookInv'
  BY BookStep
<1> QED
  BY <1>1, <1>2, Invariance, PTL DEF Spec

(***************************************************************************)
(* The SDK implements the order book: whatever answers are lost, late or   *)
(* repeated, whatever overlaps and however often the process dies, also    *)
(* between the two writes of startActivation's or a cancel's closure, an   *)
(* order is charged once and credited once, with its record, or is left    *)
(* half done by a death of the process, charged without a record or        *)
(* cancelled without a refund, and then never touched again.               *)
(***************************************************************************)
THEOREM OrderBookImplemented == Spec => ImplementsOrderBook
<1>1. Init => BookInv /\ Book!BookInit
  BY BookInitial
<1>2. IInv /\ IInv' /\ BookInv /\ [Next]_vars => BookInv' /\ [Book!BookNext]_<<Statuses, ledger>>
  BY BookStep
<1>3. <<Statuses, ledger>> = Book!bookVars
  BY DEF Statuses, Book!bookVars
<1>4. IInv /\ IInv' /\ BookInv /\ [Next]_vars => BookInv' /\ [Book!BookNext]_(Book!bookVars)
  BY <1>2, <1>3 DEF Statuses, Book!bookVars
<1> QED
  BY <1>1, <1>4, Invariance, PTL DEF Spec, ImplementsOrderBook, Book!BookSpec
=============================================================================
