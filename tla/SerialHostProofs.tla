--------------------------- MODULE SerialHostProofs ---------------------------
(***************************************************************************)
(* What a host gains that waits: proofs about Activation with HostSerial,  *)
(* where the selection is left alone while a purchase is on its way and no *)
(* order is started before the last one has ended.                         *)
(***************************************************************************)
EXTENDS OrderBookProofs

(***************************************************************************)
(* The closure of startActivation reads the selection again when it runs.  *)
(* The invariant says that this is still the selection of its request, of  *)
(* which there is only one, and that the service sold what was asked for.  *)
(***************************************************************************)
BuysAlone ==
    \A q, r \in Requests : http[q].call = "getNumber" /\ http[r].call = "getNumber" => q = r

BuysSelected ==
    \A r \in Requests : http[r].call = "getNumber" =>
        /\ http[r].service = selectedService /\ selectedService # Nil
        /\ http[r].country = selectedCountry /\ selectedCountry # Nil
        /\ currentActivation = Nil

SoldAsAsked ==
    \A r \in Requests : Bought(r) =>
        /\ provider[http[r].order].service = http[r].service
        /\ provider[http[r].order].country = http[r].country

SerialHostInv ==
    /\ NoTrap
    /\ BuysAlone /\ BuysSelected
    /\ SoldAsAsked /\ RecordDescribesOrder

\* Steps that send no purchase and let none be answered.
LEMMA SerialFrame ==
    ASSUME SerialHostInv, NoTrap', RecordDescribesOrder', UNCHANGED provider,
           \A x \in Requests : http'[x].call = "getNumber" => http'[x] = http[x],
           \/ \A x \in Requests : http'[x].call # "getNumber"
           \/ /\ UNCHANGED <<selectedService, selectedCountry>>
              /\ currentActivation' \in {currentActivation, Nil}
    PROVE  SerialHostInv'
<1>1. BuysAlone'
  BY DEF SerialHostInv, BuysAlone
<1>2. BuysSelected'
  BY DEF SerialHostInv, BuysSelected
<1>3. SoldAsAsked'
  BY DEF SerialHostInv, SoldAsAsked, Bought
<1> QED
  BY <1>1, <1>2, <1>3 DEF SerialHostInv

\* The calls of the requests, as far as a purchase is concerned.
LEMMA PurchaseCalls ==
    /\ \A o : GetStatus(o).call # "getNumber" /\ SetStatusCancel(o).call # "getNumber"
    /\ \A o, c : SetStatusFinish(o, c).call # "getNumber"
    /\ Idle.call # "getNumber"
    /\ \A s, c : /\ BuyNumber(s, c).call = "getNumber" /\ BuyNumber(s, c).reply = "pending"
                 /\ BuyNumber(s, c).service = s /\ BuyNumber(s, c).country = c
BY DEF GetStatus, SetStatusCancel, SetStatusFinish, BuyNumber, Idle

LEMMA SerialStart ==
    ASSUME HostSerial, IInv, SerialHostInv, NEW r \in Requests, StartActivation(r)
    PROVE  SerialHostInv'
<1>1. /\ \A x \in Requests : http[x].call # "getNumber"
      /\ currentActivation = Nil /\ selectedService # Nil /\ selectedCountry # Nil
      /\ http' = [http EXCEPT ![r] = BuyNumber(selectedService, selectedCountry)]
  BY DEF StartActivation, HostMayCall, Buying, Send
<1>2. UNCHANGED <<purchases, provider, selectedService, selectedCountry, currentActivation, trapped>>
  BY DEF StartActivation, firestoreVars, activationVars, selectionVars, sessionVars
<1>3. \A x \in Requests : http'[x] = IF x = r THEN BuyNumber(selectedService, selectedCountry)
                                     ELSE http[x]
  BY <1>1, SlotOnly DEF IInv
<1>4. /\ http'[r].call = "getNumber" /\ http'[r].reply = "pending"
      /\ http'[r].service = selectedService /\ http'[r].country = selectedCountry
      /\ \A x \in Requests : x # r => http'[x].call # "getNumber"
  BY <1>1, <1>3, PurchaseCalls
<1>5. BuysAlone' /\ BuysSelected' /\ SoldAsAsked'
  BY <1>1, <1>2, <1>4 DEF BuysAlone, BuysSelected, SoldAsAsked, Bought
<1>6. NoTrap' /\ RecordDescribesOrder'
  BY <1>2 DEF SerialHostInv, NoTrap, RecordDescribesOrder
<1> QED
  BY <1>5, <1>6 DEF SerialHostInv

\* The requests that are sent or dropped while no purchase is answered.
LEMMA SerialRequests ==
    ASSUME IInv, SerialHostInv, NEW r \in Requests,
           \/ CancelOrderByUser(r) \/ Tick(r) \/ StatusReceived(r)
           \/ NumberRefused(r) \/ CancelRefused(r)
    PROVE  SerialHostInv'
<1>1. UNCHANGED <<purchases, provider, selectedService, selectedCountry, currentActivation, trapped>>
  BY DEF CancelOrderByUser, Tick, StatusReceived, NumberRefused, CancelRefused,
         firestoreVars, activationVars, selectionVars, sessionVars
<1>2. \/ UNCHANGED http
      \/ \E q : q.call # "getNumber" /\ http' = [http EXCEPT ![r] = q]
  <2>1. CASE StatusReceived(r)
    BY <2>1, PurchaseCalls DEF StatusReceived, FinishOrder, Release
  <2>2. CASE CancelOrderByUser(r) \/ Tick(r)
    BY <2>2, PurchaseCalls DEF CancelOrderByUser, Tick, TimerFires, CheckNumber, CancelOrder, Send
  <2>3. CASE NumberRefused(r) \/ CancelRefused(r)
    BY <2>3, PurchaseCalls DEF NumberRefused, CancelRefused, Release
  <2> QED
    BY <2>1, <2>2, <2>3
<1>3. \A x \in Requests : http'[x].call = "getNumber" => http'[x] = http[x]
  <2>1. CASE UNCHANGED http
    BY <2>1
  <2>2. CASE \E q : q.call # "getNumber" /\ http' = [http EXCEPT ![r] = q]
    <3>1. PICK q : q.call # "getNumber" /\ http' = [http EXCEPT ![r] = q]
      BY <2>2
    <3>2. \A x \in Requests : http'[x] = IF x = r THEN q ELSE http[x]
      BY <3>1, SlotOnly DEF IInv
    <3> QED
      BY <3>1, <3>2
  <2> QED
    BY <1>2, <2>1, <2>2
<1>4. NoTrap' /\ RecordDescribesOrder'
  BY <1>1 DEF SerialHostInv, NoTrap, RecordDescribesOrder
<1> QED
  BY <1>1, <1>3, <1>4, SerialFrame

\* The closure finds the selection it was sent with, and records the order under it.
LEMMA SerialBought ==
    ASSUME IInv, SerialHostInv, NEW r \in Requests, NumberBought(r)
    PROVE  SerialHostInv'
<1>1. Bought(r) /\ UNCHANGED <<provider, trapped>> /\ Release(r)
  BY DEF NumberBought, Answered, Bought
<1>2. PICK order \in Orders : order = http[r].order
  BY <1>1 DEF Bought, IInv, CoreInv, RequestsNamed
<1>3. \A x \in Requests : http'[x].call # "getNumber"
  <2>1. \A x \in Requests : /\ x # r => http'[x] = http[x]
                            /\ x = r => http'[x].call = "idle"
    BY <1>1, Released DEF IInv
  <2> QED
    BY <2>1, <1>1 DEF SerialHostInv, BuysAlone, Bought
<1>4. provider[order].service = selectedService /\ provider[order].country = selectedCountry
  BY <1>1, <1>2 DEF SerialHostInv, SoldAsAsked, BuysSelected, Bought
<1>5. \A o \in Orders : purchases'[o] = IF o = order
                                        THEN CreateDic(http[r].service, selectedService, selectedCountry)
                                        ELSE purchases[o]
  BY <1>2 DEF NumberBought, InitNumberPurchase, IInv, TypeOK, BalanceTypeOK, FirestoreTypeOK
<1>6. RecordDescribesOrder'
  BY <1>1, <1>4, <1>5 DEF SerialHostInv, RecordDescribesOrder, CreateDic
<1>7. NoTrap'
  BY <1>1 DEF SerialHostInv, NoTrap
<1> QED
  BY <1>1, <1>3, <1>6, <1>7, SerialFrame

\* A serial host's selection is never gone: the force unwraps find it.
LEMMA SerialUntrapped ==
    ASSUME SerialHostInv, NEW r \in Requests
    PROVE  ~NumberTraps(r)
BY DEF SerialHostInv, BuysSelected, NumberTraps, Answered

\* An update keeps the title and the country of a record, and makes none.
LEMMA DescriptionKept ==
    ASSUME IInv, SerialHostInv, NEW order \in Orders, NEW dic \in Purchase,
           UpdateNumberPurchase(order, dic), UNCHANGED provider,
           dic.serviceTitle = purchases[order].serviceTitle, dic.country = purchases[order].country
    PROVE  RecordDescribesOrder'
BY DEF UpdateNumberPurchase, IInv, TypeOK, BalanceTypeOK, FirestoreTypeOK, SerialHostInv,
       RecordDescribesOrder

LEMMA DicDescription ==
    ASSUME IInv, NEW o \in Orders, NEW code \in Orders \cup {Nil}
    PROVE  /\ GetDicForFinish(purchases[o], code).serviceTitle = purchases[o].serviceTitle
           /\ GetDicForFinish(purchases[o], code).country = purchases[o].country
           /\ GetDicForCancel(purchases[o]).serviceTitle = purchases[o].serviceTitle
           /\ GetDicForCancel(purchases[o]).country = purchases[o].country
<1>1. purchases[o] \in Purchase
  BY DEF IInv, TypeOK, BalanceTypeOK, FirestoreTypeOK
<1> QED
  BY <1>1 DEF GetDicForFinish, GetDicForCancel, Purchase

LEMMA SerialClosed ==
    ASSUME IInv, SerialHostInv, NEW r \in Requests, OrderFinished(r) \/ OrderCancelled(r)
    PROVE  SerialHostInv'
<1>1. /\ UNCHANGED <<provider, trapped, selectedService, selectedCountry>> /\ Release(r)
      /\ currentActivation' \in {currentActivation, Nil}
  BY DEF OrderFinished, OrderCancelled, StopTimer, selectionVars, sessionVars
<1>2. \A x \in Requests : http'[x].call = "getNumber" => http'[x] = http[x]
  BY <1>1, Released DEF IInv
<1>3. PICK order \in Orders : order = http[r].order
  BY DEF OrderFinished, OrderCancelled, Answered, IInv, CoreInv, RequestsNamed
<1>4. RecordDescribesOrder'
  <2>1. CASE OrderCancelled(r)
    <3>1. UpdateNumberPurchase(order, GetDicForCancel(purchases[order]))
      BY <2>1, <1>3 DEF OrderCancelled
    <3>2. GetDicForCancel(purchases[order]) \in Purchase
      BY DicStatus DEF IInv
    <3> QED
      BY <3>1, <3>2, <1>1, DicDescription, DescriptionKept
  <2>2. CASE OrderFinished(r) /\ Confirmed(r, "ACCESS_ACTIVATION")
    <3>1. UpdateNumberPurchase(order, GetDicForFinish(purchases[order], http[r].code))
      BY <2>2, <1>3 DEF OrderFinished
    <3>2. http[r].code \in Orders \cup {Nil}
      BY DEF IInv, TypeOK, ProviderTypeOK, Request
    <3>3. GetDicForFinish(purchases[order], http[r].code) \in Purchase
      BY <3>2, DicStatus DEF IInv
    <3> QED
      BY <3>1, <3>2, <3>3, <1>1, DicDescription, DescriptionKept
  <2>3. CASE OrderFinished(r) /\ ~Confirmed(r, "ACCESS_ACTIVATION")
    BY <2>3, <1>1 DEF OrderFinished, SerialHostInv, RecordDescribesOrder
  <2> QED
    BY <2>1, <2>2, <2>3
<1>5. NoTrap'
  BY <1>1 DEF SerialHostInv, NoTrap
<1> QED
  BY <1>1, <1>2, <1>4, <1>5, SerialFrame

\* The service sells what the request asks for, and an order only once.
LEMMA SerialProvider ==
    ASSUME IInv, SerialHostInv, ProviderStep,
           UNCHANGED <<purchases, selectedService, selectedCountry, currentActivation, trapped>>
    PROVE  SerialHostInv'
<1> USE DEF IInv, TypeOK, ProviderTypeOK
<1>1. NoTrap'
  BY DEF SerialHostInv, NoTrap
<1>2. ASSUME \A x \in Requests : /\ http'[x].call = http[x].call /\ http'[x].service = http[x].service
                                 /\ http'[x].country = http[x].country
      PROVE  BuysAlone' /\ BuysSelected'
  BY <1>2 DEF SerialHostInv, BuysAlone, BuysSelected
<1>3. ASSUME NEW r \in Requests, NEW text, Reply(r, text), text # "ACCESS_NUMBER",
             \A o \in Orders : /\ provider'[o].service = provider[o].service
                               /\ provider'[o].country = provider[o].country
                               /\ provider[o].state # "unsold" => provider'[o].state # "unsold"
      PROVE  SerialHostInv'
  <2>1. \A x \in Requests :
           /\ http'[x].call = http[x].call /\ http'[x].service = http[x].service
           /\ http'[x].country = http[x].country /\ http'[x].order = http[x].order
           /\ http'[x].reply = IF x = r THEN text ELSE http[x].reply
    BY <1>3 DEF Reply, Request
  <2>2. BuysAlone' /\ BuysSelected'
    BY <1>2, <2>1
  <2>3. SoldAsAsked'
    BY <1>3, <2>1 DEF SerialHostInv, SoldAsAsked, Bought, CoreInv, RequestsNamed
  <2>4. RecordDescribesOrder'
    BY <1>3 DEF SerialHostInv, RecordDescribesOrder
  <2> QED
    BY <1>1, <2>2, <2>3, <2>4 DEF SerialHostInv
<1>4. ASSUME NEW r \in Requests, NEW o \in Orders, Sell(r, o)
      PROVE  SerialHostInv'
  <2>1. /\ http[r].call = "getNumber" /\ provider[o].state = "unsold"
        /\ \A y \in Orders \ {o} : provider'[y] = provider[y]
        /\ provider'[o].service = http[r].service /\ provider'[o].country = http[r].country
    BY <1>4 DEF Sell, Pending
  <2>2. \A x \in Requests :
           /\ http'[x].call = http[x].call /\ http'[x].service = http[x].service
           /\ http'[x].country = http[x].country
           /\ x # r => http'[x] = http[x]
           /\ x = r => http'[x].order = o
    BY <1>4 DEF Sell, Request
  <2>3. BuysAlone' /\ BuysSelected'
    BY <1>2, <2>2
  <2>4. \A x \in Requests : Bought(x) => http[x].order \in Orders /\ http[x].order # o
    BY <2>1 DEF CoreInv, SalesUnrecorded, RequestsNamed, Bought
  <2>5. SoldAsAsked'
    BY <2>1, <2>2, <2>4 DEF SerialHostInv, SoldAsAsked, Bought
  <2>6. purchases[o].status = "none"
    BY <2>1 DEF CoreInv, RecordsMatchProvider
  <2>7. RecordDescribesOrder'
    BY <2>1, <2>6 DEF SerialHostInv, RecordDescribesOrder
  <2> QED
    BY <1>1, <2>3, <2>5, <2>7 DEF SerialHostInv
<1>5. ASSUME NEW r \in Requests, RefuseNumber(r) \/ ReportStatus(r) \/ Lose(r)
      PROVE  SerialHostInv'
  <2>1. PICK text : Reply(r, text) /\ text # "ACCESS_NUMBER"
    BY <1>5 DEF RefuseNumber, ReportStatus, Lose
  <2>2. UNCHANGED provider
    BY <1>5 DEF RefuseNumber, ReportStatus, Lose
  <2> QED
    BY <1>3, <2>1, <2>2
<1>6. ASSUME NEW o \in Orders, NEW st, st # "unsold", provider' = [provider EXCEPT ![o].state = st]
      PROVE  \A y \in Orders : /\ provider'[y].service = provider[y].service
                               /\ provider'[y].country = provider[y].country
                               /\ provider[y].state # "unsold" => provider'[y].state # "unsold"
  BY <1>6 DEF SoldOrder
<1>7. ASSUME NEW r \in Requests, NEW call \in SetStatusCalls,
             Accept(r, call) \/ AcceptAgain(r, call) \/ Refuse(r, call)
      PROVE  SerialHostInv'
  <2>1. http[r].order \in Orders
    BY <1>7 DEF CoreInv, RequestsNamed, Accept, AcceptAgain, Refuse, Pending, SetStatusCalls
  <2>2. PICK text : Reply(r, text) /\ text # "ACCESS_NUMBER"
    BY <1>7 DEF Accept, AcceptAgain, Refuse, Access
  <2>3. \/ UNCHANGED provider
        \/ provider' = [provider EXCEPT ![http[r].order].state = Final(call)]
    BY <1>7 DEF Accept, AcceptAgain, Refuse
  <2>4. Final(call) # "unsold"
    BY DEF Final
  <2> QED
    BY <1>3, <1>6, <2>1, <2>2, <2>3, <2>4
<1>8. ASSUME NEW o \in Orders, CodeArrives(o)
      PROVE  SerialHostInv'
  <2>1. \A y \in Orders : /\ provider'[y].service = provider[y].service
                          /\ provider'[y].country = provider[y].country
    BY <1>6, <1>8 DEF CodeArrives
  <2>2. UNCHANGED http
    BY <1>8 DEF CodeArrives
  <2>3. BuysAlone' /\ BuysSelected'
    BY <1>2, <2>2
  <2>4. SoldAsAsked' /\ RecordDescribesOrder'
    BY <2>1, <2>2 DEF SerialHostInv, SoldAsAsked, RecordDescribesOrder, Bought, CoreInv, RequestsNamed
  <2> QED
    BY <1>1, <2>3, <2>4 DEF SerialHostInv
<1> QED
  BY <1>4, <1>5, <1>7, <1>8 DEF ProviderStep, Serve

\* Selecting is left alone while a purchase is on its way; the rest touches nothing of it.
LEMMA SerialOthers ==
    ASSUME HostSerial, SerialHostInv,
           \/ Select
           \/ \E amount \in Amounts : AddBalance(amount) /\ UNCHANGED <<providerVars, activationVars>>
           \/ /\ InitUser \/ (\E token \in Tokens : UpdateFCMToken(token)) \/ PublicInit(ReadKinds)
              /\ UNCHANGED <<providerVars, activationVars>>
           \/ Block
           \/ FirestoreStep /\ UNCHANGED <<providerVars, activationVars>>
           \/ UNCHANGED vars
    PROVE  SerialHostInv'
<1>1. UNCHANGED <<http, provider, purchases>>
  BY CoreOthers
<1>2. UNCHANGED trapped
  BY DEF Select, Block, PurchaseWritten, PurchasesFetched, activationVars, vars
<1>3. NoTrap' /\ RecordDescribesOrder'
  BY <1>1, <1>2 DEF SerialHostInv, NoTrap, RecordDescribesOrder
<1>4. CASE Select
  <2>1. \A x \in Requests : http[x].call # "getNumber"
    BY <1>4 DEF Select, SelectService, SelectCountry, HostMayCall, Buying
  <2> QED
    BY <1>1, <1>3, <2>1, SerialFrame
<1>5. CASE ~Select
  <2>1. UNCHANGED <<selectedService, selectedCountry, currentActivation>>
    BY <1>5 DEF Block, PurchaseWritten, PurchasesFetched, activationVars, selectionVars,
                sessionVars, vars
  <2> QED
    BY <1>1, <1>3, <2>1, SerialFrame
<1> QED
  BY <1>4, <1>5

LEMMA SerialRestart ==
    ASSUME SerialHostInv, Restart
    PROVE  SerialHostInv'
<1>1. UNCHANGED <<provider, purchases>> /\ trapped' = FALSE
  BY DEF Restart, LaunchAgain, LoseMemory
<1>2. \A x \in Requests : http'[x].call # "getNumber"
  BY PurchaseCalls DEF Restart, LaunchAgain
<1>3. NoTrap' /\ RecordDescribesOrder'
  BY <1>1 DEF SerialHostInv, NoTrap, RecordDescribesOrder
<1> QED
  BY <1>1, <1>2, <1>3, SerialFrame

\* A closed record keeps its description, and a charge writes none.
LEMMA SerialKilled ==
    ASSUME IInv, SerialHostInv, NEW r \in Requests, Killed(r)
    PROVE  SerialHostInv'
<1>1. UNCHANGED provider /\ trapped' = FALSE
  BY DEF Killed, KilledAfterCharge, KilledAfterClose, LaunchAgain
<1>2. \A x \in Requests : http'[x].call # "getNumber"
  BY PurchaseCalls DEF Killed, KilledAfterCharge, KilledAfterClose, LaunchAgain
<1>3. RecordDescribesOrder'
  <2>1. CASE KilledAfterClose(r)
    <3>1. PICK order \in Orders : order = http[r].order
      BY <2>1 DEF KilledAfterClose, Answered, IInv, CoreInv, RequestsNamed
    <3>2. UpdateNumberPurchase(order, GetDicForCancel(purchases[order]))
      BY <2>1, <3>1 DEF KilledAfterClose
    <3>3. GetDicForCancel(purchases[order]) \in Purchase
      BY DicStatus DEF IInv
    <3> QED
      BY <3>2, <3>3, <1>1, DicDescription, DescriptionKept
  <2>2. CASE KilledAfterCharge(r)
    BY <1>1, <2>2 DEF KilledAfterCharge, SerialHostInv, RecordDescribesOrder
  <2> QED
    BY <2>1, <2>2 DEF Killed
<1>4. NoTrap'
  BY <1>1 DEF NoTrap
<1> QED
  BY <1>1, <1>2, <1>3, <1>4, SerialFrame

LEMMA SerialStep ==
    ASSUME HostSerial, IInv, SerialHostInv, [Next]_vars
    PROVE  SerialHostInv'
<1>1. CASE HostCall
  BY <1>1, SerialStart, SerialRequests, SerialOthers DEF HostCall
<1>2. ASSUME NEW r \in Requests, Tick(r) \/ Answer(r)
      PROVE  SerialHostInv'
  BY <1>2, SerialRequests, SerialBought, SerialUntrapped, SerialClosed DEF Answer
<1>3. CASE Block \/ (FirestoreStep /\ UNCHANGED <<providerVars, activationVars>>) \/ UNCHANGED vars
  BY <1>3, SerialOthers
<1>4. CASE ProviderStep /\ UNCHANGED <<firestoreVars, balanceVars, activationVars>>
  <2>1. UNCHANGED <<purchases, selectedService, selectedCountry, currentActivation, trapped>>
    BY <1>4 DEF firestoreVars, activationVars, selectionVars, sessionVars
  <2> QED
    BY <1>4, <2>1, SerialProvider
<1>5. CASE Restart
  BY <1>5, SerialRestart
<1>6. ASSUME NEW r \in Requests, Killed(r)
      PROVE  SerialHostInv'
  BY <1>6, SerialKilled
<1> QED
  BY <1>1, <1>2, <1>3, <1>4, <1>5, <1>6 DEF Next

LEMMA SerialInitial == ASSUME Init PROVE SerialHostInv
<1>1. \A x \in Requests : http[x].call # "getNumber"
  BY PurchaseCalls DEF Init, ProviderInit
<1>2. \A o \in Orders : purchases[o].status = "none"
  BY DEF Init, BalanceInit, NoPurchases, NoPurchase
<1>3. ~trapped
  BY DEF Init
<1> QED
  BY <1>1, <1>2, <1>3 DEF SerialHostInv, NoTrap, BuysAlone, BuysSelected, SoldAsAsked,
     RecordDescribesOrder, Bought

LEMMA SerialInvariant ==
    ASSUME HostSerial
    PROVE  Spec => []SerialHostInv
<1>1. Init => SerialHostInv
  BY SerialInitial
<1>2. IInv /\ SerialHostInv /\ [Next]_vars => SerialHostInv'
  BY SerialStep
<1> QED
  BY <1>1, <1>2, Invariance, PTL DEF Spec

(***************************************************************************)
(* With a serial host the force unwraps in startActivation's closure never *)
(* find nil, whatever answers are lost or late and however often the app   *)
(* is restarted.                                                           *)
(***************************************************************************)
THEOREM SerialHostNeverTraps ==
    ASSUME HostSerial
    PROVE  Spec => []NoTrap
<1>1. SerialHostInv => NoTrap
  BY DEF SerialHostInv
<1> QED
  BY <1>1, SerialInvariant, PTL

(***************************************************************************)
(* With a serial host the record of an order names the service and the     *)
(* country that the service sold, although startActivation's closure reads *)
(* both from the selection at the time of the answer.                      *)
(***************************************************************************)
THEOREM SerialHostRecordsTruth ==
    ASSUME HostSerial
    PROVE  Spec => []RecordDescribesOrder
<1>1. SerialHostInv => RecordDescribesOrder
  BY DEF SerialHostInv
<1> QED
  BY <1>1, SerialInvariant, PTL

-----------------------------------------------------------------------------
(***************************************************************************)
(* No order is forgotten, when the service accepts a setStatus once and    *)
(* the process lives.  An accepted setStatus whose closure has not run is  *)
(* the only one of its order, and the record still waits: so the closure   *)
(* that stops the timer is one of the session's own order.                 *)
(***************************************************************************)
Accepted(r) == Finishes(r) \/ Cancels(r)

AcceptedWaits == \A r \in Requests : Accepted(r) => purchases[http[r].order].status = "1"

AcceptedOnce ==
    \A q, r \in Requests : Accepted(q) /\ Accepted(r) /\ http[q].order = http[r].order => q = r

WaitInv == AcceptedWaits /\ AcceptedOnce /\ NoOrderForgotten

\* Steps that accept no setStatus, and keep the session and the statuses.
LEMMA WaitFrame ==
    ASSUME IInv, WaitInv, UNCHANGED currentActivation,
           \A o \in Orders : purchases'[o].status = purchases[o].status,
           \A x \in Requests : Accepted(x)' => http'[x] = http[x]
    PROVE  WaitInv'
<1>1. \A x \in Requests : Accepted(x) => http[x].order \in Orders
  BY DEF IInv, CoreInv, RequestsNamed, Accepted, Finishes, Cancels
<1>2. \A x \in Requests : Accepted(x)' => Accepted(x)
  BY DEF Accepted, Finishes, Cancels
<1>3. AcceptedWaits' /\ AcceptedOnce'
  BY <1>1, <1>2 DEF WaitInv, AcceptedWaits, AcceptedOnce
<1>4. NoOrderForgotten'
  BY DEF WaitInv, NoOrderForgotten
<1> QED
  BY <1>3, <1>4 DEF WaitInv

\* A request that is sent has no answer yet.
LEMMA SentUnanswered ==
    /\ \A o : GetStatus(o).reply = "pending" /\ SetStatusCancel(o).reply = "pending"
    /\ \A o, c : SetStatusFinish(o, c).reply = "pending"
    /\ Idle.reply = "pending"
    /\ \A s, c : BuyNumber(s, c).reply = "pending"
BY DEF GetStatus, SetStatusCancel, SetStatusFinish, BuyNumber, Idle

LEMMA WaitRequests ==
    ASSUME IInv, WaitInv, NEW r \in Requests,
           \/ StartActivation(r) \/ CancelOrderByUser(r) \/ Tick(r) \/ StatusReceived(r)
           \/ NumberTraps(r) \/ NumberRefused(r) \/ CancelRefused(r)
    PROVE  WaitInv'
<1>1. UNCHANGED <<purchases, currentActivation>>
  BY DEF StartActivation, CancelOrderByUser, Tick, StatusReceived, NumberTraps, NumberRefused,
         CancelRefused, firestoreVars, activationVars, sessionVars
<1>2. \/ UNCHANGED http
      \/ \E q : q.reply = "pending" /\ http' = [http EXCEPT ![r] = q]
  <2>1. CASE StatusReceived(r)
    BY <2>1, SentUnanswered DEF StatusReceived, FinishOrder, Release
  <2>2. CASE StartActivation(r) \/ CancelOrderByUser(r) \/ Tick(r)
    BY <2>2, SentUnanswered DEF StartActivation, CancelOrderByUser, Tick, TimerFires, CheckNumber,
                                CancelOrder, Send
  <2>3. CASE NumberTraps(r) \/ NumberRefused(r) \/ CancelRefused(r)
    BY <2>3, SentUnanswered DEF NumberTraps, NumberRefused, CancelRefused, Release
  <2> QED
    BY <2>1, <2>2, <2>3
<1>3. \A x \in Requests : Accepted(x)' => http'[x] = http[x]
  <2>1. CASE UNCHANGED http
    BY <2>1
  <2>2. CASE \E q : q.reply = "pending" /\ http' = [http EXCEPT ![r] = q]
    <3>1. PICK q : q.reply = "pending" /\ http' = [http EXCEPT ![r] = q]
      BY <2>2
    <3>2. \A x \in Requests : http'[x] = IF x = r THEN q ELSE http[x]
      BY <3>1, SlotOnly DEF IInv
    <3> QED
      BY <3>1, <3>2 DEF Accepted, Finishes, Cancels
  <2> QED
    BY <1>2, <2>1, <2>2
<1> QED
  BY <1>1, <1>3, WaitFrame

\* A purchase ends while there is no session, so that no record waits.
LEMMA WaitBought ==
    ASSUME IInv, SerialHostInv, WaitInv, NEW r \in Requests, NumberBought(r)
    PROVE  WaitInv'
<1>1. Bought(r) /\ Release(r)
  BY DEF NumberBought, Answered, Bought
<1>2. PICK order \in Orders : order = http[r].order
  BY <1>1 DEF Bought, IInv, CoreInv, RequestsNamed
<1>3. \A o \in Orders : purchases'[o].status = IF o = order THEN "1" ELSE purchases[o].status
  BY <1>2 DEF NumberBought, InitNumberPurchase, CreateDic, IInv, TypeOK, BalanceTypeOK, FirestoreTypeOK
<1>4. currentActivation' = order /\ currentActivation = Nil
  BY <1>1, <1>2 DEF NumberBought, StartPurchase, SerialHostInv, BuysSelected, Bought
<1>5. \A o \in Orders : purchases[o].status # "1"
  BY <1>4, FirestoreAssumption DEF WaitInv, NoOrderForgotten
<1>6. \A x \in Requests : ~Accepted(x)
  BY <1>5 DEF WaitInv, AcceptedWaits, IInv, CoreInv, RequestsNamed, Accepted, Finishes, Cancels
<1>7. \A x \in Requests : ~Accepted(x)'
  BY <1>1, <1>6, Released DEF IInv, Accepted, Finishes, Cancels
<1> QED
  BY <1>3, <1>4, <1>5, <1>7 DEF WaitInv, AcceptedWaits, AcceptedOnce, NoOrderForgotten

\* The closure of an accepted setStatus closes the record of the session, and the session.
LEMMA WaitAccepted ==
    ASSUME IInv, WaitInv, NEW r \in Requests, Accepted(r), Release(r), StopTimer,
           NEW order \in Orders, order = http[r].order, NEW status \in {"6", "8"},
           \A o \in Orders : purchases'[o].status = IF o = order THEN status ELSE purchases[o].status
    PROVE  WaitInv'
<1>1. purchases[order].status = "1" /\ currentActivation = order
  BY DEF WaitInv, AcceptedWaits, NoOrderForgotten
<1>2. \A o \in Orders : purchases[o].status = "1" => o = order
  BY <1>1 DEF WaitInv, NoOrderForgotten
<1>3. \A x \in Requests \ {r} : ~Accepted(x)
  <2> SUFFICES ASSUME NEW x \in Requests \ {r}, Accepted(x) PROVE FALSE
    OBVIOUS
  <2>1. http[x].order \in Orders /\ purchases[http[x].order].status = "1"
    BY DEF WaitInv, AcceptedWaits, IInv, CoreInv, RequestsNamed, Accepted, Finishes, Cancels
  <2>2. http[x].order = http[r].order
    BY <1>2, <2>1
  <2> QED
    BY <2>2 DEF WaitInv, AcceptedOnce
<1>4. \A x \in Requests : ~Accepted(x)'
  BY <1>3, Released DEF IInv, Accepted, Finishes, Cancels
<1>5. \A o \in Orders : purchases'[o].status # "1"
  BY <1>2
<1> QED
  BY <1>4, <1>5 DEF WaitInv, AcceptedWaits, AcceptedOnce, NoOrderForgotten

LEMMA WaitClosed ==
    ASSUME IInv, BookInv, WaitInv, NEW r \in Requests, OrderFinished(r) \/ OrderCancelled(r)
    PROVE  WaitInv'
<1>1. Release(r)
  BY DEF OrderFinished, OrderCancelled
<1>2. PICK order \in Orders : order = http[r].order
  BY DEF OrderFinished, OrderCancelled, Answered, IInv, CoreInv, RequestsNamed
<1>3. purchases[order].status # "none"
  BY <1>2 DEF OrderFinished, OrderCancelled, Answered, BookInv, RequestsRecorded, AboutOrder
<1>4. CASE OrderCancelled(r)
  <2>1. Accepted(r) /\ StopTimer
    BY <1>4 DEF OrderCancelled, Answered, Confirmed, Accepted, Cancels
  <2>2. UpdateNumberPurchase(order, GetDicForCancel(purchases[order]))
    BY <1>2, <1>4 DEF OrderCancelled
  <2>3. \A o \in Orders : purchases'[o].status = IF o = order THEN "8" ELSE purchases[o].status
    BY <1>3, <2>2, DicStatus, RecordUpdated DEF IInv
  <2> QED
    BY <1>1, <1>2, <2>1, <2>3, WaitAccepted
<1>5. CASE OrderFinished(r) /\ Confirmed(r, "ACCESS_ACTIVATION")
  <2>1. Accepted(r) /\ StopTimer
    BY <1>5 DEF OrderFinished, Answered, Confirmed, Accepted, Finishes
  <2>2. UpdateNumberPurchase(order, GetDicForFinish(purchases[order], http[r].code))
    BY <1>2, <1>5 DEF OrderFinished
  <2>3. http[r].code \in Orders \cup {Nil}
    BY DEF IInv, TypeOK, ProviderTypeOK, Request
  <2>4. \A o \in Orders : purchases'[o].status = IF o = order THEN "6" ELSE purchases[o].status
    BY <1>3, <2>2, <2>3, DicStatus, RecordUpdated DEF IInv
  <2> QED
    BY <1>1, <1>2, <2>1, <2>4, WaitAccepted
<1>6. CASE OrderFinished(r) /\ ~Confirmed(r, "ACCESS_ACTIVATION")
  <2>1. UNCHANGED <<purchases, currentActivation>>
    BY <1>6 DEF OrderFinished, sessionVars
  <2>2. \A x \in Requests : Accepted(x)' => http'[x] = http[x]
    BY <1>1, Released DEF IInv, Accepted, Finishes, Cancels
  <2> QED
    BY <2>1, <2>2, WaitFrame
<1> QED
  BY <1>4, <1>5, <1>6

\* The service accepts a setStatus of an open order only, whose record still waits.
LEMMA WaitProvider ==
    ASSUME ~RepeatAccepted, IInv, BookInv, WaitInv, ProviderStep,
           UNCHANGED <<purchases, currentActivation>>
    PROVE  WaitInv'
<1> USE DEF IInv, TypeOK, ProviderTypeOK
<1>1. ASSUME NEW r \in Requests, NEW o \in Orders, Sell(r, o)
      PROVE  \A x \in Requests : Accepted(x)' => http'[x] = http[x]
  BY <1>1 DEF Sell, Pending, Request, Accepted, Finishes, Cancels
<1>2. ASSUME NEW r \in Requests, NEW text \in {"NO_NUMBERS", "STATUS_OK", "STATUS_WAIT_CODE", "nil",
                                              "BAD_STATUS"}, Reply(r, text)
      PROVE  \A x \in Requests : Accepted(x)' => http'[x] = http[x]
  BY <1>2 DEF Reply, Request, Accepted, Finishes, Cancels
<1>3. ASSUME NEW r \in Requests, RefuseNumber(r) \/ ReportStatus(r) \/ Lose(r)
      PROVE  \A x \in Requests : Accepted(x)' => http'[x] = http[x]
  BY <1>2, <1>3 DEF RefuseNumber, ReportStatus, Lose
<1>4. ASSUME NEW r \in Requests, NEW call \in SetStatusCalls, AcceptAgain(r, call) \/ Refuse(r, call)
      PROVE  \A x \in Requests : Accepted(x)' => http'[x] = http[x]
  BY <1>2, <1>4 DEF AcceptAgain, Refuse
<1>5. ASSUME NEW o \in Orders, CodeArrives(o)
      PROVE  \A x \in Requests : Accepted(x)' => http'[x] = http[x]
  BY <1>5 DEF CodeArrives
<1>6. ASSUME NEW r \in Requests, NEW call \in SetStatusCalls, Accept(r, call)
      PROVE  WaitInv'
  <2>1. PICK order \in Orders : order = http[r].order
    BY <1>6 DEF CoreInv, RequestsNamed, Accept, Pending, SetStatusCalls
  <2>2. provider[order].state \in OpenStates
    BY <1>6, <2>1, ProviderAssumption DEF Accept
  <2>3. purchases[order].status = "1"
    <3>1. purchases[order].status # "none"
      BY <1>6, <2>1 DEF Accept, Pending, SetStatusCalls, BookInv, RequestsRecorded, AboutOrder
    <3>2. purchases[order].status \in {"none", "1", "6", "8"}
      BY DEF BalanceTypeOK, FirestoreTypeOK, Purchase
    <3>3. purchases[order].status \notin {"6", "8"}
      BY <2>2 DEF CoreInv, RecordsMatchProvider, OpenStates
    <3> QED
      BY <3>1, <3>2, <3>3
  <2>4. \A x \in Requests : Accepted(x) => http[x].order # order
    BY <2>2 DEF CoreInv, AnswersBacked, OpenStates, Accepted
  <2>5. \A x \in Requests : http'[x].order = http[x].order /\ (x # r => http'[x] = http[x])
    BY <1>6 DEF Accept, Reply, Request
  <2>6. \A x \in Requests : Accepted(x)' => x = r \/ Accepted(x)
    BY <2>5 DEF Accepted, Finishes, Cancels
  <2>7. AcceptedWaits' /\ AcceptedOnce'
    BY <2>1, <2>3, <2>4, <2>5, <2>6 DEF WaitInv, AcceptedWaits, AcceptedOnce
  <2>8. NoOrderForgotten'
    BY DEF WaitInv, NoOrderForgotten
  <2> QED
    BY <2>7, <2>8 DEF WaitInv
<1>7. ASSUME \A x \in Requests : Accepted(x)' => http'[x] = http[x]
      PROVE  WaitInv'
  BY <1>7, WaitFrame
<1> QED
  BY <1>1, <1>3, <1>4, <1>5, <1>6, <1>7 DEF ProviderStep, Serve

LEMMA WaitOthers ==
    ASSUME IInv, WaitInv,
           \/ Select
           \/ \E amount \in Amounts : AddBalance(amount) /\ UNCHANGED <<providerVars, activationVars>>
           \/ /\ InitUser \/ (\E token \in Tokens : UpdateFCMToken(token)) \/ PublicInit(ReadKinds)
              /\ UNCHANGED <<providerVars, activationVars>>
           \/ Block
           \/ FirestoreStep /\ UNCHANGED <<providerVars, activationVars>>
           \/ UNCHANGED vars
    PROVE  WaitInv'
<1>1. UNCHANGED <<http, purchases>>
  BY CoreOthers
<1>2. UNCHANGED currentActivation
  BY DEF Select, Block, PurchaseWritten, PurchasesFetched, activationVars, sessionVars, vars
<1> QED
  BY <1>1, <1>2, WaitFrame

LEMMA WaitStep ==
    ASSUME ~RepeatAccepted, "restart" \notin Faults,
           IInv, BookInv, SerialHostInv, WaitInv, [Next]_vars
    PROVE  WaitInv'
<1>1. CASE HostCall
  BY <1>1, WaitRequests, WaitOthers DEF HostCall
<1>2. ASSUME NEW r \in Requests, Tick(r) \/ Answer(r)
      PROVE  WaitInv'
  BY <1>2, WaitRequests, WaitBought, WaitClosed DEF Answer
<1>3. CASE Block \/ (FirestoreStep /\ UNCHANGED <<providerVars, activationVars>>) \/ UNCHANGED vars
  BY <1>3, WaitOthers
<1>4. CASE ProviderStep /\ UNCHANGED <<firestoreVars, balanceVars, activationVars>>
  <2>1. UNCHANGED <<purchases, currentActivation>>
    BY <1>4 DEF firestoreVars, activationVars, sessionVars
  <2> QED
    BY <1>4, <2>1, WaitProvider
<1>5. ~Restart /\ \A r \in Requests : ~Killed(r)
  BY DEF Restart, Killed, KilledAfterCharge, KilledAfterClose
<1> QED
  BY <1>1, <1>2, <1>3, <1>4, <1>5 DEF Next

(***************************************************************************)
(* A serial host, a service that accepts a setStatus once, and no restart: *)
(* an order whose record waits is the order of the session, so it is still *)
(* polled and cancelled.  No closure of an earlier order's setStatus ever  *)
(* stops the timer of a later one (stopTimer in finishOrder, cancelOrder   *)
(* and cancelOrderByUser drops whatever order there is).                   *)
(***************************************************************************)
THEOREM SerialHostForgetsNoOrder ==
    ASSUME HostSerial, ~RepeatAccepted, "restart" \notin Faults
    PROVE  Spec => []NoOrderForgotten
<1>1. Init => WaitInv
  <2> SUFFICES ASSUME Init PROVE WaitInv
    OBVIOUS
  <2>1. \A o \in Orders : purchases[o].status = "none"
    BY DEF Init, BalanceInit, NoPurchases, NoPurchase
  <2>2. \A x \in Requests : http[x].reply = "pending"
    BY SentUnanswered DEF Init, ProviderInit
  <2> QED
    BY <2>1, <2>2 DEF WaitInv, AcceptedWaits, AcceptedOnce, NoOrderForgotten, Accepted, Finishes, Cancels
<1>2. IInv /\ BookInv /\ SerialHostInv /\ WaitInv /\ [Next]_vars => WaitInv'
  BY WaitStep
<1>3. WaitInv => NoOrderForgotten
  BY DEF WaitInv
<1> QED
  BY <1>1, <1>2, <1>3, Invariance, BookInvariant, SerialInvariant, PTL DEF Spec
=============================================================================
