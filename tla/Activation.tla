----------------------------- MODULE Activation ------------------------------
(***************************************************************************)
(* Buying a number and waiting for its code: DataManager.startActivation   *)
(* and the selection it reads, AuthManager's one-order session with its    *)
(* one-second timer, the purchase records, and the balance they charge.    *)
(*                                                                         *)
(* Every handler runs on the main queue, so it is one action.  Between two *)
(* of them anything may happen: another answer, a timer tick, a host call, *)
(* the death of the process.                                               *)
(***************************************************************************)
EXTENDS UserBalance, SmsProvider

CONSTANTS
    Timeout,    \* ticks until the order is cancelled (600 in the code)
    HostSerial  \* does the host wait for one order before it starts another?

ASSUME ActivationAssumption ==
    /\ Timeout \in Nat
    /\ HostSerial \in BOOLEAN

VARIABLES
    selectedService, isServiceSelected, selectedCountry, isCountrySelected,
    currentActivation,  \* the order id of AuthManager.currentActivation, or Nil
    timer,              \* is AuthManager.timer different from nil?
    isTimerRunning,
    duration,
    userNumbers,        \* the list of purchases shown to the user, by order_id
    trapped,            \* a force unwrap found nil: the process is dead
    charged,            \* history: the orders that have been charged
    refunds             \* history: refunds credited for each order

selectionVars == <<selectedService, isServiceSelected, selectedCountry, isCountrySelected>>

sessionVars == <<currentActivation, timer, isTimerRunning, duration>>

activationVars == <<selectionVars, sessionVars, userNumbers, trapped, charged, refunds>>

vars == <<firestoreVars, balanceVars, providerVars, activationVars>>

(***************************************************************************)
(* The types of the state; in particular startTimer's duration stays       *)
(* between 0 and Timeout.                                                  *)
(***************************************************************************)
TypeOK ==
    /\ BalanceTypeOK
    /\ ProviderTypeOK
    /\ selectedService \in Services \cup {Nil}
    /\ isServiceSelected \in BOOLEAN
    /\ selectedCountry \in Countries \cup {Nil}
    /\ isCountrySelected \in BOOLEAN
    /\ currentActivation \in Orders \cup {Nil}
    /\ timer \in BOOLEAN
    /\ isTimerRunning \in BOOLEAN
    /\ duration \in 0 .. Timeout
    /\ userNumbers \in [Orders -> Purchase]
    /\ trapped \in BOOLEAN
    /\ charged \in SUBSET Orders
    /\ refunds \in [Orders -> Nat]

-----------------------------------------------------------------------------
(***************************************************************************)
(* The process: the SDK's init issues both fetches, and everything else in *)
(* memory starts empty.                                                    *)
(***************************************************************************)
Init ==
    /\ BalanceInit
    /\ ProviderInit
    /\ reads = ReadsOf(ReadKinds)
    /\ selectedService = Nil /\ isServiceSelected = FALSE
    /\ selectedCountry = Nil /\ isCountrySelected = FALSE
    /\ currentActivation = Nil /\ timer = FALSE /\ isTimerRunning = FALSE
    /\ duration = Timeout
    /\ userNumbers = NoPurchases
    /\ trapped = FALSE
    /\ charged = {}
    /\ refunds = [o \in Orders |-> 0]

\* Everything in memory, in a process that has just been launched after another.
LaunchAgain ==
    /\ LoseMemory(ReadKinds)
    /\ RestartBalance
    /\ http' = [r \in Requests |-> Idle]
    /\ selectedService' = Nil /\ isServiceSelected' = FALSE
    /\ selectedCountry' = Nil /\ isCountrySelected' = FALSE
    /\ currentActivation' = Nil /\ timer' = FALSE /\ isTimerRunning' = FALSE
    /\ duration' = Timeout
    /\ userNumbers' = NoPurchases
    /\ trapped' = FALSE

\* The process ends, on its own or after a trap, and the app is launched again.
Restart ==
    /\ "restart" \in Faults
    /\ LaunchAgain
    /\ UNCHANGED <<userDoc, purchases, ledger, serial, provider, charged, refunds>>

-----------------------------------------------------------------------------
(***************************************************************************)
(* DataManager: the selection.                                             *)
(***************************************************************************)
Buying == \E r \in Requests : http[r].call = "getNumber"

\* A serial host leaves the SDK alone while a purchase is on its way.
HostMayCall == ~trapped /\ (HostSerial => ~Buying)

SelectService(service) ==
    /\ HostMayCall
    /\ selectedService' = service /\ isServiceSelected' = TRUE
    /\ UNCHANGED <<selectedCountry, isCountrySelected>>

SelectCountry(country) ==
    /\ HostMayCall
    /\ selectedCountry' = country /\ isCountrySelected' = TRUE
    /\ UNCHANGED <<selectedService, isServiceSelected>>

UnselectService ==
    /\ selectedService' = IF isServiceSelected THEN Nil ELSE selectedService
    /\ isServiceSelected' = FALSE

UnselectCountry ==
    /\ selectedCountry' = IF isCountrySelected THEN Nil ELSE selectedCountry
    /\ isCountrySelected' = FALSE

Select ==
    /\ \/ \E service \in Services : SelectService(service)
       \/ \E country \in Countries : SelectCountry(country)
       \/ HostMayCall /\ UnselectService /\ UNCHANGED <<selectedCountry, isCountrySelected>>
       \/ HostMayCall /\ UnselectCountry /\ UNCHANGED <<selectedService, isServiceSelected>>
    /\ UNCHANGED <<firestoreVars, balanceVars, providerVars, sessionVars, userNumbers,
                   trapped, charged, refunds>>

-----------------------------------------------------------------------------
(***************************************************************************)
(* AuthManager: the session and its timer.                                 *)
(***************************************************************************)
StartPurchase(order) ==
    /\ currentActivation' = order
    /\ isTimerRunning' = TRUE
    /\ duration' = Timeout
    /\ timer' = TRUE

\* Mutant: stopTimer forgets to drop the order.
StopTimerKeepsOrder ==
    /\ timer' = FALSE
    /\ isTimerRunning' = IF timer THEN FALSE ELSE isTimerRunning
    /\ UNCHANGED <<currentActivation, duration>>

StopTimer ==
    /\ timer' = FALSE
    /\ isTimerRunning' = IF timer THEN FALSE ELSE isTimerRunning
    /\ currentActivation' = IF timer THEN Nil ELSE currentActivation
    /\ UNCHANGED duration

(***************************************************************************)
(* ActivationModel: the documents it writes (all fields of a new purchase, *)
(* or the fields that a finish or a cancel changes), the model it reads    *)
(* from a document, and the text it shows for it.                          *)
(***************************************************************************)
CreateDic(service, serviceTitle, country) ==
    [status |-> "1", verifyCode |-> Nil, service |-> service, serviceTitle |-> serviceTitle,
     country |-> country]

\* Mutant: the fields are those of the selection when the order is cancelled.
GetDicForCancelAnew(document) ==
    [CreateDic(document.service, selectedService, selectedCountry) EXCEPT !.status = "8"]

GetDicForCancel(document) == [document EXCEPT !.status = "8"]

GetDicForFinish(document, code) == [document EXCEPT !.status = "6", !.verifyCode = code]

ModelOf(document) ==
    [status |-> document.status, verifyCode |-> document.verifyCode,
     service |-> document.service, serviceTitle |-> document.serviceTitle,
     country |-> document.country]

GetNumberStatusText(model) ==
    CASE model.status = "1" -> <<"Waiting SMS Code">>
      [] model.status = "8" -> <<"You Cancelled">>
      [] model.status = "6" -> <<"Your activation code", model.serviceTitle, model.verifyCode>>
      [] OTHER              -> <<>>

\* initNumberPurchase is a setData, updateNumberPurchase an updateData.
InitNumberPurchase(order, dic) == purchases' = [purchases EXCEPT ![order] = dic]

UpdateNumberPurchase(order, dic) ==
    purchases' = IF purchases[order].status = "none" THEN purchases
                 ELSE [purchases EXCEPT ![order] = dic]

PurchaseAck(order) == Ack("purchaseWritten", purchases[order].status # "none")

-----------------------------------------------------------------------------
\* Mutant: startActivation clears the selection when it sends the request.
StartActivationClears(r) ==
    /\ HostMayCall
    /\ HostSerial => currentActivation = Nil
    /\ selectedService # Nil /\ selectedCountry # Nil
    /\ Send(r, BuyNumber(selectedService, selectedCountry))
    /\ UnselectService /\ UnselectCountry
    /\ UNCHANGED <<firestoreVars, balanceVars, provider, sessionVars, userNumbers,
                   trapped, charged, refunds>>

(***************************************************************************)
(* startActivation: the request captures the service and country selected  *)
(* now; without both of them the call returns at once.                     *)
(***************************************************************************)
StartActivation(r) ==
    /\ HostMayCall
    /\ HostSerial => currentActivation = Nil
    /\ selectedService # Nil /\ selectedCountry # Nil
    /\ Send(r, BuyNumber(selectedService, selectedCountry))
    /\ UNCHANGED <<firestoreVars, balanceVars, provider, activationVars>>

(***************************************************************************)
(* Its closure, when a number was bought: the title and the country are    *)
(* those selected by now; the order is charged, recorded and becomes the   *)
(* session, and the selection is cleared.                                  *)
(***************************************************************************)
NumberBought(r) ==
    /\ ~trapped
    /\ Answered(r, "getNumber") /\ http[r].reply = "ACCESS_NUMBER"
    /\ selectedService # Nil /\ selectedCountry # Nil
    /\ UpdateUserBalance(FALSE, TRUE, 0)
    /\ UnselectService /\ UnselectCountry
    /\ InitNumberPurchase(http[r].order,
                          CreateDic(http[r].service, selectedService, selectedCountry))
    /\ unacked' = unacked \o <<BalanceAck, Ack("purchaseWritten", TRUE)>>
    /\ missed' = missed \ (Refetched("balance", BalanceAck) \cup {"purchases"})
    /\ StartPurchase(http[r].order)
    /\ Release(r)
    /\ charged' = charged \cup {http[r].order}
    /\ UNCHANGED <<reads, callbacks, provider, userNumbers, trapped, refunds>>

(***************************************************************************)
(* The charge and the record are two writes, which the library stores one  *)
(* after the other: a process that dies between them, during the closure,  *)
(* leaves an order that is charged and recorded nowhere.                   *)
(***************************************************************************)
KilledAfterCharge(r) ==
    /\ "restart" \in Faults
    /\ ~trapped
    /\ Answered(r, "getNumber") /\ http[r].reply = "ACCESS_NUMBER"
    /\ selectedService # Nil /\ selectedCountry # Nil
    /\ WriteBalance(TRUE, 0)
    /\ charged' = charged \cup {http[r].order}
    /\ LaunchAgain
    /\ UNCHANGED <<purchases, provider, refunds>>

\* The same closure finds the selection gone: self.getSelectedService()! traps.
NumberTraps(r) ==
    /\ ~trapped
    /\ Answered(r, "getNumber") /\ http[r].reply = "ACCESS_NUMBER"
    /\ selectedService = Nil \/ selectedCountry = Nil
    /\ trapped' = TRUE
    /\ Release(r)
    /\ UNCHANGED <<firestoreVars, balanceVars, provider, selectionVars, sessionVars,
                   userNumbers, charged, refunds>>

NumberRefused(r) ==
    /\ ~trapped
    /\ Answered(r, "getNumber") /\ http[r].reply # "ACCESS_NUMBER"
    /\ Release(r)
    /\ UNCHANGED <<firestoreVars, balanceVars, provider, activationVars>>

-----------------------------------------------------------------------------
(***************************************************************************)
(* The timer: poll the order once a tick, then ask for its cancellation at *)
(* every tick.  Both do nothing without an order.                          *)
(***************************************************************************)
CheckNumber(r) ==
    IF currentActivation = Nil THEN UNCHANGED http ELSE Send(r, GetStatus(currentActivation))

CancelOrder(r) ==
    IF currentActivation = Nil THEN UNCHANGED http ELSE Send(r, SetStatusCancel(currentActivation))

\* Mutants: the countdown runs past zero; it never moves.
TimerPastZero(r) == duration' = duration - 1 /\ CheckNumber(r)

TimerStuck(r) == UNCHANGED duration /\ IF duration > 0 THEN CheckNumber(r) ELSE CancelOrder(r)

TimerFires(r) ==
    IF duration > 0 THEN duration' = duration - 1 /\ CheckNumber(r)
                    ELSE UNCHANGED duration /\ CancelOrder(r)

Tick(r) ==
    /\ ~trapped
    /\ timer
    /\ TimerFires(r)
    /\ UNCHANGED <<firestoreVars, balanceVars, provider, selectionVars, currentActivation,
                   timer, isTimerRunning, userNumbers, trapped, charged, refunds>>

\* The host's cancelActivation; without an order it returns at once.
CancelOrderByUser(r) ==
    /\ ~trapped
    /\ currentActivation # Nil
    /\ CancelOrder(r)
    /\ UNCHANGED <<firestoreVars, balanceVars, provider, activationVars>>

(***************************************************************************)
(* The closure of getStatus: a code finishes the order of the session, as  *)
(* it is now.                                                              *)
(***************************************************************************)
FinishOrder(r, code) ==
    http' = [http EXCEPT ![r] = IF currentActivation = Nil THEN Idle
                                ELSE SetStatusFinish(currentActivation, code)]

StatusReceived(r) ==
    /\ ~trapped
    /\ Answered(r, "getStatus")
    /\ IF http[r].reply = "STATUS_OK" THEN FinishOrder(r, http[r].order) ELSE Release(r)
    /\ UNCHANGED <<firestoreVars, balanceVars, provider, activationVars>>

\* Mutant: any answer to setStatus is taken for a confirmation.
ConfirmedByAnything(r, text) == http[r].reply # "nil"

\* The closures of setStatus act on one answer only.
Confirmed(r, text) == http[r].reply = text

\* The closure of setStatus(finish): it has captured the order and the code.
OrderFinished(r) ==
    /\ ~trapped
    /\ Answered(r, "finish")
    /\ IF Confirmed(r, "ACCESS_ACTIVATION")
       THEN /\ UpdateNumberPurchase(http[r].order,
                                 GetDicForFinish(purchases[http[r].order], http[r].code))
            /\ unacked' = Append(unacked, PurchaseAck(http[r].order))
            /\ missed' = missed \ Refetched("purchases", PurchaseAck(http[r].order))
            /\ StopTimer
       ELSE UNCHANGED <<purchases, unacked, missed, sessionVars>>
    /\ Release(r)
    /\ UNCHANGED <<userDoc, reads, callbacks, userBalance, ledger, serial, provider,
                   selectionVars, userNumbers, trapped, charged, refunds>>

(***************************************************************************)
(* The closures of setStatus(cancel), of the timer and of the user alike:  *)
(* the record is closed and one activation is credited.                    *)
(***************************************************************************)
OrderCancelled(r) ==
    /\ ~trapped
    /\ Answered(r, "cancel") /\ Confirmed(r, "ACCESS_CANCEL")
    /\ UpdateNumberPurchase(http[r].order, GetDicForCancel(purchases[http[r].order]))
    /\ UpdateUserBalance(TRUE, FALSE, 1)
    /\ unacked' = unacked \o <<PurchaseAck(http[r].order), BalanceAck>>
    /\ missed' = missed \ (Refetched("balance", BalanceAck)
                            \cup Refetched("purchases", PurchaseAck(http[r].order)))
    /\ StopTimer
    /\ Release(r)
    /\ refunds' = [refunds EXCEPT ![http[r].order] = @ + 1]
    /\ UNCHANGED <<reads, callbacks, provider, selectionVars, userNumbers, trapped, charged>>

\* The process dies between the two writes: the record is closed, the refund is lost.
KilledAfterClose(r) ==
    /\ "restart" \in Faults
    /\ ~trapped
    /\ Answered(r, "cancel") /\ Confirmed(r, "ACCESS_CANCEL")
    /\ UpdateNumberPurchase(http[r].order, GetDicForCancel(purchases[http[r].order]))
    /\ LaunchAgain
    /\ UNCHANGED <<userDoc, ledger, serial, provider, charged, refunds>>

CancelRefused(r) ==
    /\ ~trapped
    /\ Answered(r, "cancel") /\ ~Confirmed(r, "ACCESS_CANCEL")
    /\ Release(r)
    /\ UNCHANGED <<firestoreVars, balanceVars, provider, activationVars>>

-----------------------------------------------------------------------------
(***************************************************************************)
(* The completion blocks of the purchase records: a write that succeeded   *)
(* refetches the list; a fetch that returned documents replaces it.        *)
(***************************************************************************)
PurchaseWritten ==
    /\ ~trapped
    /\ Arrives("purchaseWritten")
    /\ Refetch("purchases")
    /\ UNCHANGED <<userDoc, purchases, unacked, balanceVars, providerVars, activationVars>>

PurchasesFetched ==
    /\ ~trapped
    /\ Arrives("purchases")
    /\ userNumbers' = IF Head(callbacks).ok
                      THEN [o \in Orders |-> ModelOf(Head(callbacks).docs[o])] ELSE userNumbers
    /\ UNCHANGED <<userDoc, purchases, unacked, reads, balanceVars, providerVars,
                   selectionVars, sessionVars, trapped, charged, refunds>>

-----------------------------------------------------------------------------
Answer(r) ==
    \/ NumberBought(r)
    \/ NumberTraps(r)
    \/ NumberRefused(r)
    \/ StatusReceived(r)
    \/ OrderFinished(r)
    \/ OrderCancelled(r)
    \/ CancelRefused(r)

Killed(r) == KilledAfterCharge(r) \/ KilledAfterClose(r)

HostCall ==
    \/ Select
    \/ \E r \in Requests : StartActivation(r) \/ CancelOrderByUser(r)
    \/ /\ ~trapped
       /\ \/ \E amount \in Amounts : AddBalance(amount)
          \/ InitUser
          \/ \E token \in Tokens : UpdateFCMToken(token)
          \/ PublicInit(ReadKinds)
       /\ UNCHANGED <<providerVars, activationVars>>

Block ==
    \/ PurchaseWritten
    \/ PurchasesFetched
    \/ ~trapped /\ (BalanceWritten \/ BalanceFetched) /\ UNCHANGED <<providerVars, activationVars>>

Next ==
    \/ HostCall
    \/ \E r \in Requests : Tick(r) \/ Answer(r) \/ Killed(r)
    \/ Block
    \/ ~trapped /\ FirestoreStep /\ UNCHANGED <<providerVars, activationVars>>
    \/ ProviderStep /\ UNCHANGED <<firestoreVars, balanceVars, activationVars>>
    \/ Restart

Spec == Init /\ [][Next]_vars

(***************************************************************************)
(* Fairness.  The run loop of a foreground app keeps firing the timer and  *)
(* running closures; every request is answered or reported lost (HTTP time-*)
(* out).  Tick is strongly fair because only the bound on Requests ever    *)
(* blocks it.  Of the service it is assumed that it cannot refuse for ever *)
(* to cancel an order that is in a state of CancelFrom.                    *)
(***************************************************************************)
Served(r) == Serve(r) /\ UNCHANGED <<firestoreVars, balanceVars, activationVars>>

CancelAccepted ==
    /\ \E r \in Requests : Accept(r, "cancel")
    /\ UNCHANGED <<firestoreVars, balanceVars, activationVars>>

FairSpec ==
    /\ Spec
    /\ \A r \in Requests : WF_vars(Answer(r)) /\ WF_vars(Served(r))
    /\ SF_vars(\E r \in Requests : Tick(r))
    /\ SF_vars(CancelAccepted)

-----------------------------------------------------------------------------
(***************************************************************************)
(* The session's four variables agree: there is an order exactly while the *)
(* timer exists and isTimerRunning is set.  startTimer and stopTimer guard *)
(* on the timer only, so an order without a timer could never be dropped.  *)
(***************************************************************************)
SessionConsistent ==
    /\ timer <=> currentActivation # Nil
    /\ isTimerRunning <=> timer

(***************************************************************************)
(* A purchase record never claims more than the service has confirmed: it  *)
(* exists only for an order that was sold, says "6" only if the order is   *)
(* finished there and "8" only if it is cancelled there, whatever answers  *)
(* are lost, late or out of order (finishOrder, cancelOrder).              *)
(***************************************************************************)
RecordsMatchProvider ==
    \A o \in Orders :
        /\ purchases[o].status # "none" => provider[o].state # "unsold"
        /\ purchases[o].status = "6" => provider[o].state = "finished"
        /\ purchases[o].status = "8" => provider[o].state = "cancelled"

(***************************************************************************)
(* cancelOrder and cancelOrderByUser credit an order only if the service   *)
(* has cancelled it, and at most once if the service accepts the same      *)
(* cancellation once, however many cancel requests the timer and the user  *)
(* have on their way.                                                      *)
(***************************************************************************)
RefundsBacked ==
    \A o \in Orders :
        /\ refunds[o] > 0 => provider[o].state = "cancelled"
        /\ ~RepeatAccepted => refunds[o] <= 1

\* A record that has been closed (updateNumberPurchase) is never reopened or reversed.
ClosedRecordsStay ==
    [][\A o \in Orders : purchases[o].status \in {"6", "8"}
                            => purchases'[o].status = purchases[o].status]_vars

(***************************************************************************)
(* When no write or fetch of the purchases is on its way, the list the     *)
(* user sees is the collection (fetchNumberPurchases replaces the list, so *)
(* answers applied out of order would leave an old one), unless the fetch  *)
(* after the last change failed.                                           *)
(***************************************************************************)
PurchasesIdle ==
    /\ reads["purchases"] = 0
    /\ \A i \in DOMAIN unacked : unacked[i].of # "purchaseWritten"
    /\ \A i \in DOMAIN callbacks : callbacks[i].of \notin {"purchases", "purchaseWritten"}

ListSettles ==
    PurchasesIdle /\ "purchases" \notin missed => userNumbers = purchases

(***************************************************************************)
(* The closures, the timer, the library and the deaths of the process,     *)
(* between the two writes of a closure too, together implement the order   *)
(* book: every step is an order opened, finished or cancelled with its one *)
(* charge or refund, half of that in a process that dies, a top-up, or     *)
(* nothing; and an order that was left half done is never touched again.   *)
(***************************************************************************)
BookStatus(o) ==
    CASE purchases[o].status = "none" /\ o \in charged -> "unrecorded"
      [] purchases[o].status = "8" /\ refunds[o] = 0 -> "unrefunded"
      [] OTHER -> purchases[o].status

Book == INSTANCE OrderBook WITH book    <- [o \in Orders |-> BookStatus(o)],
                                credit  <- ledger,
                                Crashes <- "restart" \in Faults

ImplementsOrderBook == Book!BookSpec

(***************************************************************************)
(* With a serial host, a service that accepts a setStatus once, and no     *)
(* restart, an order whose record is still waiting is the order of the     *)
(* session: no closure of an earlier order stops the timer of a later one. *)
(***************************************************************************)
NoOrderForgotten ==
    \A o \in Orders : purchases[o].status = "1" => currentActivation = o

(***************************************************************************)
(* startActivation's closure unwraps the selected service and country with *)
(* "!", which asserts that they are still selected.                        *)
(***************************************************************************)
NoTrap == ~trapped

(***************************************************************************)
(* getNumberStatusText tells the user "Your <serviceTitle> activation code *)
(* is: <code>": the code recorded for an order is the one sent to it.      *)
(***************************************************************************)
CodeBelongsToOrder ==
    \A o \in Orders : LET text == GetNumberStatusText(purchases[o])
                      IN  Len(text) = 3 => text[3] = o

(***************************************************************************)
(* The same text, with a serial host: the title recorded for an order      *)
(* names the service that was bought, and the country is the one it was    *)
(* bought for, although both are read from the selection when the answer   *)
(* arrives.                                                                *)
(***************************************************************************)
RecordDescribesOrder ==
    \A o \in Orders : purchases[o].status # "none" =>
        /\ purchases[o].serviceTitle = provider[o].service
        /\ purchases[o].country = provider[o].country

(***************************************************************************)
(* A session ends, or it is stranded: the time is up, the order is no      *)
(* longer waiting at the service, and the cancel request that every tick   *)
(* sends is never accepted (startTimer polls only while duration > 0).     *)
(***************************************************************************)
Stranded ==
    /\ currentActivation # Nil
    /\ duration = 0
    /\ provider[currentActivation].state # "waiting"

SessionResolves ==
    currentActivation # Nil ~> (currentActivation = Nil \/ []Stranded)
=============================================================================
