----------------------------- MODULE SmsProvider -----------------------------
(***************************************************************************)
(* ActivationNetworkManager and the service behind it, sms-activate.org.   *)
(*                                                                         *)
(* Each call of buyNumber, getStatus or setStatus is one HTTP request with *)
(* a completion closure.  The service handles a request at any time after  *)
(* it is sent, requests are answered in any order, and the closure gets    *)
(* nil when a request or its answer is lost.  Closures run on the main     *)
(* queue, one at a time.  The service itself is external: its states and   *)
(* answers are the ones the SDK's code distinguishes.                      *)
(***************************************************************************)
EXTENDS Firestore

CONSTANTS
    Requests,        \* slots for HTTP requests on their way
    FinishFrom,      \* states of an order in which it can be finished
    CancelFrom,      \* states of an order in which it can be cancelled
    RepeatAccepted   \* is a repeated setStatus answered like the first one?

OpenStates == {"waiting", "received"}

ASSUME ProviderAssumption ==
    /\ FinishFrom \subseteq OpenStates
    /\ CancelFrom \subseteq OpenStates
    /\ RepeatAccepted \in BOOLEAN

VARIABLES
    http,     \* the requests on their way, with what their closures captured
    provider  \* the orders, at the service

providerVars == <<http, provider>>

OrderStates == OpenStates \cup {"unsold", "finished", "cancelled"}

Calls == {"idle", "getNumber", "getStatus", "finish", "cancel"}

Replies == {"pending", "nil", "ACCESS_NUMBER", "NO_NUMBERS", "STATUS_OK", "STATUS_WAIT_CODE",
            "ACCESS_ACTIVATION", "ACCESS_CANCEL", "BAD_STATUS"}

\* The verification code of an order is represented by the order itself.
Request == [call    : Calls,
            service : Services \cup {Nil},
            country : Countries \cup {Nil},
            order   : Orders \cup {Nil},
            code    : Orders \cup {Nil},
            reply   : Replies]

SoldOrder == [state : OrderStates, service : Services \cup {Nil}, country : Countries \cup {Nil}]

ProviderTypeOK ==
    /\ http \in [Requests -> Request]
    /\ provider \in [Orders -> SoldOrder]

Idle == [call |-> "idle", service |-> Nil, country |-> Nil, order |-> Nil,
         code |-> Nil, reply |-> "pending"]

ProviderInit ==
    /\ http = [r \in Requests |-> Idle]
    /\ provider = [o \in Orders |-> [state |-> "unsold", service |-> Nil, country |-> Nil]]

-----------------------------------------------------------------------------
(***************************************************************************)
(* The requests of ActivationNetworkManager.                               *)
(***************************************************************************)
BuyNumber(service, country) == [Idle EXCEPT !.call = "getNumber", !.service = service,
                                            !.country = country]

GetStatus(order) == [Idle EXCEPT !.call = "getStatus", !.order = order]

SetStatusFinish(order, code) == [Idle EXCEPT !.call = "finish", !.order = order, !.code = code]

SetStatusCancel(order) == [Idle EXCEPT !.call = "cancel", !.order = order]

Send(r, request) ==
    /\ http[r].call = "idle"
    /\ http' = [http EXCEPT ![r] = request]

\* The closure of request r is about to run, with its answer.
Answered(r, call) == http[r].call = call /\ http[r].reply # "pending"

Release(r) == http' = [http EXCEPT ![r] = Idle]

-----------------------------------------------------------------------------
(***************************************************************************)
(* The service.                                                            *)
(***************************************************************************)
Pending(r, call) == http[r].call = call /\ http[r].reply = "pending"

Reply(r, text) == http' = [http EXCEPT ![r].reply = text]

Sell(r, o) ==
    /\ Pending(r, "getNumber")
    /\ provider[o].state = "unsold"
    /\ provider' = [provider EXCEPT ![o] = [state |-> "waiting", service |-> http[r].service,
                                            country |-> http[r].country]]
    /\ http' = [http EXCEPT ![r].reply = "ACCESS_NUMBER", ![r].order = o]

\* NO_NUMBERS and every other text but ACCESS_NUMBER take the same path in the SDK.
RefuseNumber(r) ==
    /\ Pending(r, "getNumber")
    /\ Reply(r, "NO_NUMBERS")
    /\ UNCHANGED provider

\* STATUS_OK carries the code; a finished order may still be reported with its code.
ReportStatus(r) ==
    /\ Pending(r, "getStatus")
    /\ \/ provider[http[r].order].state \in {"received", "finished"} /\ Reply(r, "STATUS_OK")
       \/ provider[http[r].order].state # "received" /\ Reply(r, "STATUS_WAIT_CODE")
    /\ UNCHANGED provider

Final(call) == IF call = "finish" THEN "finished" ELSE "cancelled"

Access(call) == IF call = "finish" THEN "ACCESS_ACTIVATION" ELSE "ACCESS_CANCEL"

\* An open order takes its final state from the first setStatus that is accepted.
Accept(r, call) ==
    /\ Pending(r, call)
    /\ provider[http[r].order].state \in IF call = "finish" THEN FinishFrom ELSE CancelFrom
    /\ provider' = [provider EXCEPT ![http[r].order].state = Final(call)]
    /\ Reply(r, Access(call))

AcceptAgain(r, call) ==
    /\ RepeatAccepted
    /\ Pending(r, call)
    /\ provider[http[r].order].state = Final(call)
    /\ Reply(r, Access(call))
    /\ UNCHANGED provider

\* A setStatus may be refused whatever the state (too early, too late, no such order).
Refuse(r, call) ==
    /\ Pending(r, call)
    /\ ~(RepeatAccepted /\ provider[http[r].order].state = Final(call))
    /\ Reply(r, "BAD_STATUS")
    /\ UNCHANGED provider

\* An SMS with the code reaches the rented number.
CodeArrives(o) ==
    /\ provider[o].state = "waiting"
    /\ provider' = [provider EXCEPT ![o].state = "received"]
    /\ UNCHANGED http

\* The request never arrives, or its answer is lost: the closure gets nil.
Lose(r) ==
    /\ "lostReply" \in Faults
    /\ http[r].call # "idle" /\ http[r].reply # "nil"
    /\ Reply(r, "nil")
    /\ UNCHANGED provider

SetStatusCalls == {"finish", "cancel"}

Serve(r) ==
    \/ \E o \in Orders : Sell(r, o)
    \/ RefuseNumber(r)
    \/ ReportStatus(r)
    \/ \E call \in SetStatusCalls : Accept(r, call) \/ AcceptAgain(r, call) \/ Refuse(r, call)

ProviderStep ==
    \/ \E r \in Requests : Serve(r) \/ Lose(r)
    \/ \E o \in Orders : CodeArrives(o)
=============================================================================
