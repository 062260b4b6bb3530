------------------------------ MODULE OrderBook ------------------------------
(***************************************************************************)
(* What buying numbers promises, without requests, timers, closures and    *)
(* completion blocks: the orders on record and the balance the user is     *)
(* entitled to.  An order costs 1 when it is opened; cancelling it gives   *)
(* the 1 back; finishing it does not; a closed order never changes again.  *)
(*                                                                         *)
(* A crash may leave an order half done, charged and not recorded or       *)
(* cancelled and not refunded; nothing mends it, and nothing makes it      *)
(* worse.                                                                  *)
(***************************************************************************)
EXTENDS Integers

CONSTANTS
    Orders,          \* order ids
    Amounts,         \* amounts the host may add
    RepeatAccepted,  \* does the service confirm a cancellation more than once?
    Crashes          \* may the process die?

VARIABLES
    book,   \* the status of each order: "none", "1" (open), "6" (finished), "8" (cancelled),
            \* "unrecorded" (charged only), "unrefunded" (cancelled only)
    credit  \* the balance the user is entitled to

bookVars == <<book, credit>>

BookInit ==
    /\ book = [o \in Orders |-> "none"]
    /\ credit \in Int

Moves(o, from, to) == book[o] = from /\ book' = [book EXCEPT ![o] = to]

OpenOrder(o) == Moves(o, "none", "1") /\ credit' = credit - 1

FinishOrder(o) == Moves(o, "1", "6") /\ UNCHANGED credit

CancelOrder(o) == Moves(o, "1", "8") /\ credit' = credit + 1

\* A service that confirms a cancellation again makes the SDK credit it again.
CreditAgain(o) ==
    /\ RepeatAccepted
    /\ book[o] = "8"
    /\ credit' = credit + 1
    /\ UNCHANGED book

\* A crash in the middle of OpenOrder, and in the middle of CancelOrder.
ChargeOnly(o) == Crashes /\ Moves(o, "none", "unrecorded") /\ credit' = credit - 1

CloseOnly(o) == Crashes /\ Moves(o, "1", "unrefunded") /\ UNCHANGED credit

TopUp(amount) == credit' = credit + amount /\ UNCHANGED book

\* initUser starts the account at 0.
ResetAccount == credit' = 0 /\ UNCHANGED book

BookNext ==
    \/ \E o \in Orders : OpenOrder(o) \/ FinishOrder(o) \/ CancelOrder(o) \/ CreditAgain(o)
    \/ \E o \in Orders : ChargeOnly(o) \/ CloseOnly(o)
    \/ \E amount \in Amounts : TopUp(amount)
    \/ ResetAccount

BookSpec == BookInit /\ [][BookNext]_bookVars
=============================================================================
