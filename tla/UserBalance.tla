----------------------------- MODULE UserBalance -----------------------------
(***************************************************************************)
(* The activation balance: AuthManager.updateUserBalance, fetchUserBalance,*)
(* initUser and updateFCMToken over the document users/<authID>.           *)
(*                                                                         *)
(* Constant.userBalance is a cache of the document's userBalance field.    *)
(* Every change of the balance is a read-modify-write that reads the cache *)
(* and writes the document; the cache follows only when the write has been *)
(* acknowledged and a fetch issued from its completion block has returned. *)
(***************************************************************************)
EXTENDS Firestore

CONSTANTS
    Amounts,         \* amounts the host may pass to addBalance
    StoredBalances,  \* balances the user may start with, Nil for no document
    HostCalls,       \* host API calls exercised in this instance
    MaxBalance,      \* bound on the balances the host brings about
    MaxOutstanding   \* bound on the operations on their way when one is added

ASSUME UserBalanceAssumption ==
    /\ Amounts \subseteq Int
    /\ StoredBalances \subseteq Int \cup {Nil}
    /\ MaxBalance \in Nat
    /\ MaxOutstanding \in Nat

VARIABLES
    userBalance,  \* Constant.userBalance
    ledger,       \* history: the balance the sum of all requested changes gives
    serial,       \* history: no change of the balance overlapped another one
    missed        \* history: the kinds of data whose last change is not refetched

balanceVars == <<userBalance, ledger, serial, missed>>

\* The types of the balance's state: a balance is always an integer, never nil.
BalanceTypeOK ==
    /\ FirestoreTypeOK
    /\ userBalance \in Int
    /\ ledger \in Int
    /\ serial \in BOOLEAN
    /\ missed \in SUBSET ReadKinds

-----------------------------------------------------------------------------
\* No write or read of the balance is on its way.
BalanceIdle ==
    /\ reads["balance"] = 0
    /\ \A i \in DOMAIN unacked : unacked[i].of # "balanceWritten"
    /\ \A i \in DOMAIN callbacks : callbacks[i].of \notin {"balance", "balanceWritten"}

Stored(balance) ==
    [exists |-> balance # Nil, userBalance |-> IF balance = Nil THEN 0 ELSE balance,
     fcmToken |-> Nil]

BalanceInit ==
    /\ userDoc \in {Stored(balance) : balance \in StoredBalances}
    /\ purchases = NoPurchases
    /\ unacked = <<>>
    /\ callbacks = <<>>
    /\ userBalance = 0
    /\ ledger = userDoc.userBalance
    /\ serial = TRUE
    /\ missed = {}

(***************************************************************************)
(* updateUserBalance: the new balance is computed from the cache and       *)
(* written with updateData, which does nothing when the user has no        *)
(* document.  The handler that calls it leaves BalanceAck with the library.*)
(***************************************************************************)
Change(isSpent, amount) == IF isSpent THEN -1 ELSE amount

BalanceAck == Ack("balanceWritten", userDoc.exists)

\* The kind of data that the completion block of a write is going to refetch.
Refetched(kind, ack) == IF ack.ok THEN {kind} ELSE {}

WriteBalance(isSpent, amount) ==
    /\ userDoc' = IF userDoc.exists
                  THEN [userDoc EXCEPT !.userBalance = userBalance + Change(isSpent, amount)]
                  ELSE userDoc
    /\ ledger' = ledger + Change(isSpent, amount)
    /\ serial' = (serial /\ BalanceIdle /\ userDoc.exists)

UpdateUserBalance(isPurchased, isSpent, amount) ==
    /\ isSpent # isPurchased
    /\ WriteBalance(isSpent, amount)
    /\ UNCHANGED userBalance

\* The completion block of updateData.
BalanceWritten ==
    /\ Arrives("balanceWritten")
    /\ Refetch("balance")
    /\ UNCHANGED <<userDoc, purchases, unacked>>
    /\ UNCHANGED balanceVars

\* Mutant: a failed fetch clears the cache.
FetchedOrNil == IF Head(callbacks).ok THEN Head(callbacks).value ELSE Nil

FetchedBalance == IF Head(callbacks).ok THEN Head(callbacks).value ELSE userBalance

\* The completion block of fetchUserBalance.
BalanceFetched ==
    /\ Arrives("balance")
    /\ userBalance' = FetchedBalance
    /\ UNCHANGED <<userDoc, purchases, unacked, reads>>
    /\ UNCHANGED <<ledger, serial, missed>>

\* initUser: setData replaces the document and nothing is refetched.
InitUser ==
    /\ "initUser" \in HostCalls
    /\ userDoc' = [exists |-> TRUE, userBalance |-> 0, fcmToken |-> Nil]
    /\ ledger' = 0
    /\ serial' = (serial /\ BalanceIdle /\ userBalance = 0)
    /\ missed' = missed \cup {"balance"}
    /\ UNCHANGED <<userBalance, purchases, unacked, reads, callbacks>>

\* updateFCMToken: updateData without a completion block.
UpdateFCMToken(token) ==
    /\ "updateFCM" \in HostCalls
    /\ userDoc' = IF userDoc.exists THEN [userDoc EXCEPT !.fcmToken = token] ELSE userDoc
    /\ UNCHANGED <<purchases, unacked, reads, callbacks>>
    /\ UNCHANGED balanceVars

Outstanding == Len(unacked) + Len(callbacks) + reads["balance"]

(***************************************************************************)
(* The SDK's init in a running process (the host may construct another     *)
(* SMSActivate): the documents are fetched again and nothing is reset.     *)
(***************************************************************************)
PublicInit(kinds) ==
    /\ "init" \in HostCalls
    /\ \A kind \in ReadKinds : reads[kind] < MaxOutstanding
    /\ Outstanding < MaxOutstanding
    /\ reads' = [kind \in ReadKinds |-> reads[kind] + ReadsOf(kinds)[kind]]
    /\ missed' = missed \ kinds
    /\ UNCHANGED <<userDoc, purchases, unacked, callbacks, userBalance, ledger, serial>>

InBounds(n) == n \in -MaxBalance .. MaxBalance

\* The public addBalance(amount:).
AddBalance(amount) ==
    /\ "addBalance" \in HostCalls
    /\ InBounds(ledger + amount) /\ InBounds(userBalance + amount)
    /\ Outstanding < MaxOutstanding
    /\ UpdateUserBalance(TRUE, FALSE, amount)
    /\ unacked' = Append(unacked, BalanceAck)
    /\ missed' = missed \ Refetched("balance", BalanceAck)
    /\ UNCHANGED <<purchases, reads, callbacks>>

-----------------------------------------------------------------------------
(***************************************************************************)
(* The component on its own: charges and refunds come from the activation  *)
(* code at any time.                                                       *)
(***************************************************************************)
ChargeOrRefund(isSpent) ==
    /\ InBounds(ledger + Change(isSpent, 1)) /\ InBounds(userBalance + Change(isSpent, 1))
    /\ Outstanding < MaxOutstanding
    /\ UpdateUserBalance(~isSpent, isSpent, 1)
    /\ unacked' = Append(unacked, BalanceAck)
    /\ missed' = missed \ Refetched("balance", BalanceAck)
    /\ UNCHANGED <<purchases, reads, callbacks>>

FirestoreStep ==
    \/ Acknowledge /\ UNCHANGED balanceVars
    \/ \E kind \in ReadKinds : FinishRead(kind, TRUE) /\ UNCHANGED balanceVars
    \/ \E kind \in ReadKinds :
          /\ FinishRead(kind, FALSE)
          /\ serial' = (serial /\ kind # "balance")
          /\ missed' = missed \cup {kind}
          /\ UNCHANGED <<userBalance, ledger>>

\* Constant.userBalance starts at 0 in every process; the SDK's init fetches.
RestartBalance ==
    /\ userBalance' = 0
    /\ missed' = {}

Relaunch ==
    /\ "restart" \in Faults
    /\ LoseMemory({"balance"})
    /\ RestartBalance
    /\ UNCHANGED <<userDoc, purchases, ledger, serial>>

BalanceNext ==
    \/ \E amount \in Amounts : AddBalance(amount)
    \/ \E isSpent \in BOOLEAN : ChargeOrRefund(isSpent)
    \/ InitUser
    \/ \E token \in Tokens : UpdateFCMToken(token)
    \/ PublicInit({"balance"})
    \/ FirestoreStep
    \/ BalanceWritten
    \/ BalanceFetched
    \/ Relaunch

allBalanceVars == <<firestoreVars, balanceVars>>

BalanceStart == BalanceInit /\ reads = ReadsOf({"balance"})

BalanceSpec == BalanceStart /\ [][BalanceNext]_allBalanceVars

-----------------------------------------------------------------------------
(***************************************************************************)
(* As long as every change of the balance started with no other balance    *)
(* traffic on its way and no fetch failed, the stored balance is the sum   *)
(* of all changes requested, across restarts: none is lost or counted      *)
(* twice.  (AuthManager.updateUserBalance reads the cache, so this is what *)
(* the refetch in its completion block is there for.)                      *)
(***************************************************************************)
SerialUpdatesExact ==
    serial /\ userDoc.exists => userDoc.userBalance = ledger

(***************************************************************************)
(* Whatever overlaps, when all balance traffic has drained the cache       *)
(* Constant.userBalance equals the stored balance, unless the last change  *)
(* was one nobody refetches (initUser, or a fetch that failed).            *)
(***************************************************************************)
CacheSettles ==
    BalanceIdle /\ "balance" \notin missed /\ userDoc.exists => userBalance = userDoc.userBalance
=============================================================================
