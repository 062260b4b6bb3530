------------------------------ MODULE Firestore ------------------------------
(***************************************************************************)
(* The part of Cloud Firestore that AuthManager uses: the document         *)
(* users/<authID>, the collection users/<authID>/purchases, and the client *)
(* library between them and the SDK.                                       *)
(*                                                                         *)
(* The client library applies a write to its local, persistent view at     *)
(* once and sends the writes to the backend in order; the completion block *)
(* of a write runs when the backend has answered.  A getDocument or        *)
(* getDocuments reads the view (the server's documents with the pending    *)
(* writes on top) some time after the call.  Every completion block is     *)
(* dispatched to the main queue, in the order the library finished the     *)
(* operations.  One device writes these documents, so an updateData fails  *)
(* exactly when the document was missing from the view when it was issued. *)
(***************************************************************************)
EXTENDS Integers, Sequences

CONSTANTS
    Orders,           \* order ids the provider can hand out
    Services,         \* service entries of the catalogue
    Countries,        \* country entries of the catalogue
    Tokens,           \* FCM tokens the host may report
    Nil,              \* Swift's nil, and the empty token
    FirestoreOnline,  \* does the backend answer in this instance?
    Faults            \* what may fail in this instance

ASSUME FirestoreAssumption ==
    /\ Nil \notin Orders \cup Services \cup Countries \cup Tokens
    /\ FirestoreOnline \in BOOLEAN
    /\ Faults \subseteq {"failedRead", "lostReply", "restart"}

VARIABLES
    userDoc,    \* the document users/<authID>, as this device sees it
    purchases,  \* the collection purchases, by order_id
    unacked,    \* completion blocks of writes the backend has not answered
    reads,      \* reads that have been issued and not performed, by kind
    callbacks   \* completion blocks waiting in the main queue

firestoreVars == <<userDoc, purchases, unacked, reads, callbacks>>

(***************************************************************************)
(* Documents.  Status "none" stands for a purchase document that does not  *)
(* exist; "1", "8" and "6" are the status strings the SDK writes.          *)
(***************************************************************************)
UserDocuments == [exists : BOOLEAN, userBalance : Int, fcmToken : Tokens \cup {Nil}]

Purchase == [status       : {"none", "1", "6", "8"},
             verifyCode   : Orders \cup {Nil},
             service      : Services \cup {Nil},
             serviceTitle : Services \cup {Nil},
             country      : Countries \cup {Nil}]

NoPurchase == [status |-> "none", verifyCode |-> Nil, service |-> Nil,
               serviceTitle |-> Nil, country |-> Nil]

NoPurchases == [o \in Orders |-> NoPurchase]

ReadKinds == {"balance", "purchases"}

WriteAck       == [of : {"balanceWritten", "purchaseWritten"}, ok : BOOLEAN]
BalanceResult  == [of : {"balance"}, ok : BOOLEAN, value : Int]
PurchaseResult == [of : {"purchases"}, ok : BOOLEAN, docs : [Orders -> Purchase]]

FirestoreTypeOK ==
    /\ userDoc \in UserDocuments
    /\ purchases \in [Orders -> Purchase]
    /\ unacked \in Seq(WriteAck)
    /\ reads \in [ReadKinds -> Nat]
    /\ callbacks \in Seq(WriteAck \cup BalanceResult \cup PurchaseResult)

-----------------------------------------------------------------------------
(***************************************************************************)
(* What the SDK does to the library: the completion blocks it leaves with  *)
(* its writes, and the reads it issues.                                    *)
(***************************************************************************)
Ack(kind, ok) == [of |-> kind, ok |-> ok]

ReadsOf(kinds) == [k \in ReadKinds |-> IF k \in kinds THEN 1 ELSE 0]

Issue(kind) == reads' = [reads EXCEPT ![kind] = @ + 1]

(***************************************************************************)
(* What the library does on its own.  A result that its block ignores has  *)
(* ok = FALSE: an error, a missing user document, an empty collection.     *)
(***************************************************************************)
Result(kind, ok) ==
    IF kind = "balance"
    THEN [of |-> kind, ok |-> ok /\ userDoc.exists, value |-> userDoc.userBalance]
    ELSE [of |-> kind, ok |-> ok /\ \E o \in Orders : purchases[o].status # "none",
          docs |-> purchases]

\* The backend answers the oldest write.
Acknowledge ==
    /\ FirestoreOnline
    /\ unacked # <<>>
    /\ callbacks' = Append(callbacks, Head(unacked))
    /\ unacked' = Tail(unacked)
    /\ UNCHANGED <<userDoc, purchases, reads>>

\* A read is performed, or fails, and its block is queued.
FinishRead(kind, ok) ==
    /\ FirestoreOnline
    /\ reads[kind] > 0
    /\ ok \/ "failedRead" \in Faults
    /\ reads' = [reads EXCEPT ![kind] = @ - 1]
    /\ callbacks' = Append(callbacks, Result(kind, ok))
    /\ UNCHANGED <<userDoc, purchases, unacked>>

\* The block at the head of the main queue, which is about to run.
Arrives(kind) ==
    /\ callbacks # <<>>
    /\ Head(callbacks).of = kind
    /\ callbacks' = Tail(callbacks)

\* Mutant: the completion block of a write does not fetch.
NoRefetch(kind) == UNCHANGED reads

\* The completion block of a write fetches what was written, unless the write failed.
Refetch(kind) == IF Head(callbacks).ok THEN Issue(kind) ELSE UNCHANGED reads

(***************************************************************************)
(* The process dies: documents and pending writes are on disk, completion  *)
(* blocks and reads are not.  The next launch issues the reads in kinds.   *)
(***************************************************************************)
LoseMemory(kinds) ==
    /\ unacked' = <<>>
    /\ callbacks' = <<>>
    /\ reads' = ReadsOf(kinds)
=============================================================================
