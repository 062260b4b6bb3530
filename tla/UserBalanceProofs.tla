-------------------------- MODULE UserBalanceProofs ---------------------------
(***************************************************************************)
(* Proofs about UserBalance, for any amounts, stored balances, host calls, *)
(* faults and number of operations on their way.  The lemmas on steps are  *)
(* stated for the parts that Activation shares with this component.        *)
(***************************************************************************)
EXTENDS UserBalance, SequenceTheorems, TLAPS

(***************************************************************************)
(* The inductive invariants.  Neither property is inductive: both depend   *)
(* on what the blocks that are still queued are going to bring.            *)
(***************************************************************************)
IsBalanceAck(block) == block.of = "balanceWritten"

IsBalanceResult(block) == block.of = "balance"

\* While the changes are serial, every block on its way brings the stored balance.
SerialInv ==
    serial =>
        /\ \A i \in DOMAIN unacked : IsBalanceAck(unacked[i]) => unacked[i].ok
        /\ \A i \in DOMAIN callbacks : IsBalanceAck(callbacks[i]) => callbacks[i].ok
        /\ userDoc.exists =>
              /\ userDoc.userBalance = ledger
              /\ \A i \in DOMAIN callbacks : IsBalanceResult(callbacks[i]) =>
                    callbacks[i].ok /\ callbacks[i].value = userDoc.userBalance
              /\ BalanceIdle => userBalance = userDoc.userBalance

\* A read of the stored balance is still to come.
ReadAhead ==
    \/ reads["balance"] > 0
    \/ \E i \in DOMAIN unacked : IsBalanceAck(unacked[i]) /\ unacked[i].ok
    \/ \E i \in DOMAIN callbacks : IsBalanceAck(callbacks[i]) /\ callbacks[i].ok

\* The last result in the main queue is the stored balance.
LastResultFresh ==
    \E i \in DOMAIN callbacks :
        /\ IsBalanceResult(callbacks[i])
        /\ callbacks[i].ok /\ callbacks[i].value = userDoc.userBalance
        /\ \A j \in DOMAIN callbacks : j > i => ~IsBalanceResult(callbacks[j])

CacheFresh ==
    /\ \A i \in DOMAIN callbacks : ~IsBalanceResult(callbacks[i])
    /\ userBalance = userDoc.userBalance

CacheInv ==
    userDoc.exists /\ "balance" \notin missed => ReadAhead \/ LastResultFresh \/ CacheFresh

BalanceInv == SerialInv /\ CacheInv

-----------------------------------------------------------------------------
(***************************************************************************)
(* Type correctness.                                                       *)
(***************************************************************************)
LEMMA BalanceAckType ==
    ASSUME BalanceTypeOK
    PROVE  /\ BalanceAck \in WriteAck
           /\ BalanceAck.of = "balanceWritten"
           /\ BalanceAck.ok = userDoc.exists
<1>1. userDoc.exists \in BOOLEAN
  BY DEF BalanceTypeOK, FirestoreTypeOK, UserDocuments
<1> QED
  BY <1>1 DEF BalanceAck, Ack, WriteAck

\* What a read puts into the main queue.
LEMMA ReadResult ==
    ASSUME BalanceTypeOK, NEW kind \in ReadKinds, NEW ok \in BOOLEAN
    PROVE  /\ Result(kind, ok) \in BalanceResult \cup PurchaseResult
           /\ Result(kind, ok).of = kind
           /\ kind = "balance" => /\ Result(kind, ok).ok = (ok /\ userDoc.exists)
                                  /\ Result(kind, ok).value = userDoc.userBalance
<1>1. /\ userDoc.exists \in BOOLEAN
      /\ userDoc.userBalance \in Int
      /\ purchases \in [Orders -> Purchase]
  BY DEF BalanceTypeOK, FirestoreTypeOK, UserDocuments
<1>2. CASE kind = "balance"
  <2>1. (ok /\ userDoc.exists) \in BOOLEAN
    OBVIOUS
  <2> QED
    BY <1>1, <1>2, <2>1 DEF Result, BalanceResult
<1>3. CASE kind = "purchases"
  <2>1. (ok /\ \E o \in Orders : purchases[o].status # "none") \in BOOLEAN
    OBVIOUS
  <2> QED
    BY <1>1, <1>3, <2>1 DEF Result, PurchaseResult
<1> QED
  BY <1>2, <1>3 DEF ReadKinds

\* The two queues, and what leaves and enters them.
LEMMA QueueTypes ==
    ASSUME BalanceTypeOK
    PROVE  /\ unacked \in Seq(WriteAck)
           /\ callbacks \in Seq(WriteAck \cup BalanceResult \cup PurchaseResult)
           /\ \A a \in WriteAck : Append(unacked, a) \in Seq(WriteAck)
           /\ unacked # <<>> => Head(unacked) \in WriteAck /\ Tail(unacked) \in Seq(WriteAck)
           /\ \A b \in WriteAck \cup BalanceResult \cup PurchaseResult :
                 Append(callbacks, b) \in Seq(WriteAck \cup BalanceResult \cup PurchaseResult)
           /\ callbacks # <<>> =>
                 /\ Head(callbacks) \in WriteAck \cup BalanceResult \cup PurchaseResult
                 /\ Tail(callbacks) \in Seq(WriteAck \cup BalanceResult \cup PurchaseResult)
<1> DEFINE B == WriteAck \cup BalanceResult \cup PurchaseResult
<1>1. unacked \in Seq(WriteAck) /\ callbacks \in Seq(B)
  BY DEF BalanceTypeOK, FirestoreTypeOK
<1> HIDE DEF B
<1>2. /\ \A a \in WriteAck : Append(unacked, a) \in Seq(WriteAck)
      /\ \A b \in B : Append(callbacks, b) \in Seq(B)
  BY <1>1, AppendProperties
<1>3. unacked # <<>> => Head(unacked) \in WriteAck /\ Tail(unacked) \in Seq(WriteAck)
  BY <1>1, HeadTailProperties
<1>4. callbacks # <<>> => Head(callbacks) \in B /\ Tail(callbacks) \in Seq(B)
  BY <1>1, HeadTailProperties
<1> QED
  BY <1>1, <1>2, <1>3, <1>4 DEF B

\* updateUserBalance keeps the types.
LEMMA UpdateTypes ==
    ASSUME BalanceTypeOK, NEW isPurchased \in BOOLEAN, NEW isSpent \in BOOLEAN,
           NEW amount \in Int, UpdateUserBalance(isPurchased, isSpent, amount)
    PROVE  /\ userDoc' \in UserDocuments
           /\ userBalance' \in Int
           /\ ledger' \in Int
           /\ serial' \in BOOLEAN
<1>1. Change(isSpent, amount) \in Int
  BY DEF Change
<1>2. userDoc \in UserDocuments /\ userBalance \in Int /\ ledger \in Int
  BY DEF BalanceTypeOK, FirestoreTypeOK
<1>3. \A n \in Int : [userDoc EXCEPT !.userBalance = n] \in UserDocuments
  BY <1>2 DEF UserDocuments
<1>4. userBalance + Change(isSpent, amount) \in Int /\ ledger + Change(isSpent, amount) \in Int
  BY <1>1, <1>2
<1>5. userDoc' \in UserDocuments /\ ledger' \in Int /\ userBalance' \in Int
  BY <1>2, <1>3, <1>4 DEF UpdateUserBalance, WriteBalance
<1>6. serial' \in BOOLEAN
  BY Zenon DEF UpdateUserBalance, WriteBalance
<1> QED
  BY <1>5, <1>6

\* A change that leaves one block with the library.
LEMMA ChangeTypes ==
    ASSUME BalanceTypeOK, NEW isPurchased \in BOOLEAN, NEW isSpent \in BOOLEAN,
           NEW amount \in Int, UpdateUserBalance(isPurchased, isSpent, amount),
           unacked' = Append(unacked, BalanceAck),
           missed' = missed \ Refetched("balance", BalanceAck),
           UNCHANGED <<purchases, reads, callbacks>>
    PROVE  BalanceTypeOK'
<1>1. unacked' \in Seq(WriteAck)
  BY QueueTypes, BalanceAckType
<1>2. missed' \in SUBSET ReadKinds
  BY DEF BalanceTypeOK
<1> QED
  BY <1>1, <1>2, UpdateTypes DEF BalanceTypeOK, FirestoreTypeOK

\* Every step of the component keeps the types.
LEMMA BalanceTypeStep ==
    ASSUME BalanceTypeOK, [BalanceNext]_allBalanceVars
    PROVE  BalanceTypeOK'
<1>1. ASSUME NEW amount \in Amounts, AddBalance(amount)
      PROVE  BalanceTypeOK'
  BY <1>1, ChangeTypes, UserBalanceAssumption DEF AddBalance
<1>2. ASSUME NEW isSpent \in BOOLEAN, ChargeOrRefund(isSpent)
      PROVE  BalanceTypeOK'
  <2>1. PICK isPurchased \in BOOLEAN : isPurchased = ~isSpent
    OBVIOUS
  <2>2. UpdateUserBalance(isPurchased, isSpent, 1)
    BY <1>2, <2>1 DEF ChargeOrRefund
  <2> QED
    BY <1>2, <2>2, ChangeTypes DEF ChargeOrRefund
<1>3. CASE InitUser
  <2>1. userDoc' \in UserDocuments
    BY <1>3 DEF InitUser, UserDocuments
  <2>2. serial' \in BOOLEAN
    BY <1>3, Zenon DEF InitUser
  <2>3. missed' \in SUBSET ReadKinds
    BY <1>3 DEF InitUser, ReadKinds, BalanceTypeOK
  <2> QED
    BY <1>3, <2>1, <2>2, <2>3 DEF InitUser, BalanceTypeOK, FirestoreTypeOK
<1>4. ASSUME NEW token \in Tokens, UpdateFCMToken(token)
      PROVE  BalanceTypeOK'
  <2>1. userDoc' \in UserDocuments
    BY <1>4 DEF UpdateFCMToken, UserDocuments, BalanceTypeOK, FirestoreTypeOK
  <2> QED
    BY <1>4, <2>1 DEF UpdateFCMToken, balanceVars, BalanceTypeOK, FirestoreTypeOK
<1>5. CASE PublicInit({"balance"})
  <2>1. reads' \in [ReadKinds -> Nat]
    BY <1>5 DEF PublicInit, ReadsOf, BalanceTypeOK, FirestoreTypeOK
  <2> QED
    BY <1>5, <2>1 DEF PublicInit, BalanceTypeOK, FirestoreTypeOK
<1>6. CASE Acknowledge /\ UNCHANGED balanceVars
  BY <1>6, QueueTypes DEF Acknowledge, balanceVars, BalanceTypeOK, FirestoreTypeOK
<1>7. ASSUME NEW kind \in ReadKinds, NEW ok \in BOOLEAN, FinishRead(kind, ok)
      PROVE  FirestoreTypeOK'
  <2>1. reads' \in [ReadKinds -> Nat]
    BY <1>7 DEF FinishRead, BalanceTypeOK, FirestoreTypeOK
  <2>2. callbacks' \in Seq(WriteAck \cup BalanceResult \cup PurchaseResult)
    BY <1>7, QueueTypes, ReadResult DEF FinishRead
  <2> QED
    BY <1>7, <2>1, <2>2 DEF FinishRead, BalanceTypeOK, FirestoreTypeOK
<1>8. CASE FirestoreStep
  <2>1. CASE \E kind \in ReadKinds : FinishRead(kind, TRUE) /\ UNCHANGED balanceVars
    BY <2>1, <1>7 DEF balanceVars, BalanceTypeOK
  <2>2. ASSUME NEW kind \in ReadKinds, FinishRead(kind, FALSE),
               serial' = (serial /\ kind # "balance"), missed' = missed \cup {kind},
               UNCHANGED <<userBalance, ledger>>
        PROVE  BalanceTypeOK'
    <3>1. serial' \in BOOLEAN
      BY <2>2, Zenon
    <3> QED
      BY <2>2, <3>1, <1>7 DEF BalanceTypeOK
  <2> QED
    BY <1>6, <1>8, <2>1, <2>2 DEF FirestoreStep
<1>9. CASE BalanceWritten
  <2>1. reads' \in [ReadKinds -> Nat]
    BY <1>9 DEF BalanceWritten, Refetch, Issue, ReadKinds, BalanceTypeOK, FirestoreTypeOK
  <2> QED
    BY <1>9, <2>1, QueueTypes DEF BalanceWritten, Arrives, balanceVars, BalanceTypeOK, FirestoreTypeOK
<1>10. CASE BalanceFetched
  <2>1. callbacks # <<>> /\ Head(callbacks).of = "balance"
    BY <1>10 DEF BalanceFetched, Arrives
  <2>2. Head(callbacks) \in BalanceResult
    BY <2>1, QueueTypes DEF WriteAck, PurchaseResult
  <2>3. userBalance' \in Int
    BY <1>10, <2>2 DEF BalanceFetched, FetchedBalance, BalanceResult, BalanceTypeOK
  <2> QED
    BY <1>10, <2>3, QueueTypes DEF BalanceFetched, Arrives, BalanceTypeOK, FirestoreTypeOK
<1>11. CASE Relaunch
  <2>1. reads' \in [ReadKinds -> Nat]
    BY <1>11 DEF Relaunch, LoseMemory, ReadsOf
  <2>2. /\ unacked' \in Seq(WriteAck)
        /\ callbacks' \in Seq(WriteAck \cup BalanceResult \cup PurchaseResult)
    BY <1>11, EmptySeq DEF Relaunch, LoseMemory
  <2> QED
    BY <1>11, <2>1, <2>2 DEF Relaunch, LoseMemory, RestartBalance, BalanceTypeOK, FirestoreTypeOK
<1>12. CASE UNCHANGED allBalanceVars
  BY <1>12 DEF allBalanceVars, firestoreVars, balanceVars, BalanceTypeOK, FirestoreTypeOK
<1> QED
  BY <1>1, <1>2, <1>3, <1>4, <1>5, <1>8, <1>9, <1>10, <1>11, <1>12 DEF BalanceNext

\* The component's initial states.
LEMMA BalanceTypeInit ==
    ASSUME BalanceStart
    PROVE  BalanceTypeOK
<1>1. PICK balance \in StoredBalances : userDoc = Stored(balance)
  BY DEF BalanceStart, BalanceInit
<1>2. (balance # Nil) \in BOOLEAN /\ (IF balance = Nil THEN 0 ELSE balance) \in Int
  BY UserBalanceAssumption
<1>3. userDoc \in UserDocuments
  BY <1>1, <1>2 DEF Stored, UserDocuments
<1>4. NoPurchases \in [Orders -> Purchase]
  BY DEF NoPurchases, NoPurchase, Purchase
<1>5. reads \in [ReadKinds -> Nat]
  BY DEF BalanceStart, ReadsOf
<1>6. <<>> \in Seq(WriteAck) /\ <<>> \in Seq(WriteAck \cup BalanceResult \cup PurchaseResult)
  BY EmptySeq
<1>7. ledger \in Int
  BY <1>3 DEF BalanceStart, BalanceInit, UserDocuments
<1> QED
  BY <1>3, <1>4, <1>5, <1>6, <1>7 DEF BalanceStart, BalanceInit, BalanceTypeOK, FirestoreTypeOK

-----------------------------------------------------------------------------
(***************************************************************************)
(* The queues, entry by entry.                                             *)
(***************************************************************************)
LEMMA AppendEntries ==
    ASSUME NEW S, NEW s \in Seq(S), NEW e \in S
    PROVE  /\ DOMAIN Append(s, e) = 1 .. Len(s) + 1 /\ DOMAIN s = 1 .. Len(s) /\ Len(s) \in Nat
           /\ \A i \in DOMAIN s : Append(s, e)[i] = s[i]
           /\ Append(s, e)[Len(s) + 1] = e
BY AppendProperties, LenProperties

LEMMA TailEntries ==
    ASSUME NEW S, NEW s \in Seq(S), s # <<>>
    PROVE  /\ DOMAIN s = 1 .. Len(s) /\ Len(s) \in Nat \ {0} /\ s[1] = Head(s)
           /\ DOMAIN Tail(s) = 1 .. Len(s) - 1
           /\ \A i \in DOMAIN Tail(s) : Tail(s)[i] = s[i + 1]
BY HeadTailProperties, LenProperties

(***************************************************************************)
(* The steps that the balance's invariant has to survive.  First: a change *)
(* of the balance, whose block is among those left with the library.       *)
(***************************************************************************)
LEMMA ChangeKeeps ==
    ASSUME BalanceTypeOK, BalanceInv, NEW isPurchased \in BOOLEAN, NEW isSpent \in BOOLEAN,
           NEW amount \in Int, UpdateUserBalance(isPurchased, isSpent, amount),
           \A i \in DOMAIN unacked' : IsBalanceAck(unacked'[i]) =>
               unacked'[i] = BalanceAck \/ (i \in DOMAIN unacked /\ unacked'[i] = unacked[i]),
           \E i \in DOMAIN unacked' : unacked'[i] = BalanceAck,
           UNCHANGED <<reads, callbacks>>
    PROVE  BalanceInv'
<1>1. /\ BalanceAck.of = "balanceWritten"
      /\ BalanceAck.ok = userDoc.exists
  BY BalanceAckType
<1>2. userDoc' = IF userDoc.exists
                 THEN [userDoc EXCEPT !.userBalance = userBalance + Change(isSpent, amount)]
                 ELSE userDoc
  BY DEF UpdateUserBalance, WriteBalance
<1>3. userDoc \in UserDocuments
  BY DEF BalanceTypeOK, FirestoreTypeOK
<1>4. userDoc'.exists = userDoc.exists
  BY <1>2, <1>3 DEF UserDocuments
<1>5. SerialInv'
  <2> SUFFICES ASSUME serial'
               PROVE  SerialInv'
    BY DEF SerialInv
  <2>1. serial /\ BalanceIdle /\ userDoc.exists
    BY DEF UpdateUserBalance, WriteBalance
  <2>2. userBalance = ledger
    BY <2>1 DEF BalanceInv, SerialInv
  <2>3. userDoc'.userBalance = ledger'
    BY <1>2, <1>3, <2>1, <2>2 DEF UserDocuments, UpdateUserBalance, WriteBalance
  <2>4. ~BalanceIdle'
    BY <1>1 DEF BalanceIdle, IsBalanceAck
  <2>5. \A i \in DOMAIN unacked' : IsBalanceAck(unacked'[i]) => unacked'[i].ok
    BY <1>1, <2>1 DEF BalanceInv, SerialInv
  <2>6. \A i \in DOMAIN callbacks : ~IsBalanceAck(callbacks[i]) /\ ~IsBalanceResult(callbacks[i])
    BY <2>1 DEF BalanceIdle, IsBalanceAck, IsBalanceResult
  <2> QED
    BY <2>3, <2>4, <2>5, <2>6 DEF SerialInv
<1>6. CacheInv'
  <2>1. userDoc.exists => ReadAhead'
    BY <1>1 DEF ReadAhead, IsBalanceAck
  <2> QED
    BY <1>4, <2>1 DEF CacheInv
<1> QED
  BY <1>5, <1>6 DEF BalanceInv

\* initUser.
LEMMA InitUserKeeps ==
    ASSUME BalanceTypeOK, BalanceInv, InitUser
    PROVE  BalanceInv'
<1>1. CacheInv'
  BY DEF InitUser, CacheInv
<1>2. SerialInv'
  <2> SUFFICES ASSUME serial'
               PROVE  SerialInv'
    BY DEF SerialInv
  <2>1. serial /\ BalanceIdle /\ userBalance = 0
    BY DEF InitUser
  <2>2. userDoc'.userBalance = 0 /\ ledger' = 0 /\ userBalance' = 0
    BY <2>1 DEF InitUser
  <2>3. \A i \in DOMAIN callbacks : ~IsBalanceAck(callbacks[i]) /\ ~IsBalanceResult(callbacks[i])
    BY <2>1 DEF BalanceIdle, IsBalanceAck, IsBalanceResult
  <2> QED
    BY <2>1, <2>2, <2>3 DEF InitUser, SerialInv, BalanceInv
<1> QED
  BY <1>1, <1>2 DEF BalanceInv

\* A step that touches nothing of the balance but the token beside it, and may read it again.
LEMMA OtherStepKeeps ==
    ASSUME BalanceTypeOK, BalanceInv, UNCHANGED <<userBalance, ledger, serial, callbacks>>,
           userDoc'.exists = userDoc.exists, userDoc'.userBalance = userDoc.userBalance,
           \A i \in DOMAIN unacked' : IsBalanceAck(unacked'[i]) =>
               i \in DOMAIN unacked /\ unacked'[i] = unacked[i],
           \A i \in DOMAIN unacked : IsBalanceAck(unacked[i]) =>
               i \in DOMAIN unacked' /\ unacked'[i] = unacked[i],
           reads'["balance"] \in Nat,
           \/ reads'["balance"] = reads["balance"] /\ ("balance" \in missed => "balance" \in missed')
           \/ reads'["balance"] > reads["balance"]
    PROVE  BalanceInv'
<1>0. reads["balance"] \in Nat
  BY DEF BalanceTypeOK, FirestoreTypeOK, ReadKinds
<1>1. SerialInv'
  <2>1. BalanceIdle' => BalanceIdle
    BY <1>0 DEF BalanceIdle, IsBalanceAck
  <2> QED
    BY <2>1 DEF BalanceInv, SerialInv
<1>2. CASE reads'["balance"] > reads["balance"]
  <2>1. ReadAhead'
    BY <1>0, <1>2 DEF ReadAhead
  <2> QED
    BY <1>1, <2>1 DEF BalanceInv, CacheInv
<1>3. CASE reads'["balance"] = reads["balance"] /\ ("balance" \in missed => "balance" \in missed')
  <2>1. ReadAhead => ReadAhead'
    BY <1>3 DEF ReadAhead
  <2>2. LastResultFresh => LastResultFresh'
    BY DEF LastResultFresh
  <2>3. CacheFresh => CacheFresh'
    BY DEF CacheFresh
  <2> QED
    BY <1>1, <1>3, <2>1, <2>2, <2>3 DEF BalanceInv, CacheInv
<1> QED
  BY <1>2, <1>3

\* The library hands over the block of the oldest write.
LEMMA AcknowledgeKeeps ==
    ASSUME BalanceTypeOK, BalanceInv, Acknowledge, UNCHANGED balanceVars
    PROVE  BalanceInv'
<1> DEFINE B == WriteAck \cup BalanceResult \cup PurchaseResult
<1>1. /\ unacked # <<>> /\ unacked' = Tail(unacked) /\ unacked \in Seq(WriteAck)
      /\ callbacks' = Append(callbacks, Head(unacked)) /\ callbacks \in Seq(B)
      /\ Head(unacked) \in B
      /\ UNCHANGED <<userDoc, reads, userBalance, ledger, serial, missed>>
  BY QueueTypes DEF Acknowledge, balanceVars
<1> DEFINE n == Len(callbacks)
<1> HIDE DEF B
<1>2. /\ DOMAIN unacked = 1 .. Len(unacked) /\ Len(unacked) \in Nat \ {0}
      /\ unacked[1] = Head(unacked)
      /\ DOMAIN unacked' = 1 .. Len(unacked) - 1
      /\ \A i \in DOMAIN unacked' : unacked'[i] = unacked[i + 1]
  BY <1>1, TailEntries
<1>3. /\ DOMAIN callbacks' = 1 .. n + 1 /\ DOMAIN callbacks = 1 .. n /\ n \in Nat
      /\ \A i \in DOMAIN callbacks : callbacks'[i] = callbacks[i]
      /\ callbacks'[n + 1] = Head(unacked)
  BY <1>1, AppendEntries
<1> HIDE DEF n
<1>4. Head(unacked).of \in {"balanceWritten", "purchaseWritten"}
  BY <1>1, QueueTypes DEF WriteAck
<1>5. ~IsBalanceResult(Head(unacked))
  BY <1>4 DEF IsBalanceResult
<1>6. BalanceIdle' => BalanceIdle
  <2> SUFFICES ASSUME BalanceIdle'
               PROVE  BalanceIdle
    OBVIOUS
  <2>1. ASSUME NEW i \in DOMAIN unacked, i # 1
        PROVE  unacked[i].of # "balanceWritten"
    <3>1. (i - 1) \in DOMAIN unacked' /\ unacked'[i - 1] = unacked[i]
      BY <1>2, <2>1
    <3> QED
      BY <3>1 DEF BalanceIdle
  <2>2. unacked[1].of # "balanceWritten"
    BY <1>2, <1>3 DEF BalanceIdle
  <2>3. \A i \in DOMAIN callbacks : callbacks[i].of \notin {"balance", "balanceWritten"}
    BY <1>3 DEF BalanceIdle
  <2>4. reads["balance"] = 0
    BY <1>1 DEF BalanceIdle
  <2> QED
    BY <2>1, <2>2, <2>3, <2>4 DEF BalanceIdle
<1>7. SerialInv'
  <2> SUFFICES ASSUME serial
               PROVE  SerialInv'
    BY <1>1 DEF SerialInv
  <2>1. \A i \in DOMAIN unacked : IsBalanceAck(unacked[i]) => unacked[i].ok
    BY DEF BalanceInv, SerialInv
  <2>2. \A i \in DOMAIN unacked' : IsBalanceAck(unacked'[i]) => unacked'[i].ok
    BY <1>2, <2>1
  <2>3. \A i \in DOMAIN callbacks' : IsBalanceAck(callbacks'[i]) => callbacks'[i].ok
    BY <1>2, <1>3, <2>1 DEF BalanceInv, SerialInv
  <2>4. userDoc.exists => \A i \in DOMAIN callbacks' : IsBalanceResult(callbacks'[i]) =>
            callbacks'[i].ok /\ callbacks'[i].value = userDoc.userBalance
    BY <1>3, <1>5 DEF BalanceInv, SerialInv
  <2> QED
    BY <1>1, <1>6, <2>2, <2>3, <2>4 DEF BalanceInv, SerialInv
<1>8. CacheInv'
  <2>1. ReadAhead => ReadAhead'
    <3>1. ASSUME NEW i \in DOMAIN unacked, IsBalanceAck(unacked[i]) /\ unacked[i].ok
          PROVE  ReadAhead'
      <4>1. CASE i = 1
        BY <1>2, <1>3, <3>1, <4>1 DEF ReadAhead
      <4>2. CASE i # 1
        <5>1. i - 1 \in DOMAIN unacked' /\ unacked'[i - 1] = unacked[i]
          BY <1>2, <4>2
        <5> QED
          BY <3>1, <5>1 DEF ReadAhead
      <4> QED
        BY <4>1, <4>2
    <3>2. ASSUME NEW i \in DOMAIN callbacks, IsBalanceAck(callbacks[i]) /\ callbacks[i].ok
          PROVE  ReadAhead'
      BY <1>3, <3>2 DEF ReadAhead
    <3> QED
      BY <1>1, <3>1, <3>2 DEF ReadAhead
  <2>2. LastResultFresh => LastResultFresh'
    <3>1. ASSUME NEW i \in DOMAIN callbacks,
                 IsBalanceResult(callbacks[i]), callbacks[i].ok,
                 callbacks[i].value = userDoc.userBalance,
                 \A j \in DOMAIN callbacks : j > i => ~IsBalanceResult(callbacks[j])
          PROVE  LastResultFresh'
      <4>1. i \in DOMAIN callbacks' /\ callbacks'[i] = callbacks[i]
        BY <1>3
      <4>2. \A j \in DOMAIN callbacks' : j > i => ~IsBalanceResult(callbacks'[j])
        BY <1>3, <1>5, <3>1
      <4> QED
        BY <1>1, <3>1, <4>1, <4>2 DEF LastResultFresh
    <3> QED
      BY <3>1 DEF LastResultFresh
  <2>3. CacheFresh => CacheFresh'
    BY <1>1, <1>3, <1>5 DEF CacheFresh
  <2> QED
    BY <1>1, <2>1, <2>2, <2>3 DEF BalanceInv, CacheInv
<1> QED
  BY <1>7, <1>8 DEF BalanceInv

\* A read is performed or fails.
LEMMA ReadKeeps ==
    ASSUME BalanceTypeOK, BalanceInv, NEW kind \in ReadKinds, NEW ok \in BOOLEAN,
           FinishRead(kind, ok), UNCHANGED <<userBalance, ledger>>,
           \/ ok /\ UNCHANGED <<serial, missed>>
           \/ ~ok /\ serial' = (serial /\ kind # "balance") /\ missed' = missed \cup {kind}
    PROVE  BalanceInv'
<1> DEFINE B == WriteAck \cup BalanceResult \cup PurchaseResult
           n == Len(callbacks)
           new == Result(kind, ok)
<1>1. /\ callbacks' = Append(callbacks, new) /\ callbacks \in Seq(B) /\ new \in B
      /\ new.of = kind
      /\ kind = "balance" => new.ok = (ok /\ userDoc.exists) /\ new.value = userDoc.userBalance
      /\ UNCHANGED <<userDoc, unacked>>
  BY QueueTypes, ReadResult DEF FinishRead
<1>2. /\ reads \in [ReadKinds -> Nat] /\ reads[kind] > 0
      /\ reads' = [reads EXCEPT ![kind] = @ - 1]
  BY DEF FinishRead, BalanceTypeOK, FirestoreTypeOK
<1>3. serial' => serial /\ (ok \/ kind # "balance")
  OBVIOUS
<1>4. "balance" \notin missed' => "balance" \notin missed /\ (ok \/ kind # "balance")
  OBVIOUS
<1> HIDE DEF B, new
<1>5. /\ DOMAIN callbacks' = 1 .. n + 1 /\ DOMAIN callbacks = 1 .. n /\ n \in Nat
      /\ \A i \in DOMAIN callbacks : callbacks'[i] = callbacks[i]
      /\ callbacks'[n + 1] = new
  BY <1>1, AppendEntries
<1> HIDE DEF n
<1>6. ~IsBalanceAck(new)
  BY <1>1 DEF IsBalanceAck, ReadKinds
<1>7. kind # "balance" => reads'["balance"] = reads["balance"] /\ ~IsBalanceResult(new)
  BY <1>1, <1>2 DEF ReadKinds, IsBalanceResult
<1>8. CASE kind = "balance"
  <2>1. IsBalanceResult(new)
    BY <1>1, <1>8 DEF IsBalanceResult
  <2>2. SerialInv'
    <3> SUFFICES ASSUME serial'
                 PROVE  SerialInv'
      BY DEF SerialInv
    <3>1. serial /\ ok
      BY <1>3, <1>8
    <3>2. ~BalanceIdle'
      BY <1>1, <1>5, <1>8 DEF BalanceIdle
    <3>3. \A i \in DOMAIN callbacks' : IsBalanceAck(callbacks'[i]) => callbacks'[i].ok
      BY <1>5, <1>6, <3>1 DEF BalanceInv, SerialInv
    <3>4. ASSUME userDoc.exists, NEW i \in DOMAIN callbacks', IsBalanceResult(callbacks'[i])
          PROVE  callbacks'[i].ok /\ callbacks'[i].value = userDoc.userBalance
      <4>1. CASE i = n + 1
        BY <1>1, <1>5, <1>8, <3>1, <3>4, <4>1
      <4>2. CASE i # n + 1
        BY <1>5, <3>1, <3>4, <4>2 DEF BalanceInv, SerialInv
      <4> QED
        BY <4>1, <4>2
    <3> QED
      BY <1>1, <3>1, <3>2, <3>3, <3>4 DEF BalanceInv, SerialInv
  <2>3. CacheInv'
    <3> SUFFICES ASSUME userDoc.exists, "balance" \notin missed'
                 PROVE  LastResultFresh'
      BY <1>1 DEF CacheInv
    <3>1. new.ok /\ new.value = userDoc.userBalance
      BY <1>1, <1>4, <1>8
    <3>2. n + 1 \in DOMAIN callbacks' /\ \A j \in DOMAIN callbacks' : ~(j > n + 1)
      BY <1>5
    <3> QED
      BY <1>1, <1>5, <2>1, <3>1, <3>2 DEF LastResultFresh
  <2> QED
    BY <2>2, <2>3 DEF BalanceInv
<1>9. CASE kind # "balance"
  <2>1. SerialInv'
    <3> SUFFICES ASSUME serial'
                 PROVE  SerialInv'
      BY DEF SerialInv
    <3>1. BalanceIdle' => BalanceIdle
      BY <1>1, <1>5, <1>7, <1>9 DEF BalanceIdle
    <3>2. \A i \in DOMAIN callbacks' : IsBalanceAck(callbacks'[i]) => callbacks'[i].ok
      BY <1>3, <1>5, <1>6 DEF BalanceInv, SerialInv
    <3>3. userDoc.exists => \A i \in DOMAIN callbacks' : IsBalanceResult(callbacks'[i]) =>
              callbacks'[i].ok /\ callbacks'[i].value = userDoc.userBalance
      BY <1>3, <1>5, <1>7, <1>9 DEF BalanceInv, SerialInv
    <3> QED
      BY <1>1, <1>3, <3>1, <3>2, <3>3 DEF BalanceInv, SerialInv
  <2>2. ReadAhead => ReadAhead'
    <3>1. ASSUME NEW i \in DOMAIN callbacks, IsBalanceAck(callbacks[i]) /\ callbacks[i].ok
          PROVE  ReadAhead'
      BY <1>5, <3>1 DEF ReadAhead
    <3> QED
      BY <1>1, <1>7, <1>9, <3>1 DEF ReadAhead
  <2>3. LastResultFresh => LastResultFresh'
    <3>1. ASSUME NEW i \in DOMAIN callbacks,
                 IsBalanceResult(callbacks[i]), callbacks[i].ok,
                 callbacks[i].value = userDoc.userBalance,
                 \A j \in DOMAIN callbacks : j > i => ~IsBalanceResult(callbacks[j])
          PROVE  LastResultFresh'
      <4>1. i \in DOMAIN callbacks' /\ callbacks'[i] = callbacks[i]
        BY <1>5
      <4>2. \A j \in DOMAIN callbacks' : j > i => ~IsBalanceResult(callbacks'[j])
        BY <1>5, <1>7, <1>9, <3>1
      <4> QED
        BY <1>1, <3>1, <4>1, <4>2 DEF LastResultFresh
    <3> QED
      BY <3>1 DEF LastResultFresh
  <2>4. CacheFresh => CacheFresh'
    BY <1>1, <1>5, <1>7, <1>9 DEF CacheFresh
  <2> QED
    BY <1>1, <1>4, <2>1, <2>2, <2>3, <2>4 DEF BalanceInv, CacheInv
<1> QED
  BY <1>8, <1>9

(***************************************************************************)
(* A block leaves the main queue.  The block of a write that succeeded     *)
(* reads the balance again, a result becomes the cache, and the blocks of  *)
(* the purchases change nothing here.                                      *)
(***************************************************************************)
LEMMA BlockKeeps ==
    ASSUME BalanceTypeOK, BalanceInv, callbacks # <<>>, callbacks' = Tail(callbacks),
           UNCHANGED <<userDoc, unacked, ledger, serial, missed>>,
           reads'["balance"] \in Nat, reads'["balance"] >= reads["balance"],
           Head(callbacks).of = "balanceWritten" /\ Head(callbacks).ok
               => reads'["balance"] > reads["balance"],
           userBalance' = IF Head(callbacks).of = "balance" THEN FetchedBalance ELSE userBalance
    PROVE  BalanceInv'
<1> DEFINE B == WriteAck \cup BalanceResult \cup PurchaseResult
           n == Len(callbacks)
<1>0. reads["balance"] \in Nat
  BY DEF BalanceTypeOK, FirestoreTypeOK, ReadKinds
<1>1. callbacks \in Seq(B)
  BY QueueTypes
<1> HIDE DEF B
<1>2. /\ DOMAIN callbacks = 1 .. n /\ n \in Nat \ {0} /\ callbacks[1] = Head(callbacks)
      /\ DOMAIN callbacks' = 1 .. n - 1
      /\ \A i \in DOMAIN callbacks' : callbacks'[i] = callbacks[i + 1]
  BY <1>1, TailEntries
<1> HIDE DEF n
<1>3. \A i \in DOMAIN callbacks' : i + 1 \in DOMAIN callbacks
  BY <1>2
<1>4. \A i \in DOMAIN callbacks : i # 1 => i - 1 \in DOMAIN callbacks' /\ callbacks'[i - 1] = callbacks[i]
  BY <1>2
<1>5. SerialInv'
  <2> SUFFICES ASSUME serial
               PROVE  SerialInv'
    BY DEF SerialInv
  <2>1. \A i \in DOMAIN callbacks' : IsBalanceAck(callbacks'[i]) => callbacks'[i].ok
    BY <1>2, <1>3 DEF BalanceInv, SerialInv
  <2>2. userDoc.exists => \A i \in DOMAIN callbacks' : IsBalanceResult(callbacks'[i]) =>
            callbacks'[i].ok /\ callbacks'[i].value = userDoc.userBalance
    BY <1>2, <1>3 DEF BalanceInv, SerialInv
  <2>3. ASSUME userDoc.exists, BalanceIdle'
        PROVE  userBalance' = userDoc.userBalance
    <3>1. reads["balance"] = 0 /\ reads'["balance"] = 0
      BY <1>0, <2>3 DEF BalanceIdle
    <3>2. 1 \in DOMAIN callbacks /\ callbacks[1].of # "balanceWritten"
      BY <1>2, <3>1 DEF BalanceInv, SerialInv, IsBalanceAck
    <3>3. CASE Head(callbacks).of = "balance"
      <4>1. Head(callbacks).ok /\ Head(callbacks).value = userDoc.userBalance
        BY <1>2, <2>3, <3>2, <3>3 DEF BalanceInv, SerialInv, IsBalanceResult
      <4> QED
        BY <3>3, <4>1 DEF FetchedBalance
    <3>4. CASE Head(callbacks).of # "balance"
      <4>1. ASSUME NEW i \in DOMAIN callbacks
            PROVE  callbacks[i].of \notin {"balance", "balanceWritten"}
        BY <1>2, <1>4, <2>3, <3>2, <3>4 DEF BalanceIdle
      <4>2. BalanceIdle
        BY <2>3, <3>1, <4>1 DEF BalanceIdle
      <4> QED
        BY <2>3, <3>4, <4>2 DEF BalanceInv, SerialInv
    <3> QED
      BY <3>3, <3>4
  <2> QED
    BY <2>1, <2>2, <2>3 DEF BalanceInv, SerialInv
<1>6. CacheInv'
  <2> SUFFICES ASSUME userDoc.exists, "balance" \notin missed
               PROVE  ReadAhead' \/ LastResultFresh' \/ CacheFresh'
    BY DEF CacheInv
  <2>1. CASE ReadAhead
    <3>1. ASSUME NEW i \in DOMAIN callbacks, IsBalanceAck(callbacks[i]) /\ callbacks[i].ok
          PROVE  ReadAhead'
      <4>1. CASE i = 1
        BY <1>0, <1>2, <3>1, <4>1 DEF ReadAhead, IsBalanceAck
      <4>2. CASE i # 1
        BY <1>4, <3>1, <4>2 DEF ReadAhead
      <4> QED
        BY <4>1, <4>2
    <3> QED
      BY <1>0, <2>1, <3>1 DEF ReadAhead
  <2>2. CASE LastResultFresh
    <3>1. PICK i \in DOMAIN callbacks :
                 /\ IsBalanceResult(callbacks[i])
                 /\ callbacks[i].ok /\ callbacks[i].value = userDoc.userBalance
                 /\ \A j \in DOMAIN callbacks : j > i => ~IsBalanceResult(callbacks[j])
      BY <2>2 DEF LastResultFresh
    <3>2. CASE i = 1
      <4>1. userBalance' = userDoc.userBalance
        BY <1>2, <3>1, <3>2 DEF FetchedBalance, IsBalanceResult
      <4>2. \A j \in DOMAIN callbacks' : ~IsBalanceResult(callbacks'[j])
        BY <1>2, <1>3, <3>1, <3>2
      <4> QED
        BY <4>1, <4>2 DEF CacheFresh
    <3>3. CASE i # 1
      <4>1. i - 1 \in DOMAIN callbacks' /\ callbacks'[i - 1] = callbacks[i]
        BY <1>4, <3>3
      <4>2. \A j \in DOMAIN callbacks' : j > i - 1 => ~IsBalanceResult(callbacks'[j])
        BY <1>2, <1>3, <3>1
      <4> QED
        BY <3>1, <4>1, <4>2 DEF LastResultFresh
    <3> QED
      BY <3>2, <3>3
  <2>3. CASE CacheFresh
    <3>1. userBalance' = userBalance
      BY <1>2, <2>3 DEF CacheFresh, IsBalanceResult
    <3>2. \A j \in DOMAIN callbacks' : ~IsBalanceResult(callbacks'[j])
      BY <1>2, <1>3, <2>3 DEF CacheFresh
    <3> QED
      BY <2>3, <3>1, <3>2 DEF CacheFresh
  <2> QED
    BY <2>1, <2>2, <2>3 DEF BalanceInv, CacheInv
<1> QED
  BY <1>5, <1>6 DEF BalanceInv

\* A new process reads the balance at once.
LEMMA RelaunchKeeps ==
    ASSUME BalanceTypeOK, BalanceInv, NEW kinds, "balance" \in kinds, LoseMemory(kinds),
           RestartBalance,
           \/ UNCHANGED <<userDoc, ledger, serial>>
           \/ WriteBalance(TRUE, 0)
    PROVE  BalanceInv'
<1>1. unacked' = <<>> /\ callbacks' = <<>> /\ reads'["balance"] = 1
  BY DEF LoseMemory, RestartBalance, ReadsOf, ReadKinds
<1>2. ReadAhead' /\ ~BalanceIdle'
  BY <1>1 DEF ReadAhead, BalanceIdle
<1>3. serial' /\ userDoc'.exists => userDoc'.userBalance = ledger'
  <2>1. CASE UNCHANGED <<userDoc, ledger, serial>>
    BY <2>1 DEF BalanceInv, SerialInv
  <2>2. CASE WriteBalance(TRUE, 0)
    <3> DEFINE change == Change(TRUE, 0)
    <3>0. change \in Int
      BY DEF Change
    <3>1. serial' => serial /\ BalanceIdle /\ userDoc.exists
      BY <2>2 DEF WriteBalance
    <3>2. serial' => userBalance = ledger
      BY <3>1 DEF BalanceInv, SerialInv
    <3>3. userDoc \in UserDocuments
      BY DEF BalanceTypeOK, FirestoreTypeOK
    <3>4. userDoc.exists => userDoc'.userBalance = userBalance + change
      BY <2>2, <3>3 DEF WriteBalance, UserDocuments
    <3>5. ledger' = ledger + change
      BY <2>2 DEF WriteBalance
    <3> HIDE DEF change
    <3> QED
      BY <3>1, <3>2, <3>4, <3>5
  <2> QED
    BY <2>1, <2>2
<1> QED
  BY <1>1, <1>2, <1>3 DEF BalanceInv, SerialInv, CacheInv

\* A state with empty queues that has just issued the read.
LEMMA BalanceInvStart ==
    ASSUME BalanceInit, reads["balance"] = 1
    PROVE  BalanceInv
<1>1. ReadAhead /\ ~BalanceIdle
  BY DEF ReadAhead, BalanceIdle
<1> QED
  BY <1>1 DEF BalanceInit, BalanceInv, SerialInv, CacheInv

\* What the invariant is for.
LEMMA BalanceInvImplies ==
    ASSUME BalanceInv
    PROVE  SerialUpdatesExact /\ CacheSettles
<1>1. SerialUpdatesExact
  BY DEF BalanceInv, SerialInv, SerialUpdatesExact
<1>2. BalanceIdle => ~ReadAhead /\ ~LastResultFresh
  BY DEF BalanceIdle, ReadAhead, LastResultFresh, IsBalanceAck, IsBalanceResult
<1>3. CacheSettles
  BY <1>2 DEF BalanceInv, CacheInv, CacheFresh, CacheSettles
<1> QED
  BY <1>1, <1>3

-----------------------------------------------------------------------------
\* addBalance, a charge or a refund, which leave one block with the library.
LEMMA OneChangeKeeps ==
    ASSUME BalanceTypeOK, BalanceInv, NEW isPurchased \in BOOLEAN, NEW isSpent \in BOOLEAN,
           NEW amount \in Int, UpdateUserBalance(isPurchased, isSpent, amount),
           unacked' = Append(unacked, BalanceAck), UNCHANGED <<reads, callbacks>>
    PROVE  BalanceInv'
<1>1. unacked \in Seq(WriteAck) /\ BalanceAck \in WriteAck
  BY QueueTypes, BalanceAckType
<1>2. /\ DOMAIN unacked' = 1 .. Len(unacked) + 1 /\ DOMAIN unacked = 1 .. Len(unacked)
      /\ Len(unacked) \in Nat
      /\ \A i \in DOMAIN unacked : unacked'[i] = unacked[i]
      /\ unacked'[Len(unacked) + 1] = BalanceAck
  BY <1>1, AppendEntries
<1>3. /\ \A i \in DOMAIN unacked' : IsBalanceAck(unacked'[i]) =>
            unacked'[i] = BalanceAck \/ (i \in DOMAIN unacked /\ unacked'[i] = unacked[i])
      /\ \E i \in DOMAIN unacked' : unacked'[i] = BalanceAck
  BY <1>2
<1> QED
  BY <1>3, ChangeKeeps

\* What the library and the balance's own blocks do.
LEMMA LibraryKeeps ==
    ASSUME BalanceTypeOK, BalanceInv, FirestoreStep \/ BalanceWritten \/ BalanceFetched
    PROVE  BalanceInv'
<1>1. CASE FirestoreStep
  <2>1. CASE Acknowledge /\ UNCHANGED balanceVars
    BY <2>1, AcknowledgeKeeps
  <2>2. CASE \E kind \in ReadKinds : FinishRead(kind, TRUE) /\ UNCHANGED balanceVars
    BY <2>2, ReadKeeps DEF balanceVars
  <2>3. CASE \E kind \in ReadKinds :
                /\ FinishRead(kind, FALSE)
                /\ serial' = (serial /\ kind # "balance")
                /\ missed' = missed \cup {kind}
                /\ UNCHANGED <<userBalance, ledger>>
    BY <2>3, ReadKeeps
  <2> QED
    BY <1>1, <2>1, <2>2, <2>3 DEF FirestoreStep
<1>2. reads["balance"] \in Nat /\ reads \in [ReadKinds -> Nat]
  BY DEF BalanceTypeOK, FirestoreTypeOK, ReadKinds
<1>3. CASE BalanceWritten
  <2>1. reads'["balance"] = IF Head(callbacks).ok THEN reads["balance"] + 1 ELSE reads["balance"]
    BY <1>2, <1>3 DEF BalanceWritten, Refetch, Issue, ReadKinds
  <2>2. /\ callbacks # <<>> /\ callbacks' = Tail(callbacks)
        /\ Head(callbacks).of = "balanceWritten"
        /\ UNCHANGED <<userDoc, unacked, userBalance, ledger, serial, missed>>
    BY <1>3 DEF BalanceWritten, Arrives, balanceVars
  <2> QED
    BY <1>2, <2>1, <2>2, BlockKeeps
<1>4. CASE BalanceFetched
  <2>1. /\ callbacks # <<>> /\ callbacks' = Tail(callbacks)
        /\ Head(callbacks).of = "balance"
        /\ userBalance' = FetchedBalance
        /\ UNCHANGED <<userDoc, unacked, reads, ledger, serial, missed>>
    BY <1>4 DEF BalanceFetched, Arrives
  <2> QED
    BY <1>2, <2>1, BlockKeeps
<1> QED
  BY <1>1, <1>3, <1>4

\* What else the host may call.
LEMMA HostKeeps ==
    ASSUME BalanceTypeOK, BalanceInv, NEW kinds, "balance" \in kinds,
           \/ \E amount \in Amounts : AddBalance(amount)
           \/ InitUser
           \/ \E token \in Tokens : UpdateFCMToken(token)
           \/ PublicInit(kinds)
    PROVE  BalanceInv'
<1>1. ASSUME NEW amount \in Amounts, AddBalance(amount)
      PROVE  BalanceInv'
  BY <1>1, OneChangeKeeps, UserBalanceAssumption DEF AddBalance
<1>2. CASE InitUser
  BY <1>2, InitUserKeeps
<1>3. reads["balance"] \in Nat /\ userDoc \in UserDocuments
  BY DEF BalanceTypeOK, FirestoreTypeOK, ReadKinds
<1>4. ASSUME NEW token \in Tokens, UpdateFCMToken(token)
      PROVE  BalanceInv'
  <2>1. userDoc'.exists = userDoc.exists /\ userDoc'.userBalance = userDoc.userBalance
    BY <1>3, <1>4 DEF UpdateFCMToken, UserDocuments
  <2> QED
    BY <1>3, <1>4, <2>1, OtherStepKeeps DEF UpdateFCMToken, balanceVars
<1>5. CASE PublicInit(kinds)
  <2>1. reads'["balance"] = reads["balance"] + 1
    BY <1>5 DEF PublicInit, ReadsOf, ReadKinds
  <2> QED
    BY <1>3, <1>5, <2>1, OtherStepKeeps DEF PublicInit
<1> QED
  BY <1>1, <1>2, <1>4, <1>5

LEMMA BalanceInvStep ==
    ASSUME BalanceTypeOK, BalanceInv, [BalanceNext]_allBalanceVars
    PROVE  BalanceInv'
<1>1. ASSUME NEW isSpent \in BOOLEAN, ChargeOrRefund(isSpent)
      PROVE  BalanceInv'
  <2>1. PICK isPurchased \in BOOLEAN : isPurchased = ~isSpent
    OBVIOUS
  <2>2. UpdateUserBalance(isPurchased, isSpent, 1)
    BY <1>1, <2>1 DEF ChargeOrRefund
  <2> QED
    BY <1>1, <2>2, OneChangeKeeps DEF ChargeOrRefund
<1>2. CASE Relaunch
  BY <1>2, RelaunchKeeps DEF Relaunch
<1>3. CASE UNCHANGED allBalanceVars
  <2>1. UNCHANGED <<userDoc, unacked, reads, callbacks, userBalance, ledger, serial, missed>>
    BY <1>3 DEF allBalanceVars, firestoreVars, balanceVars
  <2> QED
    BY <2>1, OtherStepKeeps DEF BalanceTypeOK, FirestoreTypeOK, ReadKinds
<1> QED
  BY <1>1, <1>2, <1>3, HostKeeps, LibraryKeeps DEF BalanceNext

(***************************************************************************)
(* The balance, the documents and the blocks on their way keep their types *)
(* (Constant.userBalance is never nil).                                    *)
(***************************************************************************)
THEOREM BalanceTyped == BalanceSpec => []BalanceTypeOK
<1>1. BalanceStart => BalanceTypeOK
  BY BalanceTypeInit
<1>2. BalanceTypeOK /\ [BalanceNext]_allBalanceVars => BalanceTypeOK'
  BY BalanceTypeStep
<1> QED
  BY <1>1, <1>2, PTL DEF BalanceSpec

\* What every block on its way brings, in every reachable state.
LEMMA BalanceInvariance == BalanceSpec => []BalanceInv
<1>1. BalanceStart => BalanceInv
  BY BalanceInvStart DEF BalanceStart, ReadsOf, ReadKinds
<1>2. BalanceTypeOK /\ BalanceInv /\ [BalanceNext]_allBalanceVars => BalanceInv'
  BY BalanceInvStep
<1> QED
  BY <1>1, <1>2, BalanceTyped, PTL DEF BalanceSpec

(***************************************************************************)
(* Serial changes are exact: updateUserBalance, which computes the new     *)
(* balance from the cache, loses no change and counts none twice, for any  *)
(* amounts and any number of changes and restarts.                         *)
(***************************************************************************)
THEOREM SerialExact == BalanceSpec => []SerialUpdatesExact
<1>1. BalanceInv => SerialUpdatesExact
  BY BalanceInvImplies
<1> QED
  BY <1>1, BalanceInvariance, PTL

(***************************************************************************)
(* The cache settles: however many changes, fetches and answers overlap,   *)
(* fetchUserBalance leaves the stored balance in Constant.userBalance when *)
(* the last block has run.                                                 *)
(***************************************************************************)
THEOREM CacheConverges == BalanceSpec => []CacheSettles
<1>1. BalanceInv => CacheSettles
  BY BalanceInvImplies
<1> QED
  BY <1>1, BalanceInvariance, PTL

=============================================================================
