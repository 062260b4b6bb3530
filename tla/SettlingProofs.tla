---------------------------- MODULE SettlingProofs -----------------------------
(***************************************************************************)
(* What AuthManager shows ends up being what is stored, with the orders,   *)
(* closures and timers of Activation around it, for every instance: the    *)
(* balance (by the lemmas of UserBalanceProofs) and the list of purchases. *)
(***************************************************************************)
EXTENDS ActivationProofs, UserBalanceProofs

-----------------------------------------------------------------------------
(***************************************************************************)
(* The balance.  Each step of Activation is one that UserBalanceProofs has *)
(* a lemma for.                                                            *)
(***************************************************************************)
\* Two blocks are left with the library at once.
LEMMA TwoEntries ==
    ASSUME NEW S, NEW s \in Seq(S), NEW a \in S, NEW b \in S
    PROVE  /\ DOMAIN (s \o <<a, b>>) = 1 .. Len(s) + 2 /\ DOMAIN s = 1 .. Len(s)
           /\ Len(s) \in Nat
           /\ \A i \in DOMAIN s : (s \o <<a, b>>)[i] = s[i]
           /\ (s \o <<a, b>>)[Len(s) + 1] = a /\ (s \o <<a, b>>)[Len(s) + 2] = b
<1>1. <<a, b>> \in Seq(S) /\ Len(<<a, b>>) = 2 /\ <<a, b>>[1] = a /\ <<a, b>>[2] = b
  OBVIOUS
<1> QED
  BY <1>1, ConcatProperties, LenProperties

LEMMA TypedBlocks ==
    ASSUME TypeOK
    PROVE  /\ BalanceTypeOK
           /\ unacked \in Seq(WriteAck)
           /\ BalanceAck \in WriteAck /\ BalanceAck.of = "balanceWritten"
           /\ Ack("purchaseWritten", TRUE) \in WriteAck
           /\ \A o \in Orders : PurchaseAck(o) \in WriteAck /\ PurchaseAck(o).of = "purchaseWritten"
<1>1. BalanceTypeOK
  BY DEF TypeOK
<1>2. \A o \in Orders : PurchaseAck(o).of = "purchaseWritten"
  BY DEF PurchaseAck, Ack
<1> QED
  BY <1>1, <1>2, QueueTypes, BalanceAckType, BlocksType

\* The purchase of a number and a cancellation change the balance.
LEMMA OrderChangesBalance ==
    ASSUME TypeOK, RequestsNamed, BalanceInv, NEW r \in Requests,
           NumberBought(r) \/ OrderCancelled(r)
    PROVE  BalanceInv'
<1> DEFINE o == http[r].order
<1>1. o \in Orders
  BY DEF NumberBought, OrderCancelled, Answered, RequestsNamed
<1>2. PICK a \in WriteAck, b \in WriteAck :
            /\ unacked' = unacked \o <<a, b>>
            /\ \/ a = BalanceAck /\ b.of = "purchaseWritten"
               \/ b = BalanceAck /\ a.of = "purchaseWritten"
  <2>1. CASE NumberBought(r)
    <3>1. /\ unacked' = unacked \o <<BalanceAck, Ack("purchaseWritten", TRUE)>>
          /\ Ack("purchaseWritten", TRUE).of = "purchaseWritten"
      BY <2>1 DEF NumberBought, Ack
    <3> QED
      BY <3>1, TypedBlocks
  <2>2. CASE OrderCancelled(r)
    <3>1. unacked' = unacked \o <<PurchaseAck(o), BalanceAck>>
      BY <2>2 DEF OrderCancelled
    <3> QED
      BY <1>1, <3>1, TypedBlocks
  <2> QED
    BY <2>1, <2>2
<1>3. /\ DOMAIN unacked' = 1 .. Len(unacked) + 2 /\ DOMAIN unacked = 1 .. Len(unacked)
      /\ Len(unacked) \in Nat
      /\ \A i \in DOMAIN unacked : unacked'[i] = unacked[i]
      /\ unacked'[Len(unacked) + 1] = a /\ unacked'[Len(unacked) + 2] = b
  BY <1>2, TypedBlocks, TwoEntries
<1>4. \A i \in DOMAIN unacked' : IsBalanceAck(unacked'[i]) =>
          unacked'[i] = BalanceAck \/ (i \in DOMAIN unacked /\ unacked'[i] = unacked[i])
  BY <1>2, <1>3 DEF IsBalanceAck
<1>5. \E i \in DOMAIN unacked' : unacked'[i] = BalanceAck
  <2>1. Len(unacked) + 1 \in DOMAIN unacked' /\ Len(unacked) + 2 \in DOMAIN unacked'
    BY <1>3
  <2>2. a = BalanceAck \/ b = BalanceAck
    BY <1>2
  <2> QED
    BY <1>3, <2>1, <2>2
<1>6. UNCHANGED <<reads, callbacks>>
  BY DEF NumberBought, OrderCancelled
<1>7. PICK isPurchased \in BOOLEAN, isSpent \in BOOLEAN, amount \in Int :
          UpdateUserBalance(isPurchased, isSpent, amount)
  <2>1. CASE NumberBought(r)
    <3>1. UpdateUserBalance(FALSE, TRUE, 0)
      BY <2>1 DEF NumberBought
    <3> WITNESS FALSE \in BOOLEAN, TRUE \in BOOLEAN, 0 \in Int
    <3> QED
      BY <3>1
  <2>2. CASE OrderCancelled(r)
    <3>1. UpdateUserBalance(TRUE, FALSE, 1)
      BY <2>2 DEF OrderCancelled
    <3> WITNESS TRUE \in BOOLEAN, FALSE \in BOOLEAN, 1 \in Int
    <3> QED
      BY <3>1
  <2> QED
    BY <2>1, <2>2
<1> QED
  BY <1>4, <1>5, <1>6, <1>7, ChangeKeeps, TypedBlocks

\* A finished order leaves the block of its record with the library.
LEMMA FinishKeepsBalance ==
    ASSUME TypeOK, RequestsNamed, BalanceInv, NEW r \in Requests, OrderFinished(r)
    PROVE  BalanceInv'
<1> DEFINE o == http[r].order
<1>1. o \in Orders
  BY DEF OrderFinished, Answered, RequestsNamed
<1>2. /\ UNCHANGED <<userDoc, reads, callbacks, userBalance, ledger, serial>>
      /\ reads["balance"] \in Nat
  BY DEF OrderFinished, TypeOK, BalanceTypeOK, FirestoreTypeOK, ReadKinds
<1>3. CASE UNCHANGED <<unacked, missed>>
  BY <1>2, <1>3, OtherStepKeeps, TypedBlocks
<1>4. CASE /\ unacked' = Append(unacked, PurchaseAck(o))
           /\ missed' = missed \ Refetched("purchases", PurchaseAck(o))
  <2>1. /\ DOMAIN unacked' = 1 .. Len(unacked) + 1 /\ DOMAIN unacked = 1 .. Len(unacked)
        /\ Len(unacked) \in Nat
        /\ \A i \in DOMAIN unacked : unacked'[i] = unacked[i]
        /\ unacked'[Len(unacked) + 1] = PurchaseAck(o)
    BY <1>1, <1>4, TypedBlocks, AppendEntries
  <2>2. ~IsBalanceAck(PurchaseAck(o))
    BY <1>1, TypedBlocks DEF IsBalanceAck
  <2>3. \A i \in DOMAIN unacked' : IsBalanceAck(unacked'[i]) =>
            i \in DOMAIN unacked /\ unacked'[i] = unacked[i]
    BY <2>1, <2>2
  <2>4. \A i \in DOMAIN unacked : i \in DOMAIN unacked' /\ unacked'[i] = unacked[i]
    BY <2>1
  <2>5. "balance" \in missed => "balance" \in missed'
    BY <1>4 DEF Refetched
  <2> QED
    BY <1>2, <2>3, <2>4, <2>5, OtherStepKeeps, TypedBlocks
<1> QED
  BY <1>3, <1>4 DEF OrderFinished

\* Every step of Activation keeps the balance's invariant.
LEMMA BalanceInvNext ==
    ASSUME TypeOK, RequestsNamed, BalanceInv, [Next]_vars
    PROVE  BalanceInv'
<1>1. reads \in [ReadKinds -> Nat] /\ reads["balance"] \in Nat
  BY DEF TypeOK, BalanceTypeOK, FirestoreTypeOK, ReadKinds
<1>2. ASSUME UNCHANGED <<firestoreVars, balanceVars>>
      PROVE  BalanceInv'
  <2>1. UNCHANGED <<userDoc, unacked, reads, callbacks, userBalance, ledger, serial, missed>>
    BY <1>2 DEF firestoreVars, balanceVars
  <2> QED
    BY <1>1, <2>1, OtherStepKeeps, TypedBlocks
<1>3. CASE HostCall
  <2>1. CASE Select
    BY <1>2, <2>1 DEF Select
  <2>2. CASE \E r \in Requests : StartActivation(r) \/ CancelOrderByUser(r)
    BY <1>2, <2>2 DEF StartActivation, CancelOrderByUser
  <2>3. CASE \/ \E amount \in Amounts : AddBalance(amount)
             \/ InitUser
             \/ \E token \in Tokens : UpdateFCMToken(token)
             \/ PublicInit(ReadKinds)
    BY <2>3, HostKeeps, TypedBlocks DEF ReadKinds
  <2> QED
    BY <1>3, <2>1, <2>2, <2>3 DEF HostCall
<1>4. ASSUME NEW r \in Requests, Tick(r) \/ Answer(r)
      PROVE  BalanceInv'
  <2>1. CASE Tick(r) \/ NumberTraps(r) \/ NumberRefused(r) \/ StatusReceived(r) \/ CancelRefused(r)
    BY <1>2, <2>1 DEF Tick, NumberTraps, NumberRefused, StatusReceived, CancelRefused
  <2> QED
    BY <1>4, <2>1, OrderChangesBalance, FinishKeepsBalance DEF Answer
<1>5. CASE Block
  <2>1. CASE PurchaseWritten
    <3>1. reads'["balance"] = reads["balance"]
      BY <1>1, <2>1 DEF PurchaseWritten, Refetch, Issue, ReadKinds
    <3>2. /\ callbacks # <<>> /\ callbacks' = Tail(callbacks)
          /\ Head(callbacks).of = "purchaseWritten"
          /\ UNCHANGED <<userDoc, unacked, userBalance, ledger, serial, missed>>
      BY <2>1 DEF PurchaseWritten, Arrives, balanceVars
    <3> QED
      BY <1>1, <3>1, <3>2, BlockKeeps, TypedBlocks
  <2>2. CASE PurchasesFetched
    <3>1. /\ callbacks # <<>> /\ callbacks' = Tail(callbacks)
          /\ Head(callbacks).of = "purchases"
          /\ UNCHANGED <<userDoc, unacked, reads, userBalance, ledger, serial, missed>>
      BY <2>2 DEF PurchasesFetched, Arrives, balanceVars
    <3> QED
      BY <1>1, <3>1, BlockKeeps, TypedBlocks
  <2> QED
    BY <1>5, <2>1, <2>2, LibraryKeeps, TypedBlocks DEF Block
<1>6. CASE FirestoreStep
  BY <1>6, LibraryKeeps, TypedBlocks
<1>7. CASE ProviderStep /\ UNCHANGED <<firestoreVars, balanceVars, activationVars>>
  BY <1>2, <1>7
<1>8. CASE Restart
  BY <1>8, RelaunchKeeps, TypedBlocks DEF Restart, LaunchAgain, ReadKinds
<1>9. CASE UNCHANGED vars
  BY <1>2, <1>9 DEF vars
<1>10. ASSUME NEW r \in Requests, Killed(r)
       PROVE  BalanceInv'
  <2>1. /\ LoseMemory(ReadKinds) /\ RestartBalance /\ "balance" \in ReadKinds
    BY <1>10 DEF Killed, KilledAfterCharge, KilledAfterClose, LaunchAgain, ReadKinds
  <2>2. WriteBalance(TRUE, 0) \/ UNCHANGED <<userDoc, ledger, serial>>
    BY <1>10 DEF Killed, KilledAfterCharge, KilledAfterClose
  <2> QED
    BY <2>1, <2>2, RelaunchKeeps, TypedBlocks
<1> QED
  BY <1>3, <1>4, <1>5, <1>6, <1>7, <1>8, <1>9, <1>10 DEF Next

-----------------------------------------------------------------------------
(***************************************************************************)
(* The list of purchases.  fetchNumberPurchases ignores an empty answer,   *)
(* so the argument differs from the balance's while nothing is recorded.   *)
(***************************************************************************)
IsListAck(block) == block.of = "purchaseWritten"

IsListResult(block) == block.of = "purchases"

NothingRecorded == \A o \in Orders : purchases[o].status = "none"

EmptyShown ==
    NothingRecorded =>
        /\ purchases = NoPurchases /\ userNumbers = NoPurchases
        /\ \A i \in DOMAIN callbacks : IsListResult(callbacks[i]) => ~callbacks[i].ok

ListReadAhead ==
    \/ reads["purchases"] > 0
    \/ \E i \in DOMAIN unacked : IsListAck(unacked[i]) /\ unacked[i].ok
    \/ \E i \in DOMAIN callbacks : IsListAck(callbacks[i]) /\ callbacks[i].ok

LastListFresh ==
    \E i \in DOMAIN callbacks :
        /\ IsListResult(callbacks[i])
        /\ callbacks[i].ok /\ callbacks[i].docs = purchases
        /\ \A j \in DOMAIN callbacks : j > i => ~IsListResult(callbacks[j])

ListFresh ==
    /\ \A i \in DOMAIN callbacks : ~IsListResult(callbacks[i])
    /\ userNumbers = purchases

ListInv ==
    /\ EmptyShown
    /\ "purchases" \notin missed =>
          NothingRecorded \/ ListReadAhead \/ LastListFresh \/ ListFresh

\* A step that leaves the collection, the list and the main queue alone.
LEMMA ListFrame ==
    ASSUME ListInv, UNCHANGED <<purchases, userNumbers, callbacks>>,
           \A i \in DOMAIN unacked : IsListAck(unacked[i]) =>
               i \in DOMAIN unacked' /\ unacked'[i] = unacked[i],
           reads["purchases"] \in Nat, reads'["purchases"] \in Nat,
           \/ reads'["purchases"] = reads["purchases"]
              /\ ("purchases" \in missed => "purchases" \in missed')
           \/ reads'["purchases"] > reads["purchases"]
    PROVE  ListInv'
<1>1. EmptyShown'
  BY DEF ListInv, EmptyShown, NothingRecorded
<1>2. CASE reads'["purchases"] > reads["purchases"]
  <2>1. ListReadAhead'
    BY <1>2 DEF ListReadAhead
  <2> QED
    BY <1>1, <2>1 DEF ListInv
<1>3. CASE /\ reads'["purchases"] = reads["purchases"]
           /\ "purchases" \in missed => "purchases" \in missed'
  <2>1. ListReadAhead => ListReadAhead'
    BY <1>3 DEF ListReadAhead
  <2>2. /\ NothingRecorded => NothingRecorded'
        /\ LastListFresh => LastListFresh'
        /\ ListFresh => ListFresh'
    BY DEF NothingRecorded, LastListFresh, ListFresh
  <2> QED
    BY <1>1, <1>3, <2>1, <2>2 DEF ListInv
<1> QED
  BY <1>2, <1>3

\* A record that is created or changed: its block is going to fetch the list.
LEMMA ListChanged ==
    ASSUME NEW o \in Orders, purchases'[o].status # "none",
           \E i \in DOMAIN unacked' : IsListAck(unacked'[i]) /\ unacked'[i].ok
    PROVE  ListInv'
<1>1. ListReadAhead' /\ ~NothingRecorded'
  BY DEF ListReadAhead, NothingRecorded
<1> QED
  BY <1>1 DEF ListInv, EmptyShown

\* The closures of an order.
LEMMA ListClosures ==
    ASSUME TypeOK, RequestsNamed, ListInv, NEW r \in Requests,
           NumberBought(r) \/ OrderFinished(r) \/ OrderCancelled(r)
    PROVE  ListInv'
<1> DEFINE o == http[r].order
<1>1. purchases \in [Orders -> Purchase] /\ reads["purchases"] \in Nat
  BY DEF TypeOK, BalanceTypeOK, FirestoreTypeOK, ReadKinds
<1>2. CASE NumberBought(r)
  <2>1. o \in Orders
    BY <1>2 DEF NumberBought, Answered, RequestsNamed
  <2>2. purchases'[o].status # "none"
    BY <1>1, <1>2, <2>1 DEF NumberBought, InitNumberPurchase, CreateDic
  <2>3. PICK b \in WriteAck : unacked' = unacked \o <<BalanceAck, b>> /\ IsListAck(b) /\ b.ok
    <3>1. unacked' = unacked \o <<BalanceAck, Ack("purchaseWritten", TRUE)>>
      BY <1>2 DEF NumberBought
    <3>2. IsListAck(Ack("purchaseWritten", TRUE)) /\ Ack("purchaseWritten", TRUE).ok
      BY DEF Ack, IsListAck
    <3> QED
      BY <3>1, <3>2, TypedBlocks
  <2>4. /\ DOMAIN unacked' = 1 .. Len(unacked) + 2 /\ Len(unacked) \in Nat
        /\ unacked'[Len(unacked) + 2] = b
    BY <2>3, TypedBlocks, TwoEntries
  <2>5. Len(unacked) + 2 \in DOMAIN unacked'
    BY <2>4
  <2> QED
    BY <2>1, <2>2, <2>3, <2>4, <2>5, ListChanged
<1>3. CASE OrderFinished(r) \/ OrderCancelled(r)
  <2>1. o \in Orders
    BY <1>3 DEF OrderFinished, OrderCancelled, Answered, RequestsNamed
  <2>2. UNCHANGED <<userNumbers, reads, callbacks>>
    BY <1>3 DEF OrderFinished, OrderCancelled
  <2>3. CASE UNCHANGED <<purchases, unacked, missed>>
    BY <1>1, <2>2, <2>3, ListFrame
  <2>4. ASSUME ~UNCHANGED <<purchases, unacked, missed>>
        PROVE  \E dic : UpdateNumberPurchase(o, dic) /\ dic.status # "none"
    <3>1. /\ GetDicForFinish(purchases[o], http[r].code).status = "6"
          /\ GetDicForCancel(purchases[o]).status = "8"
      BY <1>1, <2>1 DEF GetDicForFinish, GetDicForCancel, Purchase
    <3>2. CASE OrderFinished(r)
      <4>1. UpdateNumberPurchase(o, GetDicForFinish(purchases[o], http[r].code))
        BY <2>4, <3>2 DEF OrderFinished
      <4> QED
        BY <3>1, <4>1
    <3>3. CASE OrderCancelled(r)
      <4>1. UpdateNumberPurchase(o, GetDicForCancel(purchases[o]))
        BY <3>3 DEF OrderCancelled
      <4> QED
        BY <3>1, <4>1
    <3> QED
      BY <1>3, <3>2, <3>3
  <2>5. ASSUME ~UNCHANGED <<purchases, unacked, missed>>
        PROVE  /\ \E i \in DOMAIN unacked' : unacked'[i] = PurchaseAck(o)
               /\ \A i \in DOMAIN unacked : i \in DOMAIN unacked' /\ unacked'[i] = unacked[i]
               /\ PurchaseAck(o).ok = FALSE => ("purchases" \in missed => "purchases" \in missed')
    <3>1. CASE OrderFinished(r)
      <4>1. /\ unacked' = Append(unacked, PurchaseAck(o))
            /\ missed' = missed \ Refetched("purchases", PurchaseAck(o))
        BY <2>5, <3>1 DEF OrderFinished
      <4>2. /\ DOMAIN unacked' = 1 .. Len(unacked) + 1 /\ DOMAIN unacked = 1 .. Len(unacked)
            /\ Len(unacked) \in Nat
            /\ \A i \in DOMAIN unacked : unacked'[i] = unacked[i]
            /\ unacked'[Len(unacked) + 1] = PurchaseAck(o)
        BY <2>1, <4>1, TypedBlocks, AppendEntries
      <4> QED
        BY <4>1, <4>2 DEF Refetched
    <3>2. CASE OrderCancelled(r)
      <4>1. /\ unacked' = unacked \o <<PurchaseAck(o), BalanceAck>>
            /\ missed' = missed \ (Refetched("balance", BalanceAck)
                                     \cup Refetched("purchases", PurchaseAck(o)))
        BY <3>2 DEF OrderCancelled
      <4>2. /\ DOMAIN unacked' = 1 .. Len(unacked) + 2 /\ DOMAIN unacked = 1 .. Len(unacked)
            /\ Len(unacked) \in Nat
            /\ \A i \in DOMAIN unacked : unacked'[i] = unacked[i]
            /\ unacked'[Len(unacked) + 1] = PurchaseAck(o)
        <5>1. unacked \in Seq(WriteAck) /\ PurchaseAck(o) \in WriteAck /\ BalanceAck \in WriteAck
          BY <2>1, TypedBlocks
        <5> QED
          BY <4>1, <5>1, TwoEntries
      <4>3. /\ Len(unacked) + 1 \in DOMAIN unacked'
            /\ \A i \in DOMAIN unacked : i \in DOMAIN unacked' /\ unacked'[i] = unacked[i]
        <5> DEFINE n == Len(unacked)
        <5>1. n \in Nat /\ DOMAIN unacked = 1 .. n /\ DOMAIN unacked' = 1 .. n + 2
          BY <4>2
        <5> HIDE DEF n
        <5>2. n + 1 \in DOMAIN unacked' /\ \A i \in DOMAIN unacked : i \in DOMAIN unacked'
          BY <5>1
        <5> QED
          BY <4>2, <5>2, Zenon DEF n
      <4>4. PurchaseAck(o).ok = FALSE => ("purchases" \in missed => "purchases" \in missed')
        BY <4>1 DEF Refetched
      <4> QED
        BY <4>2, <4>3, <4>4, Zenon
    <3> QED
      BY <1>3, <3>1, <3>2
  <2>6. CASE ~UNCHANGED <<purchases, unacked, missed>>
    <3>1. PICK dic : UpdateNumberPurchase(o, dic) /\ dic.status # "none"
      BY <2>4, <2>6
    <3>2. CASE purchases[o].status = "none"
      <4>1. UNCHANGED purchases /\ PurchaseAck(o).ok = FALSE
        BY <3>1, <3>2 DEF UpdateNumberPurchase, PurchaseAck, Ack
      <4> QED
        BY <1>1, <2>2, <2>5, <2>6, <4>1, ListFrame
    <3>3. CASE purchases[o].status # "none"
      <4>1. purchases'[o].status # "none" /\ PurchaseAck(o).ok = TRUE
        BY <1>1, <2>1, <3>1, <3>3 DEF UpdateNumberPurchase, PurchaseAck, Ack
      <4> QED
        BY <2>1, <2>5, <2>6, <4>1, ListChanged, TypedBlocks DEF IsListAck
    <3> QED
      BY <3>2, <3>3
  <2> QED
    BY <2>3, <2>6
<1> QED
  BY <1>2, <1>3

\* The library hands over the block of the oldest write.
LEMMA ListAcknowledge ==
    ASSUME TypeOK, ListInv, Acknowledge, UNCHANGED <<balanceVars, activationVars>>
    PROVE  ListInv'
<1> DEFINE B == WriteAck \cup BalanceResult \cup PurchaseResult
           n == Len(callbacks)
<1>1. /\ unacked # <<>> /\ unacked' = Tail(unacked) /\ unacked \in Seq(WriteAck)
      /\ callbacks' = Append(callbacks, Head(unacked)) /\ callbacks \in Seq(B)
      /\ Head(unacked) \in B
      /\ UNCHANGED <<purchases, reads, userNumbers, missed>>
  BY QueueTypes, TypedBlocks DEF Acknowledge, balanceVars, activationVars
<1>2. Head(unacked).of \in {"balanceWritten", "purchaseWritten"}
  BY <1>1, QueueTypes, TypedBlocks DEF WriteAck
<1>3. ~IsListResult(Head(unacked))
  BY <1>2 DEF IsListResult
<1> HIDE DEF B
<1>4. /\ DOMAIN unacked = 1 .. Len(unacked) /\ Len(unacked) \in Nat \ {0}
      /\ unacked[1] = Head(unacked)
      /\ DOMAIN unacked' = 1 .. Len(unacked) - 1
      /\ \A i \in DOMAIN unacked' : unacked'[i] = unacked[i + 1]
  BY <1>1, TailEntries
<1>5. /\ DOMAIN callbacks' = 1 .. n + 1 /\ DOMAIN callbacks = 1 .. n /\ n \in Nat
      /\ \A i \in DOMAIN callbacks : callbacks'[i] = callbacks[i]
      /\ callbacks'[n + 1] = Head(unacked)
  BY <1>1, AppendEntries
<1> HIDE DEF n
<1>6. EmptyShown'
  BY <1>1, <1>3, <1>5 DEF ListInv, EmptyShown, NothingRecorded
<1>7. ListReadAhead => ListReadAhead'
  <2>1. ASSUME NEW i \in DOMAIN unacked, IsListAck(unacked[i]) /\ unacked[i].ok
        PROVE  ListReadAhead'
    <3>1. CASE i = 1
      BY <1>4, <1>5, <2>1, <3>1 DEF ListReadAhead
    <3>2. CASE i # 1
      <4>1. i - 1 \in DOMAIN unacked' /\ unacked'[i - 1] = unacked[i]
        BY <1>4, <3>2
      <4> QED
        BY <2>1, <4>1 DEF ListReadAhead
    <3> QED
      BY <3>1, <3>2
  <2>2. ASSUME NEW i \in DOMAIN callbacks, IsListAck(callbacks[i]) /\ callbacks[i].ok
        PROVE  ListReadAhead'
    BY <1>5, <2>2 DEF ListReadAhead
  <2> QED
    BY <1>1, <2>1, <2>2 DEF ListReadAhead
<1>8. LastListFresh => LastListFresh'
  <2>1. ASSUME NEW i \in DOMAIN callbacks,
               IsListResult(callbacks[i]), callbacks[i].ok, callbacks[i].docs = purchases,
               \A j \in DOMAIN callbacks : j > i => ~IsListResult(callbacks[j])
        PROVE  LastListFresh'
    <3>1. i \in DOMAIN callbacks' /\ callbacks'[i] = callbacks[i]
      BY <1>5
    <3>2. \A j \in DOMAIN callbacks' : j > i => ~IsListResult(callbacks'[j])
      BY <1>3, <1>5, <2>1
    <3> QED
      BY <1>1, <2>1, <3>1, <3>2 DEF LastListFresh
  <2> QED
    BY <2>1 DEF LastListFresh
<1>9. ListFresh => ListFresh'
  BY <1>1, <1>3, <1>5 DEF ListFresh
<1>10. NothingRecorded => NothingRecorded'
  BY <1>1 DEF NothingRecorded
<1> QED
  BY <1>1, <1>6, <1>7, <1>8, <1>9, <1>10 DEF ListInv

\* A read of the collection returns it, unless it is empty; other reads return other things.
LEMMA ListRead ==
    ASSUME TypeOK, ListInv, NEW kind \in ReadKinds, NEW ok \in BOOLEAN, FinishRead(kind, ok),
           UNCHANGED activationVars,
           \/ ok /\ UNCHANGED missed
           \/ ~ok /\ missed' = missed \cup {kind}
    PROVE  ListInv'
<1> DEFINE B == WriteAck \cup BalanceResult \cup PurchaseResult
           n == Len(callbacks)
           new == Result(kind, ok)
<1>1. /\ callbacks' = Append(callbacks, new) /\ callbacks \in Seq(B) /\ new \in B
      /\ new.of = kind
      /\ UNCHANGED <<purchases, unacked, userNumbers>>
  BY QueueTypes, ReadResult, TypedBlocks DEF FinishRead, activationVars
<1>2. kind = "purchases" => /\ new.ok = (ok /\ ~NothingRecorded)
                            /\ new.docs = purchases
  BY DEF Result, NothingRecorded
<1>3. /\ reads \in [ReadKinds -> Nat] /\ reads[kind] > 0
      /\ reads' = [reads EXCEPT ![kind] = @ - 1]
  BY DEF FinishRead, TypeOK, BalanceTypeOK, FirestoreTypeOK
<1>4. "purchases" \notin missed' => "purchases" \notin missed /\ (ok \/ kind # "purchases")
  OBVIOUS
<1> HIDE DEF B, new
<1>5. /\ DOMAIN callbacks' = 1 .. n + 1 /\ DOMAIN callbacks = 1 .. n /\ n \in Nat
      /\ \A i \in DOMAIN callbacks : callbacks'[i] = callbacks[i]
      /\ callbacks'[n + 1] = new
  BY <1>1, AppendEntries
<1> HIDE DEF n
<1>6. IsListResult(new) <=> kind = "purchases"
  BY <1>1 DEF IsListResult
<1>7. EmptyShown'
  <2> SUFFICES ASSUME NothingRecorded
               PROVE  EmptyShown'
    BY <1>1 DEF EmptyShown, NothingRecorded
  <2>1. IsListResult(new) => ~new.ok
    BY <1>2, <1>6
  <2>2. \A i \in DOMAIN callbacks' : IsListResult(callbacks'[i]) => ~callbacks'[i].ok
    BY <1>5, <2>1 DEF ListInv, EmptyShown
  <2> QED
    BY <1>1, <2>2 DEF ListInv, EmptyShown
<1>8. CASE kind = "purchases"
  <2> SUFFICES ASSUME "purchases" \notin missed', ~NothingRecorded
               PROVE  LastListFresh'
    BY <1>1, <1>7 DEF ListInv, NothingRecorded
  <2>1. new.ok /\ new.docs = purchases
    BY <1>2, <1>4, <1>8
  <2>2. n + 1 \in DOMAIN callbacks' /\ \A j \in DOMAIN callbacks' : ~(j > n + 1)
    BY <1>5
  <2> QED
    BY <1>1, <1>5, <1>6, <1>8, <2>1, <2>2 DEF LastListFresh
<1>9. CASE kind # "purchases"
  <2>1. reads'["purchases"] = reads["purchases"]
    BY <1>3, <1>9 DEF ReadKinds
  <2>2. ListReadAhead => ListReadAhead'
    <3>1. ASSUME NEW i \in DOMAIN callbacks, IsListAck(callbacks[i]) /\ callbacks[i].ok
          PROVE  ListReadAhead'
      BY <1>5, <3>1 DEF ListReadAhead
    <3> QED
      BY <1>1, <2>1, <3>1 DEF ListReadAhead
  <2>3. LastListFresh => LastListFresh'
    <3>1. ASSUME NEW i \in DOMAIN callbacks,
                 IsListResult(callbacks[i]), callbacks[i].ok, callbacks[i].docs = purchases,
                 \A j \in DOMAIN callbacks : j > i => ~IsListResult(callbacks[j])
          PROVE  LastListFresh'
      <4>1. i \in DOMAIN callbacks' /\ callbacks'[i] = callbacks[i]
        BY <1>5
      <4>2. \A j \in DOMAIN callbacks' : j > i => ~IsListResult(callbacks'[j])
        BY <1>5, <1>6, <1>9, <3>1
      <4> QED
        BY <1>1, <3>1, <4>1, <4>2 DEF LastListFresh
    <3> QED
      BY <3>1 DEF LastListFresh
  <2>4. ListFresh => ListFresh'
    BY <1>1, <1>5, <1>6, <1>9 DEF ListFresh
  <2>5. NothingRecorded => NothingRecorded'
    BY <1>1 DEF NothingRecorded
  <2> QED
    BY <1>4, <1>7, <2>2, <2>3, <2>4, <2>5 DEF ListInv
<1> QED
  BY <1>8, <1>9

\* A block leaves the main queue.
LEMMA ListBlock ==
    ASSUME TypeOK, ListInv, callbacks # <<>>, callbacks' = Tail(callbacks),
           UNCHANGED <<purchases, unacked, missed>>,
           reads'["purchases"] \in Nat, reads'["purchases"] >= reads["purchases"],
           Head(callbacks).of = "purchaseWritten" /\ Head(callbacks).ok
               => reads'["purchases"] > reads["purchases"],
           userNumbers' = IF Head(callbacks).of = "purchases" /\ Head(callbacks).ok
                          THEN [o \in Orders |-> ModelOf(Head(callbacks).docs[o])]
                          ELSE userNumbers
    PROVE  ListInv'
<1> DEFINE B == WriteAck \cup BalanceResult \cup PurchaseResult
           n == Len(callbacks)
<1>1. callbacks \in Seq(B) /\ purchases \in [Orders -> Purchase] /\ reads["purchases"] \in Nat
  BY QueueTypes, TypedBlocks DEF TypeOK, BalanceTypeOK, FirestoreTypeOK, ReadKinds
<1>2. Head(callbacks).of = "purchases" /\ Head(callbacks).ok /\ Head(callbacks).docs = purchases
        => userNumbers' = purchases
  <2>1. \A o \in Orders : ModelOf(purchases[o]) = purchases[o]
    BY <1>1 DEF ModelOf, Purchase
  <2> QED
    BY <1>1, <2>1
<1> HIDE DEF B
<1>3. /\ DOMAIN callbacks = 1 .. n /\ n \in Nat \ {0} /\ callbacks[1] = Head(callbacks)
      /\ DOMAIN callbacks' = 1 .. n - 1
      /\ \A i \in DOMAIN callbacks' : callbacks'[i] = callbacks[i + 1]
  BY <1>1, TailEntries
<1> HIDE DEF n
<1>4. \A i \in DOMAIN callbacks' : i + 1 \in DOMAIN callbacks
  BY <1>3
<1>5. \A i \in DOMAIN callbacks : i # 1 => i - 1 \in DOMAIN callbacks' /\ callbacks'[i - 1] = callbacks[i]
  BY <1>3
<1>6. NothingRecorded => NothingRecorded'
  BY DEF NothingRecorded
<1>7. EmptyShown'
  <2> SUFFICES ASSUME NothingRecorded
               PROVE  EmptyShown'
    BY DEF EmptyShown, NothingRecorded
  <2>1. 1 \in DOMAIN callbacks /\ (Head(callbacks).of = "purchases" => ~Head(callbacks).ok)
    BY <1>3 DEF ListInv, EmptyShown, IsListResult
  <2>2. \A i \in DOMAIN callbacks' : IsListResult(callbacks'[i]) => ~callbacks'[i].ok
    BY <1>3, <1>4 DEF ListInv, EmptyShown
  <2> QED
    BY <2>1, <2>2 DEF ListInv, EmptyShown
<1>8. CASE ListReadAhead
  <2>1. ASSUME NEW i \in DOMAIN callbacks, IsListAck(callbacks[i]) /\ callbacks[i].ok
        PROVE  ListReadAhead'
    <3>1. CASE i = 1
      BY <1>1, <1>3, <2>1, <3>1 DEF ListReadAhead, IsListAck
    <3>2. CASE i # 1
      BY <1>5, <2>1, <3>2 DEF ListReadAhead
    <3> QED
      BY <3>1, <3>2
  <2>2. ListReadAhead'
    BY <1>1, <1>8, <2>1 DEF ListReadAhead
  <2> QED
    BY <1>7, <2>2 DEF ListInv
<1>9. CASE LastListFresh
  <2>1. PICK i \in DOMAIN callbacks :
               /\ IsListResult(callbacks[i])
               /\ callbacks[i].ok /\ callbacks[i].docs = purchases
               /\ \A j \in DOMAIN callbacks : j > i => ~IsListResult(callbacks[j])
    BY <1>9 DEF LastListFresh
  <2>2. CASE i = 1
    <3>1. userNumbers' = purchases
      BY <1>2, <1>3, <2>1, <2>2 DEF IsListResult
    <3>2. \A j \in DOMAIN callbacks' : ~IsListResult(callbacks'[j])
      BY <1>3, <1>4, <2>1, <2>2
    <3>3. ListFresh'
      BY <3>1, <3>2 DEF ListFresh
    <3> QED
      BY <1>7, <3>3 DEF ListInv
  <2>3. CASE i # 1
    <3>1. i - 1 \in DOMAIN callbacks' /\ callbacks'[i - 1] = callbacks[i]
      BY <1>5, <2>3
    <3>2. \A j \in DOMAIN callbacks' : j > i - 1 => ~IsListResult(callbacks'[j])
      BY <1>3, <1>4, <2>1
    <3>3. LastListFresh'
      BY <2>1, <3>1, <3>2 DEF LastListFresh
    <3> QED
      BY <1>7, <3>3 DEF ListInv
  <2> QED
    BY <2>2, <2>3
<1>10. CASE ListFresh
  <2>1. userNumbers' = userNumbers
    BY <1>3, <1>10 DEF ListFresh, IsListResult
  <2>2. \A j \in DOMAIN callbacks' : ~IsListResult(callbacks'[j])
    BY <1>3, <1>4, <1>10 DEF ListFresh
  <2>3. ListFresh'
    BY <1>10, <2>1, <2>2 DEF ListFresh
  <2> QED
    BY <1>7, <2>3 DEF ListInv
<1> QED
  BY <1>6, <1>7, <1>8, <1>9, <1>10 DEF ListInv

\* Every step of Activation keeps the list's invariant.
LEMMA ListInvNext ==
    ASSUME TypeOK, RequestsNamed, ListInv, [Next]_vars
    PROVE  ListInv'
<1>1. reads \in [ReadKinds -> Nat] /\ reads["purchases"] \in Nat
  BY DEF TypeOK, BalanceTypeOK, FirestoreTypeOK, ReadKinds
<1>2. ASSUME UNCHANGED <<firestoreVars, balanceVars>>, UNCHANGED userNumbers
      PROVE  ListInv'
  BY <1>1, <1>2, ListFrame DEF firestoreVars, balanceVars
<1>3. CASE HostCall
  <2>1. CASE Select
    BY <1>2, <2>1 DEF Select
  <2>2. CASE \E r \in Requests : StartActivation(r) \/ CancelOrderByUser(r)
    BY <1>2, <2>2 DEF StartActivation, CancelOrderByUser, activationVars
  <2>3. ASSUME NEW amount \in Amounts, AddBalance(amount), UNCHANGED activationVars
        PROVE  ListInv'
    <3>1. /\ unacked' = Append(unacked, BalanceAck)
          /\ UNCHANGED <<purchases, reads, callbacks, userNumbers>>
          /\ "purchases" \in missed => "purchases" \in missed'
      BY <2>3 DEF AddBalance, Refetched, activationVars
    <3>2. \A i \in DOMAIN unacked : i \in DOMAIN unacked' /\ unacked'[i] = unacked[i]
      BY <3>1, TypedBlocks, AppendEntries
    <3> QED
      BY <1>1, <3>1, <3>2, ListFrame
  <2>4. CASE (InitUser \/ \E token \in Tokens : UpdateFCMToken(token)) /\ UNCHANGED activationVars
    <3>1. /\ UNCHANGED <<purchases, unacked, reads, callbacks, userNumbers>>
          /\ "purchases" \in missed => "purchases" \in missed'
      BY <2>4 DEF InitUser, UpdateFCMToken, balanceVars, activationVars
    <3> QED
      BY <1>1, <3>1, ListFrame
  <2>5. CASE PublicInit(ReadKinds) /\ UNCHANGED activationVars
    <3>1. /\ UNCHANGED <<purchases, unacked, callbacks, userNumbers>>
          /\ reads'["purchases"] = reads["purchases"] + 1
      BY <2>5 DEF PublicInit, ReadsOf, ReadKinds, activationVars
    <3> QED
      BY <1>1, <3>1, ListFrame
  <2> QED
    BY <1>3, <2>1, <2>2, <2>3, <2>4, <2>5 DEF HostCall
<1>4. ASSUME NEW r \in Requests, Tick(r) \/ Answer(r)
      PROVE  ListInv'
  <2>1. CASE Tick(r) \/ NumberTraps(r) \/ NumberRefused(r) \/ StatusReceived(r) \/ CancelRefused(r)
    BY <1>2, <2>1 DEF Tick, NumberTraps, NumberRefused, StatusReceived, CancelRefused, activationVars
  <2> QED
    BY <1>4, <2>1, ListClosures DEF Answer
<1>5. CASE Block
  <2>1. CASE PurchaseWritten
    <3>1. reads'["purchases"] = IF Head(callbacks).ok THEN reads["purchases"] + 1
                                ELSE reads["purchases"]
      BY <1>1, <2>1 DEF PurchaseWritten, Refetch, Issue, ReadKinds
    <3>2. /\ callbacks # <<>> /\ callbacks' = Tail(callbacks)
          /\ Head(callbacks).of = "purchaseWritten"
          /\ UNCHANGED <<purchases, unacked, missed, userNumbers>>
      BY <2>1 DEF PurchaseWritten, Arrives, balanceVars, activationVars
    <3> QED
      BY <1>1, <3>1, <3>2, ListBlock
  <2>2. CASE PurchasesFetched
    <3>1. /\ callbacks # <<>> /\ callbacks' = Tail(callbacks)
          /\ Head(callbacks).of = "purchases"
          /\ UNCHANGED <<purchases, unacked, reads, missed>>
          /\ userNumbers' = IF Head(callbacks).ok
                            THEN [o \in Orders |-> ModelOf(Head(callbacks).docs[o])]
                            ELSE userNumbers
      BY <2>2 DEF PurchasesFetched, Arrives, balanceVars
    <3> QED
      BY <1>1, <3>1, ListBlock
  <2>3. CASE (BalanceWritten \/ BalanceFetched) /\ UNCHANGED activationVars
    <3>1. /\ callbacks # <<>> /\ callbacks' = Tail(callbacks)
          /\ Head(callbacks).of \in {"balance", "balanceWritten"}
          /\ UNCHANGED <<purchases, unacked, missed, userNumbers>>
      BY <2>3 DEF BalanceWritten, BalanceFetched, Arrives, balanceVars, activationVars
    <3>2. reads'["purchases"] = reads["purchases"]
      BY <1>1, <2>3 DEF BalanceWritten, BalanceFetched, Refetch, Issue, ReadKinds
    <3> QED
      BY <1>1, <3>1, <3>2, ListBlock
  <2> QED
    BY <1>5, <2>1, <2>2, <2>3 DEF Block
<1>6. CASE FirestoreStep /\ UNCHANGED activationVars
  <2>1. CASE Acknowledge /\ UNCHANGED balanceVars
    BY <1>6, <2>1, ListAcknowledge
  <2>2. ASSUME NEW kind \in ReadKinds, FinishRead(kind, TRUE), UNCHANGED balanceVars
        PROVE  ListInv'
    BY <1>6, <2>2, ListRead DEF balanceVars
  <2>3. ASSUME NEW kind \in ReadKinds, FinishRead(kind, FALSE), missed' = missed \cup {kind}
        PROVE  ListInv'
    BY <1>6, <2>3, ListRead
  <2> QED
    BY <1>6, <2>1, <2>2, <2>3 DEF FirestoreStep
<1>7. CASE ProviderStep /\ UNCHANGED <<firestoreVars, balanceVars, activationVars>>
  BY <1>2, <1>7 DEF activationVars
<1>8. CASE Restart
  <2>1. /\ callbacks' = <<>> /\ reads'["purchases"] = 1 /\ UNCHANGED purchases
        /\ userNumbers' = NoPurchases
    BY <1>8 DEF Restart, LaunchAgain, LoseMemory, ReadsOf, ReadKinds
  <2>2. ListReadAhead'
    BY <2>1 DEF ListReadAhead
  <2>3. EmptyShown'
    BY <2>1 DEF ListInv, EmptyShown, NothingRecorded
  <2> QED
    BY <2>2, <2>3 DEF ListInv
<1>9. CASE UNCHANGED vars
  BY <1>2, <1>9 DEF vars, activationVars
<1>10. ASSUME NEW r \in Requests, Killed(r)
       PROVE  ListInv'
  <2>1. /\ callbacks' = <<>> /\ reads'["purchases"] = 1
        /\ userNumbers' = NoPurchases
    BY <1>10 DEF Killed, KilledAfterCharge, KilledAfterClose, LaunchAgain, LoseMemory, ReadsOf,
                 ReadKinds
  <2>2. ListReadAhead'
    BY <2>1 DEF ListReadAhead
  <2>3. \/ UNCHANGED purchases
        \/ http[r].order \in Orders /\ purchases[http[r].order].status # "none"
    BY <1>10 DEF Killed, KilledAfterCharge, KilledAfterClose, UpdateNumberPurchase, Answered,
                 RequestsNamed
  <2>4. UNCHANGED purchases \/ ~NothingRecorded'
    <3>1. CASE UNCHANGED purchases
      BY <3>1
    <3>2. CASE KilledAfterClose(r) /\ http[r].order \in Orders
                 /\ purchases[http[r].order].status # "none"
      <4>1. /\ purchases \in [Orders -> Purchase]
            /\ purchases' = [purchases EXCEPT ![http[r].order] =
                                    GetDicForCancel(purchases[http[r].order])]
        BY <3>2 DEF KilledAfterClose, UpdateNumberPurchase, TypeOK, BalanceTypeOK, FirestoreTypeOK
      <4>2. purchases'[http[r].order].status = "8"
        BY <3>2, <4>1 DEF GetDicForCancel, Purchase
      <4> QED
        BY <3>2, <4>2 DEF NothingRecorded, NoPurchases, NoPurchase
    <3> QED
      BY <1>10, <2>3, <3>1, <3>2 DEF Killed, KilledAfterCharge
  <2>5. EmptyShown'
    BY <2>1, <2>4 DEF ListInv, EmptyShown, NothingRecorded
  <2> QED
    BY <2>2, <2>5 DEF ListInv
<1> QED
  BY <1>3, <1>4, <1>5, <1>6, <1>7, <1>8, <1>9, <1>10 DEF Next

-----------------------------------------------------------------------------
\* What every block on its way brings, in every reachable state.
LEMMA SettlingInvariance == Spec => [](BalanceInv /\ ListInv)
<1>1. Init => BalanceInv /\ ListInv
  <2> SUFFICES ASSUME Init
               PROVE  BalanceInv /\ ListInv
    OBVIOUS
  <2>1. reads["balance"] = 1 /\ reads["purchases"] = 1
    BY DEF Init, ReadsOf, ReadKinds
  <2>2. BalanceInv
    BY <2>1, BalanceInvStart DEF Init
  <2>3. ListReadAhead
    BY <2>1 DEF ListReadAhead
  <2>4. EmptyShown
    BY DEF Init, BalanceInit, EmptyShown
  <2> QED
    BY <2>2, <2>3, <2>4 DEF ListInv
<1>2. IInv /\ BalanceInv /\ ListInv /\ [Next]_vars => (BalanceInv /\ ListInv)'
  BY BalanceInvNext, ListInvNext DEF IInv, CoreInv
<1> QED
  BY <1>1, <1>2, Invariance, PTL DEF Spec

(***************************************************************************)
(* The balance, with everything that buys, finishes and cancels orders     *)
(* around it: serial changes are exact, and when all balance traffic has   *)
(* drained the cache is the stored balance.                                *)
(***************************************************************************)
THEOREM OrdersChargeExactly == Spec => [](SerialUpdatesExact /\ CacheSettles)
<1>1. BalanceInv => SerialUpdatesExact /\ CacheSettles
  BY BalanceInvImplies
<1> QED
  BY <1>1, SettlingInvariance, PTL

(***************************************************************************)
(* The list of purchases the user sees is the collection once no write or  *)
(* fetch of it is on its way, however fetchNumberPurchases's answers       *)
(* overlapped with new orders, and although it ignores empty answers.      *)
(***************************************************************************)
THEOREM ListConverges == Spec => []ListSettles
<1>1. ListInv => ListSettles
  <2>1. PurchasesIdle => ~ListReadAhead /\ ~LastListFresh
    BY DEF PurchasesIdle, ListReadAhead, LastListFresh, IsListAck, IsListResult
  <2> QED
    BY <2>1 DEF ListInv, EmptyShown, ListFresh, ListSettles
<1> QED
  BY <1>1, SettlingInvariance, PTL

=============================================================================
