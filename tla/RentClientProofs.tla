-------------------------- MODULE RentClientProofs ---------------------------
(***************************************************************************)
(* Proofs about renting and initialisation, for every set of users,        *)
(* services, countries, numbers and requests, every catalogue, every host  *)
(* habit and fault.  The properties are invariants of RentSpec:            *)
(*                                                                         *)
(* RentTyped, InitsCounted, TokenDecided, ListOwned, RentListAgrees and    *)
(* RentBalanceAgrees, and, when the data is complete, TrapsExplained.      *)
(* NewestFirstSorts is about the order of the list.                        *)
(***************************************************************************)
EXTENDS RentClient, SequenceTheorems, FiniteSetTheorems, TLAPS

Snapshot == [Rents -> Code]

\* The rents a snapshot shows.
Present(snapshot) == {n \in Rents : snapshot[n].status # "none"}

\* No two rents of a snapshot were sold at the same time.
DistinctTimes(snapshot) ==
    \A n, m \in Present(snapshot) : n # m => snapshot[n].time # snapshot[m].time

-----------------------------------------------------------------------------
(***************************************************************************)
(* NewestFirst.                                                            *)
(***************************************************************************)
Later(snapshot, n) == {m \in Present(snapshot) : snapshot[m].time > snapshot[n].time}

LEMMA PresentFinite ==
    ASSUME NEW snapshot \in Snapshot
    PROVE  /\ IsFiniteSet(Present(snapshot)) /\ Cardinality(Present(snapshot)) \in Nat
           /\ Present(snapshot) \subseteq Rents
<1>1. Present(snapshot) \subseteq Rents
  BY DEF Present
<1>2. IsFiniteSet(Rents)
  BY RentAssumption
<1> QED
  BY <1>1, <1>2, FS_Subset, FS_CardinalityType

\* The place of a rent is one more than the number of rents sold after it.
LEMMA PlaceInRange ==
    ASSUME NEW snapshot \in Snapshot, NEW n \in Present(snapshot)
    PROVE  /\ IsFiniteSet(Later(snapshot, n))
           /\ Cardinality(Later(snapshot, n)) \in Nat
           /\ Cardinality(Later(snapshot, n)) < Cardinality(Present(snapshot))
<1>1. IsFiniteSet(Present(snapshot)) /\ Present(snapshot) \subseteq Rents
  BY PresentFinite
<1>2. Later(snapshot, n) \subseteq Present(snapshot)
  BY DEF Later
<1>3. snapshot[n].time \in Nat
  BY <1>1 DEF Snapshot, Code
<1>4. n \notin Later(snapshot, n)
  BY <1>3 DEF Later
<1>5. Later(snapshot, n) # Present(snapshot)
  BY <1>4
<1> QED
  BY <1>1, <1>2, <1>5, FS_Subset, FS_CardinalityType

LEMMA PlacesDiffer ==
    ASSUME NEW snapshot \in Snapshot, DistinctTimes(snapshot),
           NEW n \in Present(snapshot), NEW m \in Present(snapshot),
           snapshot[n].time < snapshot[m].time
    PROVE  Cardinality(Later(snapshot, m)) < Cardinality(Later(snapshot, n))
<1>1. IsFiniteSet(Later(snapshot, n)) /\ Cardinality(Later(snapshot, n)) \in Nat
  BY PlaceInRange
<1>2. \A k \in Present(snapshot) : snapshot[k].time \in Nat
  BY PresentFinite DEF Snapshot, Code
<1>3. Later(snapshot, m) \subseteq Later(snapshot, n)
  BY <1>2 DEF Later
<1>4. m \in Later(snapshot, n) /\ m \notin Later(snapshot, m)
  BY <1>2 DEF Later
<1>5. IsFiniteSet(Later(snapshot, m)) /\ Cardinality(Later(snapshot, m)) \in Nat
  BY PlaceInRange
<1>6. /\ Cardinality(Later(snapshot, m)) <= Cardinality(Later(snapshot, n))
      /\ Cardinality(Later(snapshot, m)) # Cardinality(Later(snapshot, n))
  BY <1>1, <1>3, <1>4, FS_Subset
<1> QED
  BY <1>1, <1>5, <1>6

\* Every place of the list is taken by a rent of the snapshot.
LEMMA PlaceTaken ==
    ASSUME NEW snapshot \in Snapshot, DistinctTimes(snapshot),
           NEW i \in 1 .. Cardinality(Present(snapshot))
    PROVE  \E n \in Present(snapshot) : 1 + Cardinality(Later(snapshot, n)) = i
<1> DEFINE P == Present(snapshot)
           c == Cardinality(P)
           place == [n \in P |-> 1 + Cardinality(Later(snapshot, n))]
<1>1. IsFiniteSet(P) /\ c \in Nat
  BY PresentFinite
<1>2. \A n \in P : place[n] \in 1 .. c
  <2> SUFFICES ASSUME NEW n \in P PROVE place[n] \in 1 .. c
    OBVIOUS
  <2>1. Cardinality(Later(snapshot, n)) \in Nat /\ Cardinality(Later(snapshot, n)) < c
    BY PlaceInRange
  <2>2. place[n] = 1 + Cardinality(Later(snapshot, n))
    OBVIOUS
  <2> HIDE DEF place, c
  <2> QED
    BY <2>1, <2>2, <1>1
<1>3. \A n, m \in P : n # m => place[n] # place[m]
  <2> SUFFICES ASSUME NEW n \in P, NEW m \in P, n # m PROVE place[n] # place[m]
    OBVIOUS
  <2> DEFINE x == Cardinality(Later(snapshot, n))
             y == Cardinality(Later(snapshot, m))
  <2>1. snapshot[n].time \in Nat /\ snapshot[m].time \in Nat
    BY PresentFinite DEF Snapshot, Code
  <2>2. snapshot[n].time < snapshot[m].time \/ snapshot[m].time < snapshot[n].time
    <3>1. snapshot[n].time # snapshot[m].time
      BY DEF DistinctTimes
    <3> QED
      BY <3>1, <2>1
  <2>3. x < y \/ y < x
    BY <2>2, PlacesDiffer
  <2>4. x \in Nat /\ y \in Nat
    BY PlaceInRange
  <2>5. place[n] = 1 + x /\ place[m] = 1 + y
    OBVIOUS
  <2> HIDE DEF place, x, y
  <2> QED
    BY <2>3, <2>4, <2>5
<1>4. place \in Injection(P, 1 .. c)
  <2>1. place \in [P -> 1 .. c]
    BY <1>2
  <2> HIDE DEF place
  <2> QED
    BY <2>1, <1>3 DEF Injection, IsInjective
<1>5. IsFiniteSet(1 .. c) /\ Cardinality(1 .. c) = c
  <2>1. 1 \in Int /\ c \in Int
    BY <1>1
  <2>2. IsFiniteSet(1 .. c) /\ Cardinality(1 .. c) = IF 1 > c THEN 0 ELSE c - 1 + 1
    BY <2>1, FS_Interval
  <2> HIDE DEF c
  <2> QED
    BY <2>2, <1>1
<1>6. place \in Surjection(P, 1 .. c)
  <2> HIDE DEF place
  <2> QED
    BY <1>4, <1>5, FS_Injection
<1>7. \E n \in P : place[n] = i
  <2> HIDE DEF place
  <2> QED
    BY <1>6 DEF Surjection
<1> QED
  BY <1>7

\* The list holds the rents of the snapshot, each with its status.
LEMMA NewestFirstLists ==
    ASSUME NEW snapshot \in Snapshot, DistinctTimes(snapshot)
    PROVE  /\ DOMAIN NewestFirst(snapshot) = 1 .. Cardinality(Present(snapshot))
           /\ \A i \in DOMAIN NewestFirst(snapshot) :
                 NewestFirst(snapshot)[i].rent \in Present(snapshot)
<1> DEFINE at(i) == CHOOSE n \in Present(snapshot) : 1 + Cardinality(Later(snapshot, n)) = i
<1>1. \A i \in 1 .. Cardinality(Present(snapshot)) : at(i) \in Present(snapshot)
  BY PlaceTaken
<1>2. NewestFirst(snapshot) =
          [i \in 1 .. Cardinality(Present(snapshot)) |->
              [rent |-> at(i), status |-> snapshot[at(i)].status]]
  BY DEF NewestFirst, Present, Later
<1> HIDE DEF at
<1> QED
  BY <1>1, <1>2

(***************************************************************************)
(* The list that fetchUserRent fills and sorts shows every rent of the     *)
(* snapshot, in the order of the sales, the newest first, and so none of   *)
(* them twice.                                                             *)
(***************************************************************************)
THEOREM NewestFirstSorts ==
    ASSUME NEW snapshot \in Snapshot, DistinctTimes(snapshot)
    PROVE  LET list == NewestFirst(snapshot)
           IN  /\ \A n \in Present(snapshot) : \E i \in DOMAIN list : list[i].rent = n
               /\ \A i, j \in DOMAIN list :
                     i < j => snapshot[list[i].rent].time > snapshot[list[j].rent].time
<1> DEFINE P == Present(snapshot)
           c == Cardinality(P)
           later(n) == Cardinality(Later(snapshot, n))
           at(i) == CHOOSE n \in P : 1 + later(n) = i
           list == NewestFirst(snapshot)
<1>1. c \in Nat /\ \A n \in P : later(n) \in Nat /\ later(n) < c /\ snapshot[n].time \in Nat
  BY PresentFinite, PlaceInRange DEF Snapshot, Code
<1>2. ASSUME NEW i \in 1 .. c
      PROVE  at(i) \in P /\ 1 + later(at(i)) = i
  <2>1. \E n \in P : 1 + later(n) = i
    BY PlaceTaken, Zenon
  <2> QED
    BY <2>1
<1>3. DOMAIN list = 1 .. c /\ \A i \in 1 .. c : list[i].rent = at(i)
  BY DEF NewestFirst, Present, Later
<1>4. \A n, m \in P : snapshot[n].time < snapshot[m].time => later(m) < later(n)
  BY PlacesDiffer
<1>5. \A n, m \in P : n # m => snapshot[n].time # snapshot[m].time
  BY DEF DistinctTimes
<1> HIDE DEF P, c, later, at, list
<1>6. \A n, m \in P : later(n) < later(m) => snapshot[n].time > snapshot[m].time
  BY <1>1, <1>4, <1>5
<1>7. ASSUME NEW n \in P
      PROVE  \E i \in DOMAIN list : list[i].rent = n
  <2>1. 1 + later(n) \in 1 .. c
    BY <1>1
  <2>2. at(1 + later(n)) \in P /\ later(at(1 + later(n))) = later(n)
    BY <1>1, <1>2, <2>1
  <2>3. at(1 + later(n)) = n
    BY <1>1, <1>4, <1>5, <2>2
  <2> QED
    BY <1>3, <2>1, <2>3
<1>8. ASSUME NEW i \in DOMAIN list, NEW j \in DOMAIN list, i < j
      PROVE  snapshot[list[i].rent].time > snapshot[list[j].rent].time
  <2>1. i \in 1 .. c /\ j \in 1 .. c
    BY <1>3
  <2>2. at(i) \in P /\ at(j) \in P /\ later(at(i)) < later(at(j))
    BY <1>1, <1>2, <1>8, <2>1
  <2> QED
    BY <1>3, <1>6, <2>1, <2>2
<1> QED
  BY <1>7, <1>8 DEF P, list

-----------------------------------------------------------------------------
(***************************************************************************)
(* What a step can change.                                                 *)
(***************************************************************************)
\* The kinds of steps.
LEMMA StepKinds ==
    ASSUME RentNext
    PROVE  \/ \E user \in Users \cup {Nil}, complete, isRentActive \in BOOLEAN :
                 NewSMSActivate(user, complete, isRentActive)
           \/ UseFailedObject
           \/ GetRentData
           \/ SelectRent
           \/ \/ RentNumber
              \/ \E n \in Rents : CancelRent(n)
              \/ \E quantity \in Quantities : SavePurchase(quantity)
           \/ \E n \in Rents : CodeArrives(n)
           \/ \E r \in Slots : Closure(r)
           \/ \E r \in Slots : Serve(r)
           \/ \E r \in Slots : LoseAnswer(r)
           \/ Database
           \/ Restart
BY Zenon DEF RentNext

\* A request of the host only fills a slot.
LEMMA HostSendsKeeps ==
    ASSUME \/ RentNumber
           \/ \E n \in Rents : CancelRent(n)
           \/ \E quantity \in Quantities : SavePurchase(quantity)
    PROVE  UNCHANGED <<configVars, catalogueVars, selectionVars, listVars, serverVars, token,
                       userRentBalance, trapped, mixed, missed>>
<1>1. ASSUME NEW request, HostSends(request)
      PROVE  UNCHANGED <<configVars, catalogueVars, selectionVars, listVars, serverVars, token,
                         userRentBalance, trapped, mixed, missed>>
  BY <1>1 DEF HostSends
<1> QED
  BY <1>1 DEF RentNumber, CancelRent, SavePurchase

\* The service answers: the client has not heard of it yet.
LEMMA ServeKeeps ==
    ASSUME NEW r \in Slots, Serve(r)
    PROVE  UNCHANGED <<configVars, catalogueVars, selectionVars, listVars, token,
                       userRentBalance, trapped, mixed, missed>>
<1>1. ASSUME NEW response, Respond(r, response)
      PROVE  UNCHANGED <<configVars, catalogueVars, selectionVars, listVars, token,
                         userRentBalance, trapped, mixed, missed>>
  BY <1>1 DEF Respond
<1> QED
  BY <1>1 DEF Serve, Refuse, ServeLogin, ServeServices, ServeBalance, ServeRent, ServeCancel,
              ServePurchase

\* A closure that ends the process for data that is not as it expects.
DataTraps == ClosureTraps /\ RentFaults \cap {"missingField", "badRecord"} # {}

\* The Realtime Database touches the list of rents only.
LEMMA DatabaseKeeps ==
    ASSUME Database
    PROVE  /\ UNCHANGED <<configVars, catalogueVars, selectionVars, serverVars, webVars, token,
                          userRentBalance, mixed, missed>>
           /\ UNCHANGED trapped \/ DataTraps
BY DEF Database, CachedEvent, SnapshotArrives, RentsFetched, RentsTrap, ClosureTraps, DataTraps

LEMMA ConfigFrame ==
    ASSUME RentNext
    PROVE  \/ UNCHANGED <<configVars, token, mixed, trapped>>
           \/ \E user \in Users \cup {Nil}, complete, isRentActive \in BOOLEAN :
                 NewSMSActivate(user, complete, isRentActive)
           \/ UseFailedObject
           \/ GetRentData
           \/ \E r \in Slots : LoginSucceeded(r) \/ LoginFailed(r)
           \/ DataTraps
           \/ Restart
<1>1. CASE \E user \in Users \cup {Nil}, complete, isRentActive \in BOOLEAN :
              NewSMSActivate(user, complete, isRentActive)
  BY <1>1
<1>2. CASE UseFailedObject
  BY <1>2
<1>3. CASE GetRentData
  BY <1>3
<1>4. CASE SelectRent
  BY <1>4 DEF SelectRent
<1>5. CASE \/ RentNumber
           \/ \E n \in Rents : CancelRent(n)
           \/ \E quantity \in Quantities : SavePurchase(quantity)
  BY <1>5, HostSendsKeeps
<1>6. CASE \E n \in Rents : CodeArrives(n)
  BY <1>6 DEF CodeArrives
<1>7. CASE \E r \in Slots : Closure(r)
  BY <1>7 DEF Closure, ServicesTrap, DataTraps, ServicesAnswered, HostCallSucceeded, HostCallFailed,
              BalanceAnswered
<1>8. CASE \E r \in Slots : Serve(r)
  BY <1>8, ServeKeeps
<1>9. CASE \E r \in Slots : LoseAnswer(r)
  BY <1>9 DEF LoseAnswer
<1>10. CASE Database
  BY <1>10, DatabaseKeeps
<1>11. CASE Restart
  BY <1>11
<1> QED
  BY StepKinds, <1>1, <1>2, <1>3, <1>4, <1>5, <1>6, <1>7, <1>8, <1>9, <1>10, <1>11, Zenon

LEMMA CatalogueFrame ==
    ASSUME RentNext
    PROVE  \/ UNCHANGED <<catalogueVars, selectionVars>>
           \/ GetRentData
           \/ SelectRent
           \/ \E r \in Slots : ServicesAnswered(r)
           \/ Restart
<1>1. CASE \E user \in Users \cup {Nil}, complete, isRentActive \in BOOLEAN :
              NewSMSActivate(user, complete, isRentActive)
  BY <1>1 DEF NewSMSActivate
<1>2. CASE UseFailedObject
  BY <1>2 DEF UseFailedObject
<1>3. CASE GetRentData
  BY <1>3
<1>4. CASE SelectRent
  BY <1>4
<1>5. CASE \/ RentNumber
           \/ \E n \in Rents : CancelRent(n)
           \/ \E quantity \in Quantities : SavePurchase(quantity)
  BY <1>5, HostSendsKeeps
<1>6. CASE \E n \in Rents : CodeArrives(n)
  BY <1>6 DEF CodeArrives
<1>7. CASE \E r \in Slots : Closure(r)
  BY <1>7 DEF Closure, ServicesTrap, ClosureTraps, LoginSucceeded, LoginFailed, HostCallSucceeded, HostCallFailed,
                 BalanceAnswered
<1>8. CASE \E r \in Slots : Serve(r)
  BY <1>8, ServeKeeps
<1>9. CASE \E r \in Slots : LoseAnswer(r)
  BY <1>9 DEF LoseAnswer
<1>10. CASE Database
  BY <1>10, DatabaseKeeps
<1>11. CASE Restart
  BY <1>11
<1> QED
  BY StepKinds, <1>1, <1>2, <1>3, <1>4, <1>5, <1>6, <1>7, <1>8, <1>9, <1>10, <1>11, Zenon

LEMMA ListFrame ==
    ASSUME RentNext
    PROVE  \/ UNCHANGED listVars
           \/ \E r \in Slots : LoginSucceeded(r)
           \/ CachedEvent
           \/ SnapshotArrives
           \/ RentsFetched
           \/ Restart
<1>1. CASE \E user \in Users \cup {Nil}, complete, isRentActive \in BOOLEAN :
              NewSMSActivate(user, complete, isRentActive)
  BY <1>1 DEF NewSMSActivate
<1>2. CASE UseFailedObject
  BY <1>2 DEF UseFailedObject
<1>3. CASE GetRentData
  BY <1>3 DEF GetRentData
<1>4. CASE SelectRent
  BY <1>4 DEF SelectRent
<1>5. CASE \/ RentNumber
           \/ \E n \in Rents : CancelRent(n)
           \/ \E quantity \in Quantities : SavePurchase(quantity)
  BY <1>5, HostSendsKeeps
<1>6. CASE \E n \in Rents : CodeArrives(n)
  BY <1>6 DEF CodeArrives
<1>7. CASE \E r \in Slots : Closure(r)
  BY <1>7 DEF Closure, ServicesTrap, ClosureTraps, LoginFailed, ServicesAnswered, HostCallSucceeded, HostCallFailed,
                 BalanceAnswered
<1>8. CASE \E r \in Slots : Serve(r)
  BY <1>8, ServeKeeps
<1>9. CASE \E r \in Slots : LoseAnswer(r)
  BY <1>9 DEF LoseAnswer
<1>10. CASE Database
  BY <1>10 DEF Database, RentsTrap, ClosureTraps
<1>11. CASE Restart
  BY <1>11
<1> QED
  BY StepKinds, <1>1, <1>2, <1>3, <1>4, <1>5, <1>6, <1>7, <1>8, <1>9, <1>10, <1>11, Zenon

LEMMA ServerFrame ==
    ASSUME RentNext
    PROVE  \/ UNCHANGED serverVars
           \/ \E r \in Slots, n \in Rents : ServeRent(r, n)
           \/ \E r \in Slots : ServeCancel(r) \/ ServePurchase(r)
           \/ \E n \in Rents : CodeArrives(n)
<1>1. CASE \E user \in Users \cup {Nil}, complete, isRentActive \in BOOLEAN :
              NewSMSActivate(user, complete, isRentActive)
  BY <1>1 DEF NewSMSActivate
<1>2. CASE UseFailedObject
  BY <1>2 DEF UseFailedObject
<1>3. CASE GetRentData
  BY <1>3 DEF GetRentData
<1>4. CASE SelectRent
  BY <1>4 DEF SelectRent
<1>5. CASE \/ RentNumber
           \/ \E n \in Rents : CancelRent(n)
           \/ \E quantity \in Quantities : SavePurchase(quantity)
  BY <1>5, HostSendsKeeps
<1>6. CASE \E n \in Rents : CodeArrives(n)
  BY <1>6
<1>7. CASE \E r \in Slots : Closure(r)
  BY <1>7 DEF Closure, ServicesTrap, ClosureTraps, LoginSucceeded, LoginFailed, ServicesAnswered, HostCallSucceeded,
                 HostCallFailed, BalanceAnswered
<1>8. CASE \E r \in Slots : Serve(r)
  BY <1>8 DEF Serve, Refuse, ServeLogin, ServeServices, ServeBalance
<1>9. CASE \E r \in Slots : LoseAnswer(r)
  BY <1>9 DEF LoseAnswer
<1>10. CASE Database
  BY <1>10, DatabaseKeeps
<1>11. CASE Restart
  BY <1>11 DEF Restart
<1> QED
  BY StepKinds, <1>1, <1>2, <1>3, <1>4, <1>5, <1>6, <1>7, <1>8, <1>9, <1>10, <1>11, Zenon

LEMMA WebFrame ==
    ASSUME RentNext
    PROVE  \/ UNCHANGED webVars
           \/ \E user \in Users \cup {Nil}, complete, isRentActive \in BOOLEAN :
                 NewSMSActivate(user, complete, isRentActive) /\ InitLogsIn(user, complete)
           \/ RentNumber
           \/ \E n \in Rents : CancelRent(n)
           \/ \E quantity \in Quantities : SavePurchase(quantity)
           \/ \E r \in Slots : Closure(r) \/ Serve(r) \/ LoseAnswer(r)
           \/ Restart
<1>1. CASE \E user \in Users \cup {Nil}, complete, isRentActive \in BOOLEAN :
              NewSMSActivate(user, complete, isRentActive)
  BY <1>1 DEF NewSMSActivate, InitFails, InitThrows, InitSucceeds
<1>2. CASE UseFailedObject
  BY <1>2 DEF UseFailedObject
<1>3. CASE GetRentData
  BY <1>3 DEF GetRentData
<1>4. CASE SelectRent
  BY <1>4 DEF SelectRent
<1>5. CASE \/ RentNumber
           \/ \E n \in Rents : CancelRent(n)
           \/ \E quantity \in Quantities : SavePurchase(quantity)
  BY <1>5
<1>6. CASE \E n \in Rents : CodeArrives(n)
  BY <1>6 DEF CodeArrives
<1>7. CASE \E r \in Slots : Closure(r)
  BY <1>7
<1>8. CASE \E r \in Slots : Serve(r)
  BY <1>8
<1>9. CASE \E r \in Slots : LoseAnswer(r)
  BY <1>9
<1>10. CASE Database
  BY <1>10, DatabaseKeeps
<1>11. CASE Restart
  BY <1>11
<1> QED
  BY StepKinds, <1>1, <1>2, <1>3, <1>4, <1>5, <1>6, <1>7, <1>8, <1>9, <1>10, <1>11, Zenon

-----------------------------------------------------------------------------
(***************************************************************************)
(* Types.  The rents of a list are rents of the snapshot it was made from  *)
(* only because times differ, so the types rest on the order of sales.     *)
(***************************************************************************)
TimesInv ==
    /\ DistinctTimes(codes) /\ DistinctTimes(synced)
    /\ \A i \in DOMAIN events : DistinctTimes(events[i])
    /\ \A n \in Present(codes) : codes[n].time <= Cardinality(Present(codes))

TypedInv ==
    /\ RentTypeOK
    /\ events \in Seq(Snapshot)
    /\ TimesInv

ConfigTypes ==
    /\ authID \in Users \cup {Nil} /\ managerUser \in Users \cup {Nil, Unborn}
    /\ token \in Users \cup {Nil} /\ lastLogin \in Users \cup {Nil}
    /\ posted \in [{"initSuccess", "initFailed"} -> Nat]
    /\ trapped \in BOOLEAN /\ mixed \in BOOLEAN
    /\ named \subseteq Users
    /\ inits \in Nat

CatalogueTypes ==
    /\ services \in Seq(RentServices)
    /\ countries \subseteq RentCountries
    /\ countriesForServices \in [RentServices -> (SUBSET RentCountries) \cup {Nil}]
    /\ selectedService \in RentServices \cup {Nil}
    /\ selectedCountry \in RentCountries \cup {Nil}
    /\ isServiceSelected \in BOOLEAN /\ isCountrySelected \in BOOLEAN

ListTypes ==
    /\ \A i \in DOMAIN userRentNumbers : userRentNumbers[i].rent \in Rents
    /\ \A i, j \in DOMAIN userRentNumbers :
          userRentNumbers[i].rent = userRentNumbers[j].rent => i = j
    /\ events \in Seq(Snapshot) /\ synced \in Snapshot
    /\ observers \in Nat /\ newObservers \in Nat
    /\ DistinctTimes(synced)
    /\ \A i \in DOMAIN events : DistinctTimes(events[i])

ServerTypes ==
    /\ codes \in Snapshot /\ balances \in [Users -> Nat]
    /\ DistinctTimes(codes)
    /\ \A n \in Present(codes) : codes[n].time <= Cardinality(Present(codes))

WebTypes ==
    /\ web \in [Slots -> Request]
    /\ answeredBefore \in [Slots -> SUBSET Slots]

CacheTypes == userRentBalance \in Int /\ missed \in BOOLEAN

LEMMA TypeParts ==
    TypedInv <=> /\ ConfigTypes /\ CatalogueTypes /\ ListTypes /\ ServerTypes /\ WebTypes
                 /\ CacheTypes
<1>1. events \in Seq(Snapshot) => \A i \in DOMAIN events : events[i] \in Snapshot
  BY ElementOfSeq
<1>2. ASSUME TypedInv
      PROVE  /\ ConfigTypes /\ CatalogueTypes /\ ListTypes /\ ServerTypes /\ WebTypes
             /\ CacheTypes
  BY <1>2 DEF TypedInv, RentTypeOK, TimesInv, ConfigTypes, CatalogueTypes, ListTypes, ServerTypes,
              WebTypes, CacheTypes, Snapshot
<1>3. ASSUME ConfigTypes, CatalogueTypes, ListTypes, ServerTypes, WebTypes, CacheTypes
      PROVE  TypedInv
  BY <1>1, <1>3 DEF TypedInv, RentTypeOK, TimesInv, ConfigTypes, CatalogueTypes, ListTypes,
              ServerTypes, WebTypes, CacheTypes, Snapshot
<1> QED
  BY <1>2, <1>3

LEMMA TypePartsNext ==
    ASSUME ConfigTypes', CatalogueTypes', ListTypes', ServerTypes', WebTypes', CacheTypes'
    PROVE  TypedInv'
BY TypeParts, PTL

LEMMA RequestTypes ==
    /\ Idle \in Request
    /\ \A user \in Users : LoginRequest(user) \in Request
    /\ \A call \in Calls, tok \in Users \cup {Nil} :
          /\ Authorized(call, tok) \in Request
          /\ \A n \in Rents : [Authorized(call, tok) EXCEPT !.rent = n] \in Request
          /\ \A q \in Quantities : [Authorized(call, tok) EXCEPT !.quantity = q] \in Request
<1>1. Idle \in Request
  BY DEF Idle, Request, Calls
<1>2. ASSUME NEW user \in Users
      PROVE  LoginRequest(user) \in Request
  BY <1>1 DEF LoginRequest, Request, Calls
<1>3. ASSUME NEW call \in Calls, NEW tok \in Users \cup {Nil}
      PROVE  Authorized(call, tok) \in Request
  BY <1>1 DEF Authorized, Request, Calls
<1>4. ASSUME NEW request \in Request, NEW n \in Rents
      PROVE  [request EXCEPT !.rent = n] \in Request
  BY DEF Request
<1>5. ASSUME NEW request \in Request, NEW q \in Quantities
      PROVE  [request EXCEPT !.quantity = q] \in Request
  BY DEF Request
<1> QED
  BY <1>1, <1>2, <1>3, <1>4, <1>5

LEMMA ConfigTyped ==
    ASSUME TypedInv, RentNext
    PROVE  ConfigTypes'
<1>1. ConfigTypes /\ WebTypes
  BY TypeParts
<1>2. CASE UNCHANGED <<configVars, token, mixed, trapped>>
  BY <1>1, <1>2 DEF ConfigTypes, configVars
<1>3. ASSUME NEW user \in Users \cup {Nil}, NEW complete \in BOOLEAN,
             NEW isRentActive \in BOOLEAN, NewSMSActivate(user, complete, isRentActive)
      PROVE  ConfigTypes'
  <2>1. authID' = user /\ inits' = inits + 1 /\ named' = named \cup ({user} \ {Nil})
        /\ token' = token
    BY <1>3 DEF NewSMSActivate
  <2>2. CASE InitFails(user, complete)
    BY <1>1, <2>1, <2>2, RentAssumption DEF ConfigTypes, InitFails, Post
  <2>3. CASE InitThrows(user, complete)
    BY <1>1, <2>1, <2>3, RentAssumption DEF ConfigTypes, InitThrows
  <2>4. CASE InitSucceeds(user, complete)
    BY <1>1, <2>1, <2>4, RentAssumption DEF ConfigTypes, InitSucceeds, Capture, Post, Accepts
  <2>5. CASE InitLogsIn(user, complete)
    BY <1>1, <2>1, <2>5, RentAssumption DEF ConfigTypes, InitLogsIn, Capture, Accepts
  <2> QED
    BY <1>3, <2>2, <2>3, <2>4, <2>5 DEF NewSMSActivate
<1>4. CASE UseFailedObject
  BY <1>1, <1>4 DEF ConfigTypes, UseFailedObject, Capture
<1>5. CASE GetRentData
  BY <1>1, <1>5 DEF ConfigTypes, GetRentData, configVars
<1>6. ASSUME NEW r \in Slots, LoginSucceeded(r)
      PROVE  ConfigTypes'
  <2>1. web[r].result \in Users \cup {Nil}
    BY <1>1 DEF WebTypes, Request
  <2> QED
    BY <1>1, <1>6, <2>1 DEF ConfigTypes, LoginSucceeded, StoredToken, Post
<1>7. ASSUME NEW r \in Slots, LoginFailed(r)
      PROVE  ConfigTypes'
  BY <1>1, <1>7 DEF ConfigTypes, LoginFailed, Post
<1>8. CASE Restart
  BY <1>1, <1>8 DEF ConfigTypes, Restart, NothingPosted
<1>9. CASE DataTraps
  BY <1>1, <1>9 DEF ConfigTypes, DataTraps, ClosureTraps, configVars
<1> QED
  BY <1>2, <1>3, <1>4, <1>5, <1>6, <1>7, <1>8, <1>9, ConfigFrame

LEMMA ListedTyped ==
    ASSUME NEW s \in RentServices
    PROVE  CountriesListed(s) \in SUBSET RentCountries
<1>1. SupportedCountries[s] \in (SUBSET RentCountries) \cup {Nil}
  BY RentAssumption
<1> QED
  BY <1>1 DEF CountriesListed

LEMMA CatalogueTyped ==
    ASSUME TypedInv, RentNext
    PROVE  CatalogueTypes'
<1>1. CatalogueTypes
  BY TypeParts
<1>2. CASE UNCHANGED <<catalogueVars, selectionVars>>
  BY <1>1, <1>2 DEF CatalogueTypes, catalogueVars, selectionVars
<1>3. CASE GetRentData
  <2>1. selectedService \in RentServices =>
            countriesForServices[selectedService] \in (SUBSET RentCountries) \cup {Nil}
    BY <1>1 DEF CatalogueTypes
  <2> QED
    BY <1>1, <1>3, <2>1 DEF CatalogueTypes, GetRentData, selectionVars
<1>4. CASE SelectRent
  BY <1>1, <1>4 DEF CatalogueTypes, SelectRent, SelectService, SelectCountry, UnselectService,
                    UnselectCountry, catalogueVars
<1>5. ASSUME NEW r \in Slots, ServicesAnswered(r)
      PROVE  CatalogueTypes'
  <2>1. CASE web[r].answer = "ok"
    <3>1. services' \in Seq(RentServices)
      <4>1. services \in Seq(RentServices) /\ Catalogue \in Seq(RentServices)
        BY <1>1, RentAssumption DEF CatalogueTypes
      <4>2. services \o Catalogue \in Seq(RentServices)
        BY <4>1, ConcatProperties
      <4>3. services' = services \o Catalogue
        BY <1>5, <2>1 DEF ServicesAnswered
      <4> QED
        BY <4>2, <4>3
    <3>2. countries' \subseteq RentCountries
      <4>1. Catalogue # <<>> => Catalogue[Len(Catalogue)] \in RentServices
        BY RentAssumption, EmptySeq, LenProperties, ElementOfSeq
      <4>2. Catalogue # <<>> => CountriesListed(Catalogue[Len(Catalogue)]) \subseteq RentCountries
        BY <4>1, ListedTyped
      <4>3. countries' = IF Catalogue = <<>> THEN countries
                         ELSE CountriesListed(Catalogue[Len(Catalogue)])
        BY <1>5, <2>1 DEF ServicesAnswered
      <4>4. countries \subseteq RentCountries
        BY <1>1 DEF CatalogueTypes
      <4> QED
        BY <4>2, <4>3, <4>4, Zenon
    <3>3. \A s \in RentServices : EntryOf(s) \in (SUBSET RentCountries) \cup {Nil}
      BY <1>1, ListedTyped DEF CatalogueTypes, EntryOf
    <3> QED
      BY <1>1, <1>5, <2>1, <3>1, <3>2, <3>3
         DEF CatalogueTypes, ServicesAnswered, selectionVars
  <2>2. CASE web[r].answer # "ok"
    BY <1>1, <1>5, <2>2 DEF CatalogueTypes, ServicesAnswered, catalogueVars, selectionVars
  <2> QED
    BY <2>1, <2>2
<1>6. CASE Restart
  <2>1. NoEntries \in [RentServices -> (SUBSET RentCountries) \cup {Nil}]
    BY DEF NoEntries
  <2>2. <<>> \in Seq(RentServices)
    OBVIOUS
  <2> QED
    BY <1>6, <2>1, <2>2 DEF CatalogueTypes, Restart
<1> QED
  BY <1>2, <1>3, <1>4, <1>5, <1>6, CatalogueFrame

LEMMA EntryTyped ==
    ASSUME NEW f \in [Users -> Nat], NEW u, NEW v, u \in Users => v \in Nat
    PROVE  [f EXCEPT ![u] = v] \in [Users -> Nat]
OBVIOUS

\* A sale is later than all earlier ones.
LEMMA SaleTyped ==
    ASSUME ServerTypes, NEW r \in Slots, NEW n \in Rents, WebTypes, ServeRent(r, n)
    PROVE  ServerTypes'
<1> DEFINE sold == Present(codes)
           c == Cardinality(sold)
           sale == [owner |-> web[r].token, status |-> "waiting", time |-> 1 + c]
<1>1. sold = Sold
  BY DEF Present, Sold
<1>2. codes \in Snapshot /\ IsFiniteSet(sold) /\ c \in Nat /\ sold \subseteq Rents
  BY PresentFinite DEF ServerTypes
<1>3. n \notin sold /\ codes' = [codes EXCEPT ![n] = sale]
  BY <1>1 DEF ServeRent
<1>4. sale \in Code /\ sale.time = 1 + c /\ sale.status # "none"
  <2>1. web[r].token \in Users \cup {Nil}
    BY DEF WebTypes, Request
  <2> HIDE DEF c
  <2> QED
    BY <1>2, <2>1 DEF Code
<1>5. /\ codes' \in Snapshot /\ codes'[n] = sale
      /\ \A m \in Rents : m # n => codes'[m] = codes[m]
  <2> HIDE DEF sale
  <2> QED
    BY <1>2, <1>3, <1>4 DEF Snapshot
<1>6. Present(codes') = sold \cup {n}
  <2> HIDE DEF sale
  <2> QED
    BY <1>2, <1>4, <1>5 DEF Present
<1>7. Cardinality(Present(codes')) = c + 1
  BY <1>2, <1>3, <1>6, FS_AddElement
<1>8. \A m \in sold : codes[m].time \in Nat /\ codes[m].time <= c
  BY <1>2 DEF ServerTypes, Snapshot, Code
<1>9. \A m \in Present(codes') : codes'[m].time <= Cardinality(Present(codes'))
  <2> SUFFICES ASSUME NEW m \in Present(codes')
               PROVE  codes'[m].time <= Cardinality(Present(codes'))
    OBVIOUS
  <2> HIDE DEF c, sale
  <2>1. CASE m = n
    BY <2>1, <1>2, <1>4, <1>5, <1>7
  <2>2. CASE m # n
    <3>1. m \in sold /\ m \in Rents
      BY <1>2, <1>6, <2>2
    <3> QED
      BY <2>2, <3>1, <1>2, <1>5, <1>7, <1>8
  <2> QED
    BY <2>1, <2>2
<1>10. DistinctTimes(codes')
  <2> SUFFICES ASSUME NEW m \in sold \cup {n}, NEW k \in sold \cup {n}, m # k
               PROVE  codes'[m].time # codes'[k].time
    BY <1>6 DEF DistinctTimes
  <2>1. \A j \in sold : j # n /\ codes'[j] = codes[j] /\ codes'[j].time # codes'[n].time
    <3> SUFFICES ASSUME NEW j \in sold
                 PROVE  j # n /\ codes'[j] = codes[j] /\ codes'[j].time # codes'[n].time
      OBVIOUS
    <3>1. j # n /\ codes'[j] = codes[j] /\ codes'[n].time = 1 + c
      BY <1>2, <1>3, <1>4, <1>5
    <3> HIDE DEF c
    <3> QED
      BY <3>1, <1>2, <1>8
  <2>2. m \in sold /\ k \in sold => codes[m].time # codes[k].time
    BY DEF ServerTypes, DistinctTimes
  <2> HIDE DEF sold
  <2> QED
    BY <2>1, <2>2
<1>11. balances' \in [Users -> Nat]
  <2> DEFINE tok == web[r].token
  <2>1. balances \in [Users -> Nat]
    BY DEF ServerTypes
  <2>2. balances[tok] > 0 /\ balances' = [balances EXCEPT ![tok] = @ - 1]
    BY DEF ServeRent
  <2>3. tok \in Users => balances[tok] - 1 \in Nat
    BY <2>1, <2>2
  <2> HIDE DEF tok
  <2> QED
    BY <2>1, <2>2, <2>3, EntryTyped
<1> QED
  BY <1>5, <1>9, <1>10, <1>11 DEF ServerTypes

\* A code changes its status, and is still sold.
LEMMA StatusTyped ==
    ASSUME ServerTypes, NEW n, n \in Rents => codes[n].status = "waiting",
           NEW status \in {"completed", "cancelled"},
           codes' = [codes EXCEPT ![n].status = status]
    PROVE  /\ codes' \in Snapshot /\ DistinctTimes(codes')
           /\ \A m \in Present(codes') : codes'[m].time <= Cardinality(Present(codes'))
           /\ \A m \in Rents : /\ codes'[m].owner = codes[m].owner
                               /\ codes'[m].status = "none" <=> codes[m].status = "none"
<1>1. codes \in Snapshot
  BY DEF ServerTypes
<1>2. \A m \in Rents : codes[m] \in Code
  BY <1>1 DEF Snapshot
<1>3. \A m \in Rents : codes'[m] = IF m = n THEN [codes[m] EXCEPT !.status = status] ELSE codes[m]
  BY <1>1 DEF Snapshot
<1>4. \A m \in Rents : /\ codes'[m] \in Code /\ codes'[m].owner = codes[m].owner
                       /\ codes'[m].time = codes[m].time
                       /\ codes'[m].status = "none" <=> codes[m].status = "none"
  BY <1>2, <1>3 DEF Code
<1>5. codes' \in Snapshot
  <2>1. DOMAIN codes' = Rents /\ codes' = [m \in Rents |-> codes'[m]]
    BY <1>1 DEF Snapshot
  <2> QED
    BY <2>1, <1>4 DEF Snapshot
<1>6. Present(codes') = Present(codes)
  BY <1>4 DEF Present
<1>7. Present(codes) \subseteq Rents
  BY DEF Present
<1>8. DistinctTimes(codes')
  BY <1>4, <1>6, <1>7 DEF ServerTypes, DistinctTimes
<1>9. \A m \in Present(codes') : codes'[m].time <= Cardinality(Present(codes'))
  <2>1. \A m \in Present(codes) : codes[m].time <= Cardinality(Present(codes))
    BY DEF ServerTypes
  <2> QED
    BY <2>1, <1>4, <1>6, <1>7
<1> QED
  BY <1>4, <1>5, <1>8, <1>9

LEMMA ServerTyped ==
    ASSUME TypedInv, RentNext
    PROVE  ServerTypes'
<1>1. ServerTypes /\ WebTypes
  BY TypeParts
<1>2. CASE UNCHANGED serverVars
  BY <1>1, <1>2 DEF ServerTypes, serverVars, DistinctTimes, Present
<1>3. ASSUME NEW r \in Slots, NEW n \in Rents, ServeRent(r, n)
      PROVE  ServerTypes'
  BY <1>1, <1>3, SaleTyped
<1>4. ASSUME NEW r \in Slots, ServeCancel(r)
      PROVE  ServerTypes'
  <2>1. /\ codes[web[r].rent].status = "waiting"
        /\ codes' = [codes EXCEPT ![web[r].rent].status = "cancelled"]
    BY <1>4 DEF ServeCancel
  <2>2. balances' \in [Users -> Nat]
    <3> DEFINE tok == web[r].token
    <3>1. balances \in [Users -> Nat]
      BY <1>1 DEF ServerTypes
    <3>2. balances' = [balances EXCEPT ![tok] = @ + 1]
      BY <1>4 DEF ServeCancel
    <3>3. tok \in Users => balances[tok] + 1 \in Nat
      BY <3>1
    <3> HIDE DEF tok
    <3> QED
      BY <3>1, <3>2, <3>3, EntryTyped
  <2> QED
    BY <1>1, <2>1, <2>2, StatusTyped DEF ServerTypes
<1>5. ASSUME NEW r \in Slots, ServePurchase(r)
      PROVE  ServerTypes'
  <2>1. web[r].quantity \in Nat
    <3>1. web[r].quantity \in Quantities \cup {0}
      BY <1>1 DEF WebTypes, Request
    <3>2. \A q \in Quantities : q \in Nat
      BY RentAssumption, Zenon
    <3>3. 0 \in Nat
      OBVIOUS
    <3> QED
      BY <3>1, <3>2, <3>3, Zenon
  <2>2. codes' = codes /\ balances' = [balances EXCEPT ![web[r].token] = @ + web[r].quantity]
    BY <1>5 DEF ServePurchase
  <2>3. balances' \in [Users -> Nat]
    <3> DEFINE tok == web[r].token
               quantity == web[r].quantity
    <3>1. balances \in [Users -> Nat] /\ quantity \in Nat
      BY <1>1, <2>1 DEF ServerTypes
    <3>2. balances' = [balances EXCEPT ![tok] = @ + quantity]
      BY <2>2
    <3> HIDE DEF tok, quantity
    <3>3. tok \in Users => balances[tok] + quantity \in Nat
      BY <3>1
    <3> QED
      BY <3>1, <3>2, <3>3, EntryTyped
  <2> QED
    BY <1>1, <2>2, <2>3 DEF ServerTypes, DistinctTimes, Present
<1>6. ASSUME NEW n \in Rents, CodeArrives(n)
      PROVE  ServerTypes'
  <2>1. /\ codes[n].status = "waiting" /\ codes' = [codes EXCEPT ![n].status = "completed"]
        /\ balances' = balances
    BY <1>6 DEF CodeArrives
  <2> QED
    BY <1>1, <2>1, StatusTyped DEF ServerTypes
<1> QED
  BY <1>2, <1>3, <1>4, <1>5, <1>6, ServerFrame

LEMMA ObservedTyped ==
    ASSUME ServerTypes
    PROVE  Observed \in Snapshot /\ DistinctTimes(Observed)
<1>1. codes \in Snapshot /\ DistinctTimes(codes)
  BY DEF ServerTypes
<1>2. NoCode \in Code /\ NoCode.status = "none"
  BY DEF NoCode, Code
<1>3. \A n \in Rents : Observed[n] = codes[n] \/ Observed[n] = NoCode
  BY DEF Observed
<1>4. Observed \in Snapshot
  BY <1>1, <1>2 DEF Observed, Snapshot
<1>5. \A n \in Present(Observed) : n \in Present(codes) /\ Observed[n] = codes[n]
  BY <1>2, <1>3 DEF Present
<1> QED
  BY <1>1, <1>4, <1>5 DEF DistinctTimes

LEMMA NoCodesTyped == NoCodes \in Snapshot /\ DistinctTimes(NoCodes) /\ Present(NoCodes) = {}
BY DEF NoCodes, NoCode, Snapshot, Code, DistinctTimes, Present

\* The events of a change come after those that wait, and are all the same.
LEMMA CopiesFollow ==
    ASSUME NEW S, NEW es \in Seq(S), NEW e \in S, NEW k \in Nat
    PROVE  /\ es \o Copies(e, k) \in Seq(S)
           /\ Len(es \o Copies(e, k)) = Len(es) + k
           /\ \A i \in DOMAIN (es \o Copies(e, k)) :
                 \/ i \in DOMAIN es /\ (es \o Copies(e, k))[i] = es[i]
                 \/ (es \o Copies(e, k))[i] = e
           /\ k > 0 => (es \o Copies(e, k))[Len(es) + k] = e
<1> DEFINE cs == Copies(e, k)
           n == Len(es)
           all == es \o cs
<1>1. cs \in Seq(S) /\ Len(cs) = k /\ \A i \in 1 .. k : cs[i] = e
  BY DEF Copies
<1>2. n \in Nat /\ DOMAIN es = 1 .. n
  BY LenProperties
<1> HIDE DEF cs, n
<1>3. all \in Seq(S) /\ Len(all) = n + k
  BY <1>1, <1>2, ConcatProperties DEF n
<1>4. \A i \in 1 .. n + k : all[i] = IF i <= n THEN es[i] ELSE cs[i - n]
  BY <1>1, <1>2, ConcatProperties DEF n
<1>5. DOMAIN all = 1 .. n + k
  BY <1>3, LenProperties
<1> HIDE DEF all
<1>6. \A i \in 1 .. n + k : (i \in DOMAIN es /\ all[i] = es[i]) \/ all[i] = e
  <2> SUFFICES ASSUME NEW i \in 1 .. n + k
               PROVE  (i \in DOMAIN es /\ all[i] = es[i]) \/ all[i] = e
    OBVIOUS
  <2>1. CASE i <= n
    BY <2>1, <1>2, <1>4
  <2>2. CASE ~(i <= n)
    <3>1. i - n \in 1 .. k
      BY <2>2, <1>2
    <3> QED
      BY <3>1, <2>2, <1>1, <1>4
  <2> QED
    BY <2>1, <2>2
<1>7. k > 0 => all[n + k] = e
  <2> SUFFICES ASSUME k > 0 PROVE all[n + k] = e
    OBVIOUS
  <2>1. n + k \in 1 .. n + k /\ ~(n + k <= n) /\ (n + k) - n = k /\ k \in 1 .. k
    BY <1>2
  <2> QED
    BY <2>1, <1>1, <1>4
<1> QED
  BY <1>3, <1>5, <1>6, <1>7 DEF all, cs, n

\* The order of the sales is strict, so no rent of a snapshot has two places.
LEMMA ListedOnce ==
    ASSUME NEW snapshot \in Snapshot, DistinctTimes(snapshot)
    PROVE  \A i, j \in DOMAIN NewestFirst(snapshot) :
               NewestFirst(snapshot)[i].rent = NewestFirst(snapshot)[j].rent => i = j
<1> DEFINE list == NewestFirst(snapshot)
           time(i) == snapshot[list[i].rent].time
<1>1. \A i, j \in DOMAIN list : i < j => time(i) > time(j)
  BY NewestFirstSorts
<1>2. \A i \in DOMAIN list : i \in Nat /\ time(i) \in Nat
  <2>1. \A i \in DOMAIN list : list[i].rent \in Rents /\ i \in 1 .. Cardinality(Present(snapshot))
    BY NewestFirstLists DEF Present
  <2>2. \A n \in Rents : snapshot[n].time \in Nat
    BY DEF Snapshot, Code
  <2> HIDE DEF list
  <2> QED
    BY <2>1, <2>2, PresentFinite
<1>3. \A i, j \in DOMAIN list : list[i].rent = list[j].rent => time(i) = time(j)
  OBVIOUS
<1> HIDE DEF list, time
<1>4. \A i, j \in DOMAIN list : time(i) = time(j) => i = j
  BY <1>1, <1>2
<1> QED
  BY <1>3, <1>4 DEF list

LEMMA ListTyped ==
    ASSUME TypedInv, RentNext
    PROVE  ListTypes'
<1>1. ListTypes /\ ServerTypes
  BY TypeParts
<1>2. CASE UNCHANGED listVars
  BY <1>1, <1>2 DEF ListTypes, listVars, DistinctTimes, Present
<1>3. ASSUME NEW r \in Slots, LoginSucceeded(r)
      PROVE  ListTypes'
  BY <1>1, <1>3 DEF ListTypes, LoginSucceeded, DistinctTimes, Present
<1>4. CASE CachedEvent
  <2>1. /\ events' = Append(events, synced) /\ synced' = synced
        /\ userRentNumbers' = userRentNumbers
        /\ observers' = observers + 1 /\ newObservers' = newObservers - 1 /\ newObservers > 0
    BY <1>4 DEF CachedEvent
  <2>2. events' \in Seq(Snapshot)
    BY <1>1, <2>1, AppendProperties DEF ListTypes
  <2>3. \A i \in DOMAIN events' : DistinctTimes(events'[i])
    <3>1. /\ DOMAIN events = 1 .. Len(events) /\ Len(events) \in Nat
          /\ DOMAIN events' = 1 .. Len(events) + 1
          /\ \A i \in 1 .. Len(events) : events'[i] = events[i]
          /\ events'[Len(events) + 1] = synced
      BY <1>1, <2>1, AppendProperties, LenProperties DEF ListTypes
    <3>2. \A i \in 1 .. Len(events) + 1 : i \in 1 .. Len(events) \/ i = Len(events) + 1
      BY <3>1
    <3> QED
      BY <1>1, <3>1, <3>2 DEF ListTypes
  <2>4. DistinctTimes(synced')
    BY <1>1, <2>1 DEF ListTypes
  <2> QED
    BY <1>1, <2>1, <2>2, <2>3, <2>4 DEF ListTypes
<1>5. CASE SnapshotArrives
  <2>1. /\ events' = events \o Copies(Observed, observers + newObservers)
        /\ synced' = Observed /\ userRentNumbers' = userRentNumbers
        /\ observers' = observers + newObservers /\ newObservers' = 0
    BY <1>5 DEF SnapshotArrives
  <2>2. Observed \in Snapshot /\ DistinctTimes(Observed)
    BY <1>1, ObservedTyped
  <2>3. observers + newObservers \in Nat
    BY <1>1 DEF ListTypes
  <2>4. /\ events' \in Seq(Snapshot)
        /\ \A i \in DOMAIN events' :
              (i \in DOMAIN events /\ events'[i] = events[i]) \/ events'[i] = Observed
    BY <1>1, <2>1, <2>2, <2>3, CopiesFollow DEF ListTypes
  <2>5. \A i \in DOMAIN events' : DistinctTimes(events'[i])
    BY <1>1, <2>2, <2>4 DEF ListTypes
  <2>6. DistinctTimes(synced') /\ synced' \in Snapshot
    BY <2>1, <2>2
  <2> QED
    BY <1>1, <2>1, <2>3, <2>4, <2>5, <2>6 DEF ListTypes
<1>6. CASE RentsFetched
  <2>1. /\ events # <<>> /\ events' = Tail(events) /\ userRentNumbers' = NewestFirst(Head(events))
        /\ observers' = observers /\ newObservers' = newObservers /\ synced' = synced
    BY <1>6 DEF RentsFetched, Listed
  <2>2. /\ Head(events) \in Snapshot /\ DistinctTimes(Head(events))
        /\ events' \in Seq(Snapshot)
        /\ \A i \in DOMAIN events' : i + 1 \in DOMAIN events /\ events'[i] = events[i + 1]
    <3>1. Head(events) = events[1] /\ 1 \in DOMAIN events
      BY <1>1, <2>1, EmptySeq, LenProperties DEF ListTypes
    <3>2. /\ Head(events) \in Snapshot /\ Tail(events) \in Seq(Snapshot)
          /\ Len(Tail(events)) = Len(events) - 1
          /\ \A i \in 1 .. Len(Tail(events)) : Tail(events)[i] = events[i + 1]
      BY <1>1, <2>1, HeadTailProperties DEF ListTypes
    <3>3. DOMAIN Tail(events) = 1 .. Len(events) - 1 /\ DOMAIN events = 1 .. Len(events)
          /\ Len(events) \in Nat
      BY <1>1, <3>2, LenProperties DEF ListTypes
    <3> QED
      BY <1>1, <2>1, <3>1, <3>2, <3>3 DEF ListTypes
  <2>3. \A i \in DOMAIN userRentNumbers' : userRentNumbers'[i].rent \in Rents
    BY <2>1, <2>2, NewestFirstLists DEF Present
  <2>6. \A i, j \in DOMAIN userRentNumbers' :
            userRentNumbers'[i].rent = userRentNumbers'[j].rent => i = j
    BY <2>1, <2>2, ListedOnce
  <2>4. \A i \in DOMAIN events' : DistinctTimes(events'[i])
    BY <1>1, <2>2 DEF ListTypes
  <2>5. DistinctTimes(synced')
    BY <1>1, <2>1 DEF ListTypes
  <2> QED
    BY <1>1, <2>1, <2>2, <2>3, <2>4, <2>5, <2>6 DEF ListTypes
<1>7. CASE Restart
  <2>1. /\ userRentNumbers' = <<>> /\ events' = <<>> /\ synced' = NoCodes
        /\ observers' = 0 /\ newObservers' = 0
    BY <1>7 DEF Restart
  <2>2. DistinctTimes(synced') /\ synced' \in Snapshot
    BY <2>1, NoCodesTyped
  <2> QED
    BY <2>1, <2>2 DEF ListTypes
<1> QED
  BY <1>2, <1>3, <1>4, <1>5, <1>6, <1>7, ListFrame

\* An answer of the service, and what it says.
Response(r, response) ==
    /\ Respond(r, response)
    /\ web[r].call # "idle"
    /\ response \in Request
    /\ response.call = web[r].call
    /\ response.user = web[r].user
    /\ response.token = web[r].token
    /\ response.answer \in {"ok", "failed"}
    /\ web[r].call = "login" /\ response.answer = "ok" => response.result \in {web[r].user, Nil}
    /\ web[r].call = "balance" /\ response.answer = "ok" =>
          web[r].token # Nil /\ response.balance = balances[web[r].token]
    /\ balances' # balances => web[r].call \in HostRequests /\ response.answer = "ok"

LEMMA ServeResponds ==
    ASSUME TypedInv, NEW r \in Slots, Serve(r)
    PROVE  \E response : Response(r, response)
<1> DEFINE request == web[r]
<1>1. request \in Request /\ balances \in [Users -> Nat]
  BY TypeParts DEF WebTypes, ServerTypes
<1>2. request.token \in Users \cup {Nil} /\ request.user \in Users \cup {Nil}
  BY <1>1 DEF Request
<1>3. /\ Ok(r) \in Request /\ Ok(r).call = request.call /\ Ok(r).user = request.user
      /\ Ok(r).token = request.token /\ Ok(r).answer = "ok"
  <2> HIDE DEF request
  <2> QED
    BY <1>1 DEF Ok, Request, request
<1>4. CASE Refuse(r)
  <2> DEFINE response == [request EXCEPT !.answer = "failed"]
  <2>1. /\ response \in Request /\ response.call = request.call /\ response.user = request.user
        /\ response.token = request.token /\ response.answer = "failed"
    <3> HIDE DEF request
    <3> QED
      BY <1>1 DEF Request
  <2>2. Respond(r, response) /\ request.call # "idle" /\ balances' = balances
    BY <1>4 DEF Refuse, serverVars
  <2>3. Response(r, response)
    <3> HIDE DEF response
    <3> QED
      BY <2>1, <2>2 DEF Response
  <2> QED
    BY <2>3
<1>5. CASE ServeLogin(r)
  <2>1. PICK result \in {request.user, Nil} :
             Respond(r, [Ok(r) EXCEPT !.result = result])
    BY <1>5 DEF ServeLogin
  <2> DEFINE response == [Ok(r) EXCEPT !.result = result]
  <2>2. /\ response \in Request /\ response.call = request.call /\ response.user = request.user
        /\ response.token = request.token /\ response.answer = "ok" /\ response.result = result
    <3> DEFINE ok == Ok(r)
    <3>1. ok \in Request /\ result \in Users \cup {Nil}
      BY <1>2, <1>3
    <3>2. /\ ok.call = request.call /\ ok.user = request.user /\ ok.token = request.token
          /\ ok.answer = "ok" /\ response = [ok EXCEPT !.result = result]
      BY <1>3
    <3> HIDE DEF request, ok, response
    <3> QED
      BY <3>1, <3>2 DEF Request
  <2>3. Respond(r, response) /\ request.call = "login" /\ balances' = balances
    BY <1>5, <2>1 DEF ServeLogin, serverVars
  <2>4. Response(r, response)
    <3> HIDE DEF response
    <3> QED
      BY <2>2, <2>3 DEF Response
  <2> QED
    BY <2>4
<1>6. CASE ServeServices(r)
  <2>1. Respond(r, Ok(r)) /\ request.call = "services" /\ balances' = balances
    BY <1>6 DEF ServeServices, serverVars
  <2> QED
    BY <1>3, <2>1 DEF Response
<1>7. CASE ServeBalance(r)
  <2> DEFINE response == [Ok(r) EXCEPT !.balance = balances[request.token]]
  <2>1. /\ Respond(r, response) /\ request.call = "balance" /\ request.token # Nil
        /\ balances' = balances
    BY <1>7 DEF ServeBalance, serverVars
  <2>2. balances[request.token] \in Int
    BY <1>1, <1>2, <2>1
  <2>3. /\ response \in Request /\ response.call = request.call /\ response.user = request.user
        /\ response.token = request.token /\ response.answer = "ok"
        /\ response.balance = balances[request.token]
    <3> HIDE DEF request
    <3> QED
      BY <1>3, <2>2 DEF Request
  <2>4. Response(r, response)
    <3> HIDE DEF response
    <3> QED
      BY <2>1, <2>3 DEF Response
  <2> QED
    BY <2>4
<1>8. ASSUME NEW n \in Rents, ServeRent(r, n)
      PROVE  Response(r, Ok(r))
  <2>1. Respond(r, Ok(r)) /\ request.call = "rent"
    BY <1>8 DEF ServeRent
  <2> QED
    BY <1>3, <2>1 DEF Response, HostRequests
<1>9. CASE ServeCancel(r)
  <2>1. Respond(r, Ok(r)) /\ request.call = "cancel"
    BY <1>9 DEF ServeCancel
  <2> QED
    BY <1>3, <2>1 DEF Response, HostRequests
<1>10. CASE ServePurchase(r)
  <2>1. Respond(r, Ok(r)) /\ request.call = "savePurchase"
    BY <1>10 DEF ServePurchase
  <2> QED
    BY <1>3, <2>1 DEF Response, HostRequests
<1> QED
  BY <1>4, <1>5, <1>6, <1>7, <1>8, <1>9, <1>10 DEF Serve

\* A request of the host.
LEMMA HostRequestSent ==
    ASSUME TypedInv,
           \/ RentNumber
           \/ \E n \in Rents : CancelRent(n)
           \/ \E quantity \in Quantities : SavePurchase(quantity)
    PROVE  \E request \in Request :
              request.call \in HostRequests /\ request.answer = "pending" /\ HostSends(request)
<1>1. token \in Users \cup {Nil}
  BY TypeParts DEF ConfigTypes
<1>2. ASSUME NEW call \in HostRequests
      PROVE  /\ call \in Calls
             /\ Authorized(call, token) \in Request
             /\ Authorized(call, token).call = call /\ Authorized(call, token).answer = "pending"
  <2>1. call \in Calls
    BY DEF HostRequests, Calls
  <2>2. Authorized(call, token) \in Request
    BY <1>1, <2>1, RequestTypes, Zenon
  <2>3. Authorized(call, token).call = call /\ Authorized(call, token).answer = "pending"
    BY DEF Authorized, Idle
  <2> QED
    BY <2>1, <2>2, <2>3
<1>3. CASE RentNumber
  BY <1>2, <1>3 DEF RentNumber, HostRequests
<1>4. ASSUME NEW n \in Rents, CancelRent(n)
      PROVE  \E request \in Request :
                request.call \in HostRequests /\ request.answer = "pending" /\ HostSends(request)
  <2> DEFINE plain == Authorized("cancel", token)
             request == [plain EXCEPT !.rent = n]
  <2>1. plain \in Request /\ plain.call = "cancel" /\ plain.answer = "pending"
    BY <1>2 DEF HostRequests
  <2>2. HostSends(request)
    BY <1>4 DEF CancelRent
  <2> HIDE DEF plain
  <2>3. request \in Request /\ request.call = "cancel" /\ request.answer = "pending"
    BY <2>1 DEF Request
  <2> HIDE DEF request
  <2> QED
    BY <2>2, <2>3 DEF HostRequests
<1>5. ASSUME NEW quantity \in Quantities, SavePurchase(quantity)
      PROVE  \E request \in Request :
                request.call \in HostRequests /\ request.answer = "pending" /\ HostSends(request)
  <2> DEFINE plain == Authorized("savePurchase", token)
             request == [plain EXCEPT !.quantity = quantity]
  <2>1. plain \in Request /\ plain.call = "savePurchase" /\ plain.answer = "pending"
    BY <1>2 DEF HostRequests
  <2>2. HostSends(request)
    BY <1>5 DEF SavePurchase
  <2> HIDE DEF plain
  <2>3. request \in Request /\ request.call = "savePurchase" /\ request.answer = "pending"
    BY <2>1 DEF Request
  <2> HIDE DEF request
  <2> QED
    BY <2>2, <2>3 DEF HostRequests
<1> QED
  BY <1>3, <1>4, <1>5

LEMMA CacheFrame ==
    ASSUME RentNext
    PROVE  \/ UNCHANGED <<userRentBalance, missed>>
           \/ \E r \in Slots : \/ LoginSucceeded(r) \/ HostCallSucceeded(r)
                               \/ BalanceAnswered(r) \/ LoseAnswer(r)
           \/ Restart
<1>1. CASE \E user \in Users \cup {Nil}, complete, isRentActive \in BOOLEAN :
              NewSMSActivate(user, complete, isRentActive)
  BY <1>1 DEF NewSMSActivate
<1>2. CASE UseFailedObject
  BY <1>2 DEF UseFailedObject
<1>3. CASE GetRentData
  BY <1>3 DEF GetRentData
<1>4. CASE SelectRent
  BY <1>4 DEF SelectRent
<1>5. CASE \/ RentNumber
           \/ \E n \in Rents : CancelRent(n)
           \/ \E quantity \in Quantities : SavePurchase(quantity)
  BY <1>5, HostSendsKeeps
<1>6. CASE \E n \in Rents : CodeArrives(n)
  BY <1>6 DEF CodeArrives
<1>7. CASE \E r \in Slots : Closure(r)
  BY <1>7 DEF Closure, ServicesTrap, ClosureTraps, LoginFailed, ServicesAnswered, HostCallFailed
<1>8. CASE \E r \in Slots : Serve(r)
  BY <1>8, ServeKeeps
<1>9. CASE \E r \in Slots : LoseAnswer(r)
  BY <1>9
<1>10. CASE Database
  BY <1>10, DatabaseKeeps
<1>11. CASE Restart
  BY <1>11
<1> QED
  BY StepKinds, <1>1, <1>2, <1>3, <1>4, <1>5, <1>6, <1>7, <1>8, <1>9, <1>10, <1>11, Zenon

LEMMA CacheTyped ==
    ASSUME TypedInv, RentNext
    PROVE  CacheTypes'
<1>1. CacheTypes /\ WebTypes
  BY TypeParts
<1>2. CASE UNCHANGED <<userRentBalance, missed>>
  BY <1>1, <1>2 DEF CacheTypes
<1>3. ASSUME NEW r \in Slots, LoginSucceeded(r) \/ HostCallSucceeded(r)
      PROVE  CacheTypes'
  BY <1>1, <1>3 DEF CacheTypes, LoginSucceeded, HostCallSucceeded, FetchUserBalance
<1>4. ASSUME NEW r \in Slots, BalanceAnswered(r)
      PROVE  CacheTypes'
  <2>1. web[r].balance \in Int
    BY <1>1 DEF WebTypes, Request
  <2>2. userRentBalance' \in Int
    BY <1>1, <1>4, <2>1 DEF CacheTypes, BalanceAnswered
  <2>3. missed' \in BOOLEAN
    BY <1>1, <1>4 DEF CacheTypes, BalanceAnswered
  <2> QED
    BY <2>2, <2>3 DEF CacheTypes
<1>5. ASSUME NEW r \in Slots, LoseAnswer(r)
      PROVE  CacheTypes'
  BY <1>1, <1>5 DEF CacheTypes, LoseAnswer
<1>6. CASE Restart
  BY <1>1, <1>6 DEF CacheTypes, Restart
<1> QED
  BY <1>2, <1>3, <1>4, <1>5, <1>6, CacheFrame

LEMMA ForgetTyped ==
    ASSUME WebTypes, NEW r, Forget(r)
    PROVE  answeredBefore' \in [Slots -> SUBSET Slots]
BY DEF WebTypes, Forget

LEMMA SlotTyped ==
    ASSUME WebTypes, NEW r \in Slots, NEW request \in Request,
           web' = [web EXCEPT ![r] = request]
    PROVE  /\ web' \in [Slots -> Request]
           /\ web'[r] = request /\ \A q \in Slots : q # r => web'[q] = web[q]
BY DEF WebTypes

LEMMA ReleaseTyped ==
    ASSUME WebTypes, NEW r \in Slots, Release(r)
    PROVE  WebTypes'
<1>1. web' = [web EXCEPT ![r] = Idle] /\ Forget(r) /\ Idle \in Request
  BY RequestTypes DEF Release
<1> QED
  BY <1>1, SlotTyped, ForgetTyped DEF WebTypes

LEMMA WebTyped ==
    ASSUME TypedInv, RentNext
    PROVE  WebTypes'
<1>1. WebTypes /\ ConfigTypes
  BY TypeParts
<1>2. CASE UNCHANGED webVars
  BY <1>1, <1>2 DEF WebTypes, webVars
<1>3. ASSUME NEW user \in Users \cup {Nil}, NEW complete \in BOOLEAN,
             InitLogsIn(user, complete)
      PROVE  WebTypes'
  <2>1. PICK r \in Free : web' = [web EXCEPT ![r] = LoginRequest(user)]
    BY <1>3 DEF InitLogsIn
  <2>2. r \in Slots /\ user \in Users /\ answeredBefore' = answeredBefore
    BY <1>3, <2>1 DEF InitLogsIn, Accepts, Free
  <2>3. LoginRequest(user) \in Request
    BY <2>2, RequestTypes
  <2> QED
    BY <1>1, <2>1, <2>2, <2>3, SlotTyped DEF WebTypes
<1>4. ASSUME NEW request \in Request, HostSends(request)
      PROVE  WebTypes'
  <2>1. PICK r \in Slots : web' = [web EXCEPT ![r] = request]
    BY <1>4 DEF HostSends, Free
  <2>2. answeredBefore' = answeredBefore
    BY <1>4 DEF HostSends
  <2> QED
    BY <1>1, <2>1, <2>2, SlotTyped DEF WebTypes
<1>5. ASSUME NEW r \in Slots, LoginSucceeded(r)
      PROVE  WebTypes'
  <2>1. PICK q \in Slots : web' = [web EXCEPT ![r] = Authorized("services", token'),
                                              ![q] = Authorized("balance", token')]
    BY <1>5 DEF LoginSucceeded, Free
  <2>2. token' \in Users \cup {Nil}
    BY ConfigTyped DEF ConfigTypes
  <2>3. Authorized("services", token') \in Request /\ Authorized("balance", token') \in Request
    BY <2>2, RequestTypes DEF Calls
  <2>4. answeredBefore' \in [Slots -> SUBSET Slots]
    BY <1>1, <1>5, ForgetTyped DEF LoginSucceeded
  <2> QED
    BY <1>1, <2>1, <2>3, <2>4 DEF WebTypes
<1>6. ASSUME NEW r \in Slots,
             LoginFailed(r) \/ ServicesAnswered(r) \/ HostCallFailed(r) \/ BalanceAnswered(r)
      PROVE  WebTypes'
  <2>1. Release(r)
    BY <1>6 DEF LoginFailed, ServicesAnswered, HostCallFailed, BalanceAnswered
  <2> QED
    BY <1>1, <2>1, ReleaseTyped
<1>7. ASSUME NEW r \in Slots, HostCallSucceeded(r)
      PROVE  WebTypes'
  <2>1. web' = [web EXCEPT ![r] = Authorized("balance", token)] /\ Forget(r)
    BY <1>7 DEF HostCallSucceeded, FetchUserBalance
  <2>2. Authorized("balance", token) \in Request
    BY <1>1, RequestTypes DEF ConfigTypes, Calls
  <2> QED
    BY <1>1, <2>1, <2>2, SlotTyped, ForgetTyped DEF WebTypes
<1>8. ASSUME NEW r \in Slots, Serve(r)
      PROVE  WebTypes'
  <2>1. PICK response : Response(r, response)
    BY <1>8, ServeResponds
  <2>2. /\ response \in Request /\ web' = [web EXCEPT ![r] = response]
        /\ answeredBefore' = IF web[r].call = "balance"
                             THEN [answeredBefore EXCEPT ![r] = Fetched] ELSE answeredBefore
    BY <2>1 DEF Response, Respond
  <2>3. Fetched \in SUBSET Slots
    BY DEF Fetched
  <2>4. answeredBefore' \in [Slots -> SUBSET Slots]
    BY <1>1, <2>2, <2>3 DEF WebTypes
  <2> QED
    BY <1>1, <2>2, <2>4, SlotTyped DEF WebTypes
<1>9. ASSUME NEW r \in Slots, LoseAnswer(r)
      PROVE  WebTypes'
  <2>1. web' = [web EXCEPT ![r] = [web[r] EXCEPT !.answer = "failed"]]
        /\ answeredBefore' = answeredBefore
    BY <1>9 DEF LoseAnswer
  <2>2. [web[r] EXCEPT !.answer = "failed"] \in Request
    BY <1>1 DEF WebTypes, Request
  <2> QED
    BY <1>1, <2>1, <2>2, SlotTyped DEF WebTypes
<1>10. CASE Restart
  BY <1>10, RequestTypes DEF WebTypes, Restart, NoRequests
<1> QED
  <2>1. ASSUME NEW r \in Slots, Closure(r)
        PROVE  WebTypes'
    BY <2>1, <1>2, <1>5, <1>6, <1>7 DEF Closure, ServicesTrap, ClosureTraps
  <2>2. CASE \/ RentNumber
             \/ \E n \in Rents : CancelRent(n)
             \/ \E quantity \in Quantities : SavePurchase(quantity)
    BY <2>2, <1>4, HostRequestSent
  <2> QED
    BY <1>2, <1>3, <1>8, <1>9, <1>10, <2>1, <2>2, WebFrame

LEMMA TypesInitial == RentInit => TypedInv
<1> SUFFICES ASSUME RentInit PROVE TypedInv
  OBVIOUS
<1>1. ConfigTypes
  BY DEF RentInit, ConfigTypes, NothingPosted
<1>2. CatalogueTypes
  <2>1. <<>> \in Seq(RentServices)
    OBVIOUS
  <2> QED
    BY <2>1 DEF RentInit, CatalogueTypes, NoEntries
<1>3. ListTypes
  BY NoCodesTyped DEF RentInit, ListTypes
<1>4. WebTypes
  BY RequestTypes DEF RentInit, WebTypes, NoRequests
<1>5. CacheTypes
  BY DEF RentInit, CacheTypes
<1>6. balances \in [Users -> Nat]
  <2>1. MaxRentBalance \in Nat
    BY RentAssumption, Zenon
  <2> QED
    BY <2>1 DEF RentInit
<1>7. ServerTypes
  <2> DEFINE entries == [owner : Users, status : {"waiting"}, time : 1 .. Cardinality(Rents)]
             sold == {n \in Rents : codes[n] # NoCode}
  <2>1. /\ codes \in [Rents -> {NoCode} \cup entries]
        /\ \A n \in sold : codes[n].time <= Cardinality(sold)
        /\ \A n, m \in sold : n # m => codes[n].time # codes[m].time
    BY DEF RentInit, EarlierRents
  <2>2. Cardinality(Rents) \in Nat
    BY RentAssumption, FS_CardinalityType
  <2>3. NoCode \in Code /\ NoCode.status = "none"
    BY DEF NoCode, Code
  <2>4. \A c \in entries : c \in Code /\ c.status = "waiting"
    BY <2>2 DEF Code
  <2>5. codes \in Snapshot
    BY <2>1, <2>3, <2>4 DEF Snapshot
  <2>6. Present(codes) = sold
    BY <2>1, <2>3, <2>4 DEF Present
  <2> QED
    BY <1>6, <2>1, <2>5, <2>6 DEF ServerTypes, DistinctTimes
<1> QED
  BY <1>1, <1>2, <1>3, <1>4, <1>5, <1>7, TypeParts

LEMMA TypesStep ==
    ASSUME TypedInv, [RentNext]_rentVars
    PROVE  TypedInv'
<1>1. CASE RentNext
  BY <1>1, ConfigTyped, CatalogueTyped, ListTyped, ServerTyped, WebTyped, CacheTyped,
     TypePartsNext
<1>2. CASE UNCHANGED rentVars
  BY <1>2 DEF rentVars, configVars, catalogueVars, selectionVars, listVars, serverVars, webVars,
              TypedInv, RentTypeOK, TimesInv, DistinctTimes, Present
<1> QED
  BY <1>1, <1>2

LEMMA TypesHold == RentSpec => []TypedInv
BY TypesInitial, TypesStep, PTL DEF RentSpec

(***************************************************************************)
(* Every variable of the rent client keeps its type: among others, the     *)
(* scratch array countries holds countries only, and the list that         *)
(* fetchUserRent sorts holds rents of the snapshot, none of them twice.    *)
(***************************************************************************)
THEOREM RentTyped == RentSpec => []RentTypeOK
BY TypesHold, PTL DEF TypedInv

-----------------------------------------------------------------------------
(***************************************************************************)
(* The catalogue.  getCountries unwraps the selected service, which is set *)
(* together with its flag, and the entry of that service, which is there   *)
(* for every service that was ever listed.                                 *)
(***************************************************************************)
SelectionSet == isServiceSelected => selectedService # Nil

ListedHaveEntry == \A i \in DOMAIN services : countriesForServices[services[i]] # Nil

CatalogueInv == SelectionSet /\ ListedHaveEntry

LEMMA ServicesListed ==
    ASSUME TypedInv, ListedHaveEntry, NEW r \in Slots, ServicesAnswered(r)
    PROVE  ListedHaveEntry'
<1>1. /\ services \in Seq(RentServices) /\ Catalogue \in Seq(RentServices)
      /\ countriesForServices \in [RentServices -> (SUBSET RentCountries) \cup {Nil}]
  BY TypeParts, RentAssumption DEF CatalogueTypes
<1>2. \A i \in DOMAIN services : /\ services[i] \in RentServices
                                 /\ countriesForServices[services[i]] # Nil
  BY <1>1, ElementOfSeq DEF ListedHaveEntry
<1>3. CASE web[r].answer # "ok"
  BY <1>3 DEF ServicesAnswered, catalogueVars, ListedHaveEntry
<1>4. CASE web[r].answer = "ok"
  <2> DEFINE n == Len(services)
             m == Len(Catalogue)
             all == services \o Catalogue
  <2>1. /\ services' = all
        /\ countriesForServices' = [s \in RentServices |-> EntryOf(s)]
    BY <1>4 DEF ServicesAnswered
  <2>2. /\ n \in Nat /\ m \in Nat /\ DOMAIN services = 1 .. n /\ DOMAIN Catalogue = 1 .. m
        /\ DOMAIN all = 1 .. n + m
        /\ \A i \in 1 .. n + m : all[i] = IF i <= n THEN services[i] ELSE Catalogue[i - n]
    BY <1>1, LenProperties, ConcatProperties
  <2>3. \A s \in RentServices : CountriesListed(s) # Nil
    <3>1. \A C \in SUBSET RentCountries : C # Nil
      BY RentAssumption
    <3> QED
      BY <3>1, ListedTyped
  <2>4. \A s \in RentServices : InCatalogue(s) \/ countriesForServices[s] # Nil => EntryOf(s) # Nil
    BY <2>3 DEF EntryOf
  <2> HIDE DEF n, m, all
  <2>5. ASSUME NEW i \in 1 .. n + m
        PROVE  all[i] \in RentServices /\ EntryOf(all[i]) # Nil
    <3>1. CASE i <= n
      <4>1. i \in DOMAIN services /\ all[i] = services[i]
        BY <2>2, <3>1
      <4> QED
        BY <4>1, <1>2, <2>4
    <3>2. CASE ~(i <= n)
      <4>1. i - n \in DOMAIN Catalogue /\ all[i] = Catalogue[i - n]
        BY <2>2, <3>2
      <4>2. Catalogue[i - n] \in RentServices
        BY <4>1, <1>1, ElementOfSeq
      <4> QED
        BY <4>1, <4>2, <2>4 DEF InCatalogue
    <3> QED
      BY <3>1, <3>2
  <2> QED
    BY <2>1, <2>2, <2>5 DEF ListedHaveEntry
<1> QED
  BY <1>3, <1>4

LEMMA CatalogueStep ==
    ASSUME TypedInv, CatalogueInv, [RentNext]_rentVars
    PROVE  CatalogueInv'
<1>1. CASE UNCHANGED <<catalogueVars, selectionVars>>
  BY <1>1 DEF CatalogueInv, SelectionSet, ListedHaveEntry, catalogueVars, selectionVars
<1>2. CASE GetRentData
  BY <1>2 DEF CatalogueInv, SelectionSet, ListedHaveEntry, GetRentData, selectionVars
<1>3. CASE SelectRent
  <2>1. UNCHANGED catalogueVars
    BY <1>3 DEF SelectRent
  <2>2. \/ isServiceSelected' = FALSE
        \/ UNCHANGED <<selectedService, isServiceSelected>>
        \/ selectedService' \in RentServices
    BY <1>3 DEF SelectRent, SelectService, SelectCountry, UnselectService, UnselectCountry
  <2>3. SelectionSet'
    BY <2>2, RentAssumption DEF CatalogueInv, SelectionSet
  <2> QED
    BY <2>1, <2>3 DEF CatalogueInv, ListedHaveEntry, catalogueVars
<1>4. ASSUME NEW r \in Slots, ServicesAnswered(r)
      PROVE  CatalogueInv'
  <2>1. UNCHANGED selectionVars
    BY <1>4 DEF ServicesAnswered
  <2> QED
    BY <1>4, <2>1, ServicesListed DEF CatalogueInv, SelectionSet, selectionVars
<1>5. CASE Restart
  BY <1>5 DEF Restart, CatalogueInv, SelectionSet, ListedHaveEntry
<1>6. CASE UNCHANGED rentVars
  BY <1>1, <1>6 DEF rentVars
<1> QED
  BY <1>1, <1>2, <1>3, <1>4, <1>5, <1>6, CatalogueFrame

LEMMA CatalogueHolds == RentSpec => []CatalogueInv
<1>1. RentInit => CatalogueInv
  BY DEF RentInit, CatalogueInv, SelectionSet, ListedHaveEntry
<1> QED
  BY <1>1, TypesHold, CatalogueStep, PTL DEF RentSpec

\* The selection and the lists as they were stay what they are in a process that has ended.
LEMMA TrappedStays ==
    ASSUME RentNext, trapped
    PROVE  UNCHANGED <<catalogueVars, selectionVars>> \/ Restart
<1>1. ~GetRentData /\ ~SelectRent /\ \A r \in Slots : ~ServicesAnswered(r)
  BY DEF GetRentData, SelectRent, ServicesAnswered
<1> QED
  BY <1>1, CatalogueFrame

LEMMA TrapStep ==
    ASSUME RentFaults \cap {"missingField", "badRecord"} = {},
           TypedInv, CatalogueInv, TrapsOnlyUnnamed, [RentNext]_rentVars
    PROVE  TrapsOnlyUnnamed'
<1>1. ASSUME UNCHANGED <<managerUser, trapped>>, RentNext \/ UNCHANGED rentVars
      PROVE  TrapsOnlyUnnamed'
  <2>1. CASE ~trapped
    BY <1>1, <2>1 DEF TrapsOnlyUnnamed
  <2>2. CASE trapped /\ UNCHANGED <<catalogueVars, selectionVars>>
    BY <1>1, <2>2 DEF TrapsOnlyUnnamed, ForeignSelected, catalogueVars, selectionVars
  <2>3. CASE Restart
    BY <2>3 DEF Restart, TrapsOnlyUnnamed
  <2> QED
    BY <1>1, <2>1, <2>2, <2>3, TrappedStays DEF rentVars
<1>2. ASSUME NEW user \in Users \cup {Nil}, NEW complete \in BOOLEAN,
             NEW isRentActive \in BOOLEAN, NewSMSActivate(user, complete, isRentActive)
      PROVE  TrapsOnlyUnnamed'
  BY <1>2 DEF NewSMSActivate, HostMayInit, InitFails, InitThrows, InitSucceeds, InitLogsIn,
              TrapsOnlyUnnamed
<1>3. CASE UseFailedObject
  BY <1>3 DEF UseFailedObject, TrapsOnlyUnnamed
<1>4. CASE GetRentData
  <2>1. trapped' => isServiceSelected /\ countriesForServices[selectedService] = Nil
    BY <1>4 DEF GetRentData, CatalogueInv, SelectionSet
  <2>2. trapped' => ForeignSelected
    BY <2>1 DEF CatalogueInv, ListedHaveEntry, ForeignSelected
  <2>3. ForeignSelected' = ForeignSelected
    BY <1>4 DEF GetRentData, ForeignSelected, selectionVars
  <2> QED
    BY <2>2, <2>3 DEF TrapsOnlyUnnamed
<1>5. ASSUME NEW r \in Slots, LoginSucceeded(r) \/ LoginFailed(r)
      PROVE  TrapsOnlyUnnamed'
  BY <1>5 DEF LoginSucceeded, LoginFailed, TrapsOnlyUnnamed
<1>6. CASE Restart
  BY <1>6 DEF Restart, TrapsOnlyUnnamed
<1>7. CASE UNCHANGED <<configVars, token, mixed, trapped>>
  BY <1>1, <1>7 DEF configVars
<1>8. CASE UNCHANGED rentVars
  BY <1>1, <1>8 DEF rentVars, configVars
<1> QED
  BY <1>2, <1>3, <1>4, <1>5, <1>6, <1>7, <1>8, ConfigFrame DEF DataTraps

(***************************************************************************)
(* While the data of the service and the database is complete, getCountries*)
(* never unwraps a missing entry of a service that has been listed,        *)
(* however often and in which order the catalogue is answered: the process *)
(* ends only for a service that was never listed, or where AuthManager was *)
(* made with an empty authID.                                              *)
(***************************************************************************)
THEOREM TrapsExplained ==
    ASSUME RentFaults \cap {"missingField", "badRecord"} = {}
    PROVE  RentSpec => []TrapsOnlyUnnamed
<1>1. RentInit => TrapsOnlyUnnamed
  BY DEF RentInit, TrapsOnlyUnnamed
<1>2. TypedInv /\ CatalogueInv /\ TrapsOnlyUnnamed /\ [RentNext]_rentVars => TrapsOnlyUnnamed'
  BY TrapStep
<1> QED
  BY <1>1, <1>2, TypesHold, CatalogueHolds, PTL DEF RentSpec

-----------------------------------------------------------------------------
(***************************************************************************)
(* Logins: which requests are on their way, and what they will store.      *)
(***************************************************************************)
Logins == Waiting({"login"}, {})

LoginsTruthful ==
    \A q \in Logins : web[q].answer = "ok" => web[q].result \in {web[q].user, Nil}

\* The logins on their way decide the token, or it was decided.
TokenInv ==
    ~mixed /\ lastLogin # Nil =>
        /\ \A q \in Logins : web[q].user = lastLogin
        /\ Logins = {} => token = lastLogin

LoginInv == InitReported /\ LoginsTruthful /\ TokenInv

LEMMA LoginSlots == \A q : q \in Logins <=> q \in Slots /\ web[q].call = "login"
BY DEF Logins, Waiting

LEMMA LoginSlotsNext == \A q : q \in Logins' <=> q \in Slots /\ web'[q].call = "login"
BY DEF Logins, Waiting

LEMMA LoginsFinite == IsFiniteSet(Logins) /\ Cardinality(Logins) \in Nat
<1>1. IsFiniteSet(Slots) /\ Logins \subseteq Slots
  BY LoginSlots, RentAssumption
<1> QED
  BY <1>1, FS_Subset, FS_CardinalityType

\* A request is sent to a slot that was free.
LEMMA SlotFilled ==
    ASSUME TypedInv, NEW r \in Slots, NEW request \in Request,
           web' = [web EXCEPT ![r] = request]
    PROVE  /\ web'[r] = request
           /\ \A q \in Slots : q # r => web'[q] = web[q]
           /\ request.call # "login" => Logins' = Logins \ {r}
           /\ request.call = "login" => Logins' = Logins \cup {r}
<1>1. web'[r] = request /\ \A q \in Slots : q # r => web'[q] = web[q]
  BY TypeParts, SlotTyped
<1> QED
  BY <1>1, LoginSlots, LoginSlotsNext

LEMMA LoginSent ==
    ASSUME TypedInv, NEW user \in Users \cup {Nil}, NEW complete \in BOOLEAN,
           InitLogsIn(user, complete)
    PROVE  \E r \in Slots : /\ r \notin Logins /\ Logins' = Logins \cup {r}
                            /\ user \in Users
                            /\ web'[r].user = user /\ web'[r].answer = "pending"
                            /\ \A q \in Slots : q # r => web'[q] = web[q]
<1>1. PICK r \in Free : web' = [web EXCEPT ![r] = LoginRequest(user)]
  BY DEF InitLogsIn
<1>2. r \in Slots /\ web[r].call = "idle" /\ user \in Users
  BY <1>1 DEF Free, InitLogsIn, Accepts
<1>3. /\ LoginRequest(user) \in Request /\ LoginRequest(user).call = "login"
      /\ LoginRequest(user).user = user /\ LoginRequest(user).answer = "pending"
  BY <1>2, RequestTypes DEF LoginRequest, Idle
<1>4. /\ web'[r] = LoginRequest(user) /\ Logins' = Logins \cup {r}
      /\ \A q \in Slots : q # r => web'[q] = web[q]
  BY <1>1, <1>2, <1>3, SlotFilled
<1>5. r \notin Logins
  BY <1>2, LoginSlots
<1> QED
  BY <1>2, <1>3, <1>4, <1>5

LEMMA LoginDone ==
    ASSUME TypedInv, NEW r \in Slots, RentNext, LoginSucceeded(r) \/ LoginFailed(r)
    PROVE  /\ r \in Logins /\ Logins' = Logins \ {r}
           /\ \A q \in Logins' : q \in Logins /\ web'[q] = web[q]
<1>1. web[r].call = "login" /\ r \in Logins
  BY LoginSlots DEF LoginSucceeded, LoginFailed, Answered
<1>2. CASE LoginSucceeded(r)
  <2>1. PICK q \in Free : web' = [web EXCEPT ![r] = Authorized("services", token'),
                                             ![q] = Authorized("balance", token')]
    BY <1>2 DEF LoginSucceeded
  <2>2. q \in Slots /\ web[q].call = "idle" /\ q \notin Logins /\ q # r
    BY <1>1, <2>1, LoginSlots DEF Free
  <2>3. /\ Authorized("services", token').call = "services"
        /\ Authorized("balance", token').call = "balance"
    BY DEF Authorized, Idle
  <2>4. web \in [Slots -> Request]
    BY TypeParts DEF WebTypes
  <2>5. /\ web'[r] = Authorized("services", token') /\ web'[q] = Authorized("balance", token')
        /\ \A p \in Slots : p # r /\ p # q => web'[p] = web[p]
    BY <2>1, <2>2, <2>4
  <2> QED
    BY <1>1, <2>2, <2>3, <2>5, LoginSlots, LoginSlotsNext
<1>3. CASE LoginFailed(r)
  <2>1. web' = [web EXCEPT ![r] = Idle]
    BY <1>3 DEF LoginFailed, Release
  <2>2. Idle \in Request /\ Idle.call # "login"
    BY RequestTypes DEF Idle
  <2>3. Logins' = Logins \ {r} /\ \A q \in Slots : q # r => web'[q] = web[q]
    BY <2>1, <2>2, SlotFilled
  <2> QED
    BY <1>1, <2>3, LoginSlots
<1> QED
  BY <1>2, <1>3

\* No other step sends or ends a login, or changes its user.
LEMMA LoginsKept ==
    ASSUME TypedInv, LoginsTruthful, RentNext
    PROVE  \/ \E user \in Users \cup {Nil}, complete, isRentActive \in BOOLEAN :
                 NewSMSActivate(user, complete, isRentActive) /\ InitLogsIn(user, complete)
           \/ \E r \in Slots : LoginSucceeded(r) \/ LoginFailed(r)
           \/ Restart
           \/ /\ Logins' = Logins /\ LoginsTruthful'
              /\ \A q \in Logins : web'[q].user = web[q].user
<1> DEFINE Kept == /\ Logins' = Logins /\ LoginsTruthful'
                   /\ \A q \in Logins : web'[q].user = web[q].user
<1>1. CASE UNCHANGED webVars
  BY <1>1 DEF webVars, Logins, Waiting, LoginsTruthful
<1>2. ASSUME NEW r \in Slots, NEW request \in Request, web[r].call # "login",
             request.call # "login", web' = [web EXCEPT ![r] = request]
      PROVE  Kept
  <2>0. Logins' = Logins \ {r} /\ \A q \in Slots : q # r => web'[q] = web[q]
    BY <1>2, SlotFilled
  <2>1. /\ r \notin Logins /\ Logins' = Logins
        /\ \A q \in Slots : q # r => web'[q] = web[q]
    BY <1>2, <2>0, LoginSlots, Zenon
  <2>2. \A q \in Logins : web'[q] = web[q]
    BY <2>1, LoginSlots
  <2> QED
    BY <2>1, <2>2 DEF LoginsTruthful
<1>3. ASSUME NEW request \in Request, request.call \in HostRequests, HostSends(request)
      PROVE  Kept
  <2>1. PICK r \in Slots : web[r].call = "idle" /\ web' = [web EXCEPT ![r] = request]
    BY <1>3 DEF HostSends, Free
  <2> QED
    BY <1>2, <1>3, <2>1 DEF HostRequests
<1>4. ASSUME NEW r \in Slots,
             \/ ServicesAnswered(r) \/ HostCallFailed(r) \/ BalanceAnswered(r)
             \/ HostCallSucceeded(r)
      PROVE  Kept
  <2>1. web[r].call # "login"
    BY <1>4 DEF ServicesAnswered, HostCallFailed, BalanceAnswered, HostCallSucceeded, Answered,
                HostRequests
  <2>2. web' = [web EXCEPT ![r] = Idle] \/ web' = [web EXCEPT ![r] = Authorized("balance", token)]
    BY <1>4 DEF ServicesAnswered, HostCallFailed, BalanceAnswered, HostCallSucceeded, Release,
                FetchUserBalance
  <2>3. Idle \in Request /\ Idle.call # "login"
    BY RequestTypes DEF Idle
  <2>4. Authorized("balance", token) \in Request /\ Authorized("balance", token).call # "login"
    <3>1. token \in Users \cup {Nil} /\ "balance" \in Calls
      BY TypeParts DEF ConfigTypes, Calls
    <3> QED
      BY <3>1, RequestTypes DEF Authorized, Idle
  <2> QED
    BY <1>2, <2>1, <2>2, <2>3, <2>4
<1>5. ASSUME NEW r \in Slots, NEW answered \in Request, web' = [web EXCEPT ![r] = answered],
             answered.call = web[r].call, answered.user = web[r].user,
             web[r].call = "login" /\ answered.answer = "ok" =>
                 answered.result \in {web[r].user, Nil}
      PROVE  Kept
  <2>1. /\ web'[r] = answered /\ \A q \in Slots : q # r => web'[q] = web[q]
        /\ Logins' = Logins
    <3>1. web'[r] = answered /\ \A q \in Slots : q # r => web'[q] = web[q]
      BY <1>5, SlotFilled
    <3>2. \A q \in Slots : web'[q].call = web[q].call
      BY <1>5, <3>1
    <3> QED
      BY <3>1, <3>2, LoginSlots, LoginSlotsNext
  <2>2. \A q \in Logins : /\ web'[q].user = web[q].user
                          /\ web'[q].answer = "ok" => web'[q].result \in {web'[q].user, Nil}
    <3> SUFFICES ASSUME NEW q \in Logins
                 PROVE  /\ web'[q].user = web[q].user
                        /\ web'[q].answer = "ok" => web'[q].result \in {web'[q].user, Nil}
      OBVIOUS
    <3>1. q \in Slots /\ web[q].call = "login"
      BY LoginSlots
    <3>2. CASE q = r
      BY <3>1, <3>2, <2>1, <1>5
    <3>3. CASE q # r
      BY <3>1, <3>3, <2>1 DEF LoginsTruthful
    <3> QED
      BY <3>2, <3>3
  <2> QED
    BY <2>1, <2>2 DEF LoginsTruthful
<1>6. ASSUME NEW r \in Slots, Serve(r)
      PROVE  Kept
  <2>1. PICK response : Response(r, response)
    BY <1>6, ServeResponds
  <2> QED
    BY <1>5, <2>1 DEF Response, Respond
<1>7. ASSUME NEW r \in Slots, LoseAnswer(r)
      PROVE  Kept
  <2> DEFINE lost == [web[r] EXCEPT !.answer = "failed"]
  <2>1. web[r] \in Request
    BY TypeParts DEF WebTypes
  <2>2. /\ lost \in Request /\ lost.call = web[r].call /\ lost.user = web[r].user
        /\ lost.answer = "failed"
    BY <2>1 DEF Request
  <2>3. web' = [web EXCEPT ![r] = lost]
    BY <1>7 DEF LoseAnswer
  <2> HIDE DEF lost
  <2>4. lost.answer # "ok"
    BY <2>2
  <2> QED
    BY <1>5, <2>2, <2>3, <2>4
<1> HIDE DEF Kept
<1> QED
  <2>1. CASE \/ RentNumber
             \/ \E n \in Rents : CancelRent(n)
             \/ \E quantity \in Quantities : SavePurchase(quantity)
    BY <2>1, <1>3, HostRequestSent DEF Kept
  <2> QED
    BY <1>1, <1>4, <1>6, <1>7, <2>1, WebFrame DEF Closure, ServicesTrap, ClosureTraps, Kept

LEMMA LoginStep ==
    ASSUME TypedInv, LoginInv, [RentNext]_rentVars
    PROVE  LoginInv'
<1> DEFINE c == Cardinality(Logins)
<1>1. /\ posted \in [{"initSuccess", "initFailed"} -> Nat] /\ inits \in Nat
      /\ token \in Users \cup {Nil} /\ lastLogin \in Users \cup {Nil}
  BY TypeParts DEF ConfigTypes
<1>2. IsFiniteSet(Logins) /\ c \in Nat
  BY LoginsFinite
<1>3. ~trapped => Reported + c = inits
  BY DEF LoginInv, InitReported, Reported, Logins
<1>4. InitReported' <=> (~trapped' => Reported' + Cardinality(Logins') = inits')
  BY DEF InitReported, Reported, Logins
<1>5. posted["initSuccess"] \in Nat /\ posted["initFailed"] \in Nat
  BY <1>1
<1>6. ASSUME NEW name \in {"initSuccess", "initFailed"}, Post(name)
      PROVE  Reported' = Reported + 1
  <2>1. \/ /\ posted'["initSuccess"] = posted["initSuccess"] + 1
           /\ posted'["initFailed"] = posted["initFailed"]
        \/ /\ posted'["initSuccess"] = posted["initSuccess"]
           /\ posted'["initFailed"] = posted["initFailed"] + 1
    BY <1>1, <1>6 DEF Post
  <2> QED
    BY <2>1, <1>5 DEF Reported
<1>7. Reported \in Nat
  BY <1>5 DEF Reported
<1>8. ASSUME NEW user \in Users \cup {Nil}, NEW complete \in BOOLEAN,
             NEW isRentActive \in BOOLEAN, NewSMSActivate(user, complete, isRentActive),
             InitLogsIn(user, complete)
      PROVE  LoginInv'
  <2>1. PICK r \in Slots : /\ r \notin Logins /\ Logins' = Logins \cup {r}
                           /\ user \in Users
                           /\ web'[r].user = user /\ web'[r].answer = "pending"
                           /\ \A q \in Slots : q # r => web'[q] = web[q]
    BY <1>8, LoginSent
  <2>2. /\ ~trapped /\ inits' = inits + 1 /\ posted' = posted /\ token' = token
        /\ lastLogin' = user /\ mixed' = \E q \in Logins : web[q].user # user
    BY <1>8 DEF NewSMSActivate, InitLogsIn, HostMayInit, Logins
  <2>3. \A q \in Logins : q \in Slots /\ q # r /\ web'[q] = web[q]
    BY <2>1, LoginSlots
  <2>4. Cardinality(Logins') = c + 1
    BY <1>2, <2>1, FS_AddElement
  <2>5. InitReported'
    <3>1. Reported' = Reported
      BY <2>2 DEF Reported
    <3> HIDE DEF c
    <3> QED
      BY <1>1, <1>2, <1>3, <1>4, <1>7, <2>2, <2>4, <3>1
  <2>6. LoginsTruthful'
    BY <2>1, <2>3 DEF LoginInv, LoginsTruthful
  <2>7. TokenInv'
    BY <2>1, <2>2, <2>3 DEF TokenInv
  <2> QED
    BY <2>5, <2>6, <2>7 DEF LoginInv
<1>9. ASSUME NEW r \in Slots, RentNext, LoginSucceeded(r) \/ LoginFailed(r)
      PROVE  LoginInv'
  <2>1. /\ r \in Logins /\ Logins' = Logins \ {r}
        /\ \A q \in Logins' : q \in Logins /\ web'[q] = web[q]
    BY <1>9, LoginDone
  <2>2. Cardinality(Logins') = c - 1
    BY <1>2, <2>1, FS_RemoveElement
  <2>3. Reported' = Reported + 1
    BY <1>6, <1>9 DEF LoginSucceeded, LoginFailed
  <2>4. ~trapped /\ inits' = inits /\ lastLogin' = lastLogin
    BY <1>9 DEF LoginSucceeded, LoginFailed
  <2>5. InitReported'
    <3> HIDE DEF c
    <3> QED
      BY <1>1, <1>2, <1>3, <1>4, <1>7, <2>2, <2>3, <2>4
  <2>6. LoginsTruthful'
    BY <2>1 DEF LoginInv, LoginsTruthful
  <2>7. TokenInv'
    <3>1. CASE LoginFailed(r)
      BY <3>1 DEF LoginFailed, TokenInv
    <3>2. CASE LoginSucceeded(r)
      <4>1. /\ mixed' = (mixed \/ web[r].result = Nil) /\ web[r].answer = "ok"
            /\ token' = IF web[r].result # Nil THEN web[r].result ELSE token
        BY <3>2 DEF LoginSucceeded, StoredToken
      <4>2. web[r].result \in {web[r].user, Nil}
        BY <2>1, <4>1 DEF LoginInv, LoginsTruthful
      <4> SUFFICES ASSUME ~mixed', lastLogin' # Nil
                   PROVE  /\ \A q \in Logins' : web'[q].user = lastLogin'
                          /\ Logins' = {} => token' = lastLogin'
        BY DEF TokenInv
      <4>3. \A q \in Logins : web[q].user = lastLogin
        BY <2>4, <4>1 DEF LoginInv, TokenInv
      <4> QED
        BY <2>1, <2>4, <4>1, <4>2, <4>3
    <3> QED
      BY <1>9, <3>1, <3>2
  <2> QED
    BY <2>5, <2>6, <2>7 DEF LoginInv
<1>10. CASE Restart
  <2>1. /\ posted' = NothingPosted /\ inits' = 0 /\ lastLogin' = Nil
        /\ web' = [q \in Slots |-> Idle]
    BY <1>10 DEF Restart, NoRequests
  <2>2. Logins' = {}
    BY <2>1, LoginSlotsNext DEF Idle
  <2>3. Cardinality(Logins') = 0
    BY <2>2, FS_EmptySet
  <2>4. Reported' = 0
    BY <2>1 DEF Reported, NothingPosted
  <2> QED
    BY <1>4, <2>1, <2>2, <2>3, <2>4 DEF LoginInv, LoginsTruthful, TokenInv
<1>11. ASSUME Logins' = Logins, LoginsTruthful',
              \A q \in Logins : web'[q].user = web[q].user,
              UNCHANGED <<lastLogin, mixed, token>>,
              ~trapped' => ~trapped, Reported' = Reported, inits' = inits
       PROVE  LoginInv'
  <2>1. InitReported'
    <3>1. Cardinality(Logins') = c
      BY <1>11
    <3> HIDE DEF c
    <3> QED
      BY <1>3, <1>4, <1>11, <3>1
  <2>2. TokenInv'
    BY <1>11 DEF LoginInv, TokenInv
  <2> QED
    BY <1>11, <2>1, <2>2 DEF LoginInv
<1>12. ASSUME Logins' = Logins, LoginsTruthful',
              \A q \in Logins : web'[q].user = web[q].user,
              UNCHANGED <<configVars, token, mixed, trapped>>
       PROVE  LoginInv'
  <2>1. Reported' = Reported /\ inits' = inits
    BY <1>12 DEF Reported, configVars
  <2> QED
    BY <1>1, <1>7, <1>11, <1>12, <2>1 DEF configVars
<1>13. CASE UNCHANGED rentVars
  <2>1. Logins' = Logins /\ LoginsTruthful' /\ \A q \in Logins : web'[q].user = web[q].user
    BY <1>13 DEF rentVars, webVars, Logins, Waiting, LoginsTruthful, LoginInv
  <2> QED
    BY <1>12, <1>13, <2>1 DEF rentVars
<1>14. ASSUME RentNext, Logins' = Logins, LoginsTruthful',
              \A q \in Logins : web'[q].user = web[q].user,
              ~\E user \in Users \cup {Nil}, complete, isRentActive \in BOOLEAN :
                 NewSMSActivate(user, complete, isRentActive) /\ InitLogsIn(user, complete),
              ~\E r \in Slots : LoginSucceeded(r) \/ LoginFailed(r),
              ~Restart
       PROVE  LoginInv'
  <2>1. CASE UNCHANGED <<configVars, token, mixed, trapped>>
    BY <1>12, <1>14, <2>1
  <2>2. ASSUME NEW user \in Users \cup {Nil}, NEW complete \in BOOLEAN,
               NEW isRentActive \in BOOLEAN, NewSMSActivate(user, complete, isRentActive)
        PROVE  LoginInv'
    <3>1. /\ ~trapped /\ inits' = inits + 1 /\ UNCHANGED <<lastLogin, mixed, token>>
          /\ trapped' = TRUE \/ Post("initFailed") \/ Post("initSuccess")
      BY <1>14, <2>2 DEF NewSMSActivate, HostMayInit, InitFails, InitThrows, InitSucceeds
    <3>2. trapped' = TRUE \/ Reported' = Reported + 1
      BY <1>6, <3>1
    <3>3. InitReported'
      <4> HIDE DEF c
      <4> QED
        BY <1>1, <1>2, <1>3, <1>4, <1>7, <1>14, <3>1, <3>2 DEF c
    <3>4. TokenInv'
      BY <1>14, <3>1 DEF LoginInv, TokenInv
    <3> QED
      BY <1>14, <3>3, <3>4 DEF LoginInv
  <2>3. CASE UseFailedObject \/ GetRentData \/ DataTraps
    <3>1. /\ ~trapped /\ UNCHANGED <<inits, posted, lastLogin, mixed, token>>
      BY <2>3 DEF UseFailedObject, GetRentData, DataTraps, ClosureTraps, configVars
    <3>2. Reported' = Reported
      BY <3>1 DEF Reported
    <3> QED
      BY <1>1, <1>7, <1>11, <1>14, <3>1, <3>2
  <2> QED
    BY <1>14, <2>1, <2>2, <2>3, ConfigFrame
<1> QED
  <2>1. CASE RentNext
    <3>1. LoginsTruthful
      BY DEF LoginInv
    <3> QED
      BY <2>1, <3>1, <1>8, <1>9, <1>10, <1>14, LoginsKept
  <2> QED
    BY <2>1, <1>13

LEMMA LoginInitial == RentInit => LoginInv
<1> SUFFICES ASSUME RentInit PROVE LoginInv
  OBVIOUS
<1>1. /\ posted = NothingPosted /\ inits = 0 /\ lastLogin = Nil /\ web = [q \in Slots |-> Idle]
  BY DEF RentInit, NoRequests
<1>2. Logins = {}
  BY <1>1, LoginSlots DEF Idle
<1>3. Cardinality(Logins) = 0
  BY <1>2, FS_EmptySet
<1>4. posted["initSuccess"] + posted["initFailed"] + Cardinality(Logins) = inits
  BY <1>1, <1>3 DEF NothingPosted
<1> QED
  BY <1>1, <1>2, <1>4 DEF LoginInv, LoginsTruthful, TokenInv, InitReported, Logins

LEMMA LoginHolds == RentSpec => []LoginInv
BY TypesHold, LoginInitial, LoginStep, PTL DEF RentSpec

(***************************************************************************)
(* Every init of a running process has posted exactly one notification or  *)
(* has its login on its way, for any number of overlapping inits and       *)
(* requests, refused, lost and late answers and restarts.                  *)
(***************************************************************************)
THEOREM InitsCounted == RentSpec => []InitReported
BY LoginHolds, PTL DEF LoginInv

(***************************************************************************)
(* When one login decides the token, the token on disk is that user's, in  *)
(* whatever order overlapping logins are answered.                         *)
(***************************************************************************)
THEOREM TokenDecided == RentSpec => []TokenOfLogin
<1>1. LoginInv => TokenOfLogin
  BY DEF LoginInv, TokenInv, TokenOfLogin, LastLoginDecides, Logins
<1> QED
  BY <1>1, LoginHolds, PTL

-----------------------------------------------------------------------------
(***************************************************************************)
(* Whose rents are listed.  AuthManager keeps the authID it was made with, *)
(* the path of its observers and so the owner of what they report.         *)
(***************************************************************************)
NamedInv ==
    /\ IsFiniteSet(named)
    /\ authID \in named \cup {Nil}
    /\ managerUser \in named \cup {Nil, Unborn}
    /\ lastLogin # Nil => lastLogin \in named /\ managerUser \in named

\* Before the first login nothing is observed.
NoLoginYet ==
    lastLogin = Nil => /\ Logins = {} /\ observers = 0 /\ newObservers = 0
                       /\ events = <<>> /\ userRentNumbers = <<>> /\ Present(synced) = {}

OwnedBy(snapshot, cs, user) ==
    \A n \in Present(snapshot) : n \in Present(cs) /\ cs[n].owner = user

OwnedInv ==
    /\ OwnedBy(synced, codes, managerUser)
    /\ \A i \in DOMAIN events : OwnedBy(events[i], codes, managerUser)
    /\ \A i \in DOMAIN userRentNumbers :
          /\ userRentNumbers[i].rent \in Present(codes)
          /\ codes[userRentNumbers[i].rent].owner = managerUser

AccountInv == NamedInv /\ NoLoginYet /\ OwnedInv

LEMMA NamedStep ==
    ASSUME TypedInv, NamedInv, RentNext
    PROVE  NamedInv'
<1>1. named \subseteq Users /\ Nil \notin Users /\ Unborn \notin Users /\ Unborn # Nil
  BY TypeParts, RentAssumption DEF ConfigTypes
<1>2. CASE UNCHANGED <<configVars, token, mixed, trapped>>
  BY <1>2 DEF NamedInv, configVars
<1>3. ASSUME NEW user \in Users \cup {Nil}, NEW complete \in BOOLEAN,
             NEW isRentActive \in BOOLEAN, NewSMSActivate(user, complete, isRentActive)
      PROVE  NamedInv'
  <2>1. authID' = user /\ named' = named \cup ({user} \ {Nil}) /\ IsFiniteSet(named')
    <3>1. authID' = user /\ named' = named \cup ({user} \ {Nil})
      BY <1>3 DEF NewSMSActivate
    <3>2. named' = named \/ named' = named \cup {user}
      BY <3>1
    <3>3. IsFiniteSet(named')
      BY <3>2, FS_AddElement DEF NamedInv
    <3> QED
      BY <3>1, <3>3
  <2>2. CASE InitFails(user, complete)
    BY <1>1, <2>1, <2>2 DEF InitFails, NamedInv
  <2>3. CASE InitThrows(user, complete)
    <3>1. /\ managerUser' = Nil /\ lastLogin' = lastLogin /\ user # Nil
          /\ managerUser' = IF managerUser = Unborn THEN user ELSE managerUser
      BY <2>3 DEF InitThrows, Accepts, Capture
    <3> QED
      BY <1>1, <2>1, <3>1 DEF NamedInv
  <2>4. CASE InitSucceeds(user, complete)
    <3>1. /\ managerUser' = IF managerUser = Unborn THEN user ELSE managerUser
          /\ lastLogin' = lastLogin /\ user # Nil
      BY <2>4 DEF InitSucceeds, Accepts, Capture
    <3> QED
      BY <1>1, <2>1, <3>1 DEF NamedInv
  <2>5. CASE InitLogsIn(user, complete)
    <3>1. /\ managerUser' = IF managerUser = Unborn THEN user ELSE managerUser
          /\ managerUser' # Nil /\ lastLogin' = user /\ user # Nil
      BY <2>5 DEF InitLogsIn, Accepts, Capture
    <3> QED
      BY <1>1, <2>1, <3>1 DEF NamedInv
  <2> QED
    BY <1>3, <2>2, <2>3, <2>4, <2>5 DEF NewSMSActivate
<1>4. CASE UseFailedObject
  <2>1. /\ managerUser = Unborn /\ managerUser' = authID
        /\ UNCHANGED <<authID, named, lastLogin>>
    BY <1>4 DEF UseFailedObject, Capture
  <2> QED
    BY <1>1, <2>1 DEF NamedInv
<1>5. CASE GetRentData
  BY <1>5 DEF GetRentData, NamedInv, configVars
<1>6. ASSUME NEW r \in Slots, LoginSucceeded(r) \/ LoginFailed(r)
      PROVE  NamedInv'
  BY <1>6 DEF LoginSucceeded, LoginFailed, NamedInv
<1>7. CASE Restart
  BY <1>7, FS_EmptySet DEF Restart, NamedInv
<1>8. CASE DataTraps
  BY <1>8 DEF DataTraps, ClosureTraps, NamedInv, configVars
<1> QED
  BY <1>2, <1>3, <1>4, <1>5, <1>6, <1>7, <1>8, ConfigFrame

\* AuthManager.authID is copied once.
LEMMA ManagerFixed ==
    ASSUME RentNext
    PROVE  managerUser' = managerUser \/ managerUser = Unborn \/ Restart
BY ConfigFrame DEF configVars, NewSMSActivate, InitFails, InitThrows, InitSucceeds, InitLogsIn,
   Capture, UseFailedObject, GetRentData, LoginSucceeded, LoginFailed, DataTraps, ClosureTraps

\* The owner of a number that was sold stays.
LEMMA OwnersStay ==
    ASSUME TypedInv, RentNext, NEW n \in Present(codes)
    PROVE  n \in Present(codes') /\ codes'[n].owner = codes[n].owner
<1>1. ServerTypes /\ WebTypes /\ codes \in Snapshot /\ n \in Rents /\ codes[n].status # "none"
  BY TypeParts DEF ServerTypes, Present
<1> SUFFICES codes'[n].status # "none" /\ codes'[n].owner = codes[n].owner
  BY <1>1 DEF Present
<1>2. CASE UNCHANGED serverVars
  BY <1>1, <1>2 DEF serverVars
<1>3. ASSUME NEW r \in Slots, NEW m \in Rents, ServeRent(r, m)
      PROVE  codes'[n] = codes[n]
  <2>1. m # n
    BY <1>1, <1>3 DEF ServeRent, Sold
  <2>2. PICK sale : codes' = [codes EXCEPT ![m] = sale]
    BY <1>3 DEF ServeRent
  <2> QED
    BY <1>1, <2>1, <2>2 DEF Snapshot
<1>4. ASSUME NEW r \in Slots, ServeCancel(r)
      PROVE  codes'[n].status # "none" /\ codes'[n].owner = codes[n].owner
  <2>1. /\ codes[web[r].rent].status = "waiting"
        /\ codes' = [codes EXCEPT ![web[r].rent].status = "cancelled"]
    BY <1>4 DEF ServeCancel
  <2> QED
    BY <1>1, <2>1, StatusTyped
<1>5. ASSUME NEW r \in Slots, ServePurchase(r)
      PROVE  codes' = codes
  BY <1>5 DEF ServePurchase
<1>6. ASSUME NEW m \in Rents, CodeArrives(m)
      PROVE  codes'[n].status # "none" /\ codes'[n].owner = codes[n].owner
  <2>1. codes[m].status = "waiting" /\ codes' = [codes EXCEPT ![m].status = "completed"]
    BY <1>6 DEF CodeArrives
  <2> QED
    BY <1>1, <2>1, StatusTyped
<1> QED
  BY <1>1, <1>2, <1>3, <1>4, <1>5, <1>6, ServerFrame

\* Before the first login a step changes no list.
LEMMA QuietBeforeLogin ==
    ASSUME TypedInv, NoLoginYet, lastLogin = Nil, RentNext
    PROVE  UNCHANGED listVars \/ Restart
<1>1. Logins = {} /\ observers = 0 /\ newObservers = 0 /\ events = <<>>
  BY DEF NoLoginYet
<1>2. ASSUME NEW r \in Slots, LoginSucceeded(r)
      PROVE  FALSE
  BY <1>1, <1>2, LoginSlots DEF LoginSucceeded, Answered
<1>3. ~CachedEvent /\ ~SnapshotArrives /\ ~RentsFetched
  BY <1>1 DEF CachedEvent, SnapshotArrives, RentsFetched
<1> QED
  BY <1>2, <1>3, ListFrame

LEMMA NoLoginStep ==
    ASSUME TypedInv, LoginsTruthful, NamedInv, NoLoginYet, RentNext
    PROVE  NoLoginYet'
<1> SUFFICES ASSUME lastLogin' = Nil
             PROVE  /\ Logins' = {} /\ observers' = 0 /\ newObservers' = 0
                    /\ events' = <<>> /\ userRentNumbers' = <<>> /\ Present(synced)' = {}
  BY DEF NoLoginYet
<1>1. CASE Restart
  <2>1. /\ web' = [q \in Slots |-> Idle] /\ observers' = 0 /\ newObservers' = 0
        /\ events' = <<>> /\ userRentNumbers' = <<>> /\ synced' = NoCodes
    BY <1>1 DEF Restart, NoRequests
  <2>2. Logins' = {}
    BY <2>1, LoginSlotsNext DEF Idle
  <2>3. Present(synced') = {}
    BY <2>1, NoCodesTyped
  <2> QED
    BY <2>1, <2>2, <2>3 DEF Present
<1>2. CASE ~Restart
  <2>1. lastLogin = Nil /\ Logins' = Logins
    <3>1. ASSUME NEW user \in Users \cup {Nil}, NEW complete \in BOOLEAN,
                 InitLogsIn(user, complete)
          PROVE  FALSE
      BY <3>1 DEF InitLogsIn, Accepts
    <3>2. lastLogin = Nil
      BY <1>2, <3>1, ConfigFrame
         DEF configVars, NewSMSActivate, InitFails, InitThrows, InitSucceeds, UseFailedObject,
             GetRentData, LoginSucceeded, LoginFailed, DataTraps, ClosureTraps
    <3>3. Logins = {}
      BY <3>2 DEF NoLoginYet
    <3>4. ASSUME NEW r \in Slots, LoginSucceeded(r) \/ LoginFailed(r)
          PROVE  FALSE
      BY <3>3, <3>4, LoginSlots DEF LoginSucceeded, LoginFailed, Answered
    <3> QED
      BY <1>2, <3>1, <3>2, <3>4, LoginsKept
  <2>2. UNCHANGED listVars
    BY <1>2, <2>1, QuietBeforeLogin
  <2> QED
    BY <2>1, <2>2 DEF NoLoginYet, listVars, Present
<1> QED
  BY <1>1, <1>2

LEMMA OwnedStep ==
    ASSUME TypedInv, NamedInv, NoLoginYet, OwnedInv, RentNext
    PROVE  OwnedInv'
<1>1. ListTypes /\ ServerTypes /\ ConfigTypes
  BY TypeParts
<1>2. CASE Restart
  <2>1. /\ synced' = NoCodes /\ events' = <<>> /\ userRentNumbers' = <<>>
    BY <1>2 DEF Restart
  <2> QED
    BY <2>1, NoCodesTyped DEF OwnedInv, OwnedBy
<1>3. CASE lastLogin = Nil /\ ~Restart
  <2>1. /\ UNCHANGED listVars /\ events = <<>> /\ userRentNumbers = <<>>
        /\ Present(synced) = {}
    BY <1>3, QuietBeforeLogin DEF NoLoginYet
  <2>2. events' = <<>> /\ userRentNumbers' = <<>> /\ synced' = synced
    BY <2>1 DEF listVars
  <2> QED
    BY <2>1, <2>2 DEF OwnedInv, OwnedBy
<1>4. CASE lastLogin # Nil /\ ~Restart
  <2>1. managerUser' = managerUser
    <3>1. managerUser # Unborn
      BY <1>1, <1>4, RentAssumption DEF NamedInv, ConfigTypes
    <3> QED
      BY <1>4, <3>1, ManagerFixed
  <2>2. ASSUME NEW snapshot, OwnedBy(snapshot, codes, managerUser)
        PROVE  OwnedBy(snapshot, codes', managerUser')
    BY <2>1, <2>2, OwnersStay DEF OwnedBy
  <2>3. ASSUME userRentNumbers' = userRentNumbers
        PROVE  \A i \in DOMAIN userRentNumbers' :
                  /\ userRentNumbers'[i].rent \in Present(codes')
                  /\ codes'[userRentNumbers'[i].rent].owner = managerUser'
    BY <2>1, <2>3, OwnersStay DEF OwnedInv
  <2>4. ASSUME OwnedBy(synced', codes', managerUser'),
               \A i \in DOMAIN events' : OwnedBy(events'[i], codes', managerUser'),
               \A i \in DOMAIN userRentNumbers' :
                  /\ userRentNumbers'[i].rent \in Present(codes')
                  /\ codes'[userRentNumbers'[i].rent].owner = managerUser'
        PROVE  OwnedInv'
    BY <2>4 DEF OwnedInv, OwnedBy, Present
  <2>5. CASE UNCHANGED listVars \/ \E r \in Slots : LoginSucceeded(r)
    <3>1. synced' = synced /\ events' = events /\ userRentNumbers' = userRentNumbers
      BY <2>5 DEF listVars, LoginSucceeded
    <3> QED
      BY <3>1, <2>2, <2>3, <2>4 DEF OwnedInv
  <2>6. CASE CachedEvent
    <3>1. /\ events' = Append(events, synced) /\ synced' = synced
          /\ userRentNumbers' = userRentNumbers
      BY <2>6 DEF CachedEvent
    <3>2. /\ Len(events) \in Nat /\ DOMAIN events = 1 .. Len(events)
          /\ DOMAIN events' = 1 .. Len(events) + 1
          /\ \A i \in 1 .. Len(events) : events'[i] = events[i]
          /\ events'[Len(events) + 1] = synced
      BY <1>1, <3>1, AppendProperties, LenProperties DEF ListTypes
    <3>3. \A i \in DOMAIN events' : (i \in DOMAIN events /\ events'[i] = events[i])
                                        \/ events'[i] = synced
      BY <3>2
    <3>4. \A i \in DOMAIN events' : OwnedBy(events'[i], codes, managerUser)
      BY <3>3 DEF OwnedInv
    <3> QED
      BY <3>1, <3>4, <2>2, <2>3, <2>4 DEF OwnedInv
  <2>7. CASE SnapshotArrives
    <3>1. /\ events' = events \o Copies(Observed, observers + newObservers)
          /\ synced' = Observed /\ userRentNumbers' = userRentNumbers
          /\ observers + newObservers \in Nat
      BY <1>1, <2>7 DEF SnapshotArrives, ListTypes
    <3>2. Observed \in Snapshot
      BY <1>1, ObservedTyped
    <3>3. \A i \in DOMAIN events' :
              (i \in DOMAIN events /\ events'[i] = events[i]) \/ events'[i] = Observed
      <4> DEFINE k == observers + newObservers
      <4>1. events \in Seq(Snapshot) /\ k \in Nat /\ events' = events \o Copies(Observed, k)
        BY <1>1, <3>1 DEF ListTypes
      <4> HIDE DEF k
      <4>2. \A i \in DOMAIN (events \o Copies(Observed, k)) :
                \/ i \in DOMAIN events /\ (events \o Copies(Observed, k))[i] = events[i]
                \/ (events \o Copies(Observed, k))[i] = Observed
        BY <3>2, <4>1, CopiesFollow
      <4> QED
        BY <4>1, <4>2, Zenon
    <3>4. OwnedBy(Observed, codes, managerUser)
      <4>1. \A n \in Rents : \/ Observed[n] = codes[n] /\ codes[n].owner = managerUser
                             \/ Observed[n].status = "none"
        BY DEF Observed, NoCode
      <4> QED
        BY <4>1 DEF OwnedBy, Present
    <3>5. \A i \in DOMAIN events' : OwnedBy(events'[i], codes, managerUser)
      BY <3>3, <3>4 DEF OwnedInv
    <3> QED
      BY <3>1, <3>4, <3>5, <2>2, <2>3, <2>4
  <2>8. CASE RentsFetched
    <3>1. /\ events # <<>> /\ events' = Tail(events) /\ synced' = synced
          /\ userRentNumbers' = NewestFirst(Head(events))
      BY <2>8 DEF RentsFetched, Listed
    <3>2. Head(events) = events[1] /\ 1 \in DOMAIN events /\ events[1] \in Snapshot
      BY <1>1, <3>1, EmptySeq, LenProperties, ElementOfSeq DEF ListTypes
    <3>3. \A i \in DOMAIN events' : i + 1 \in DOMAIN events /\ events'[i] = events[i + 1]
      <4>1. /\ Tail(events) \in Seq(Snapshot) /\ Len(Tail(events)) = Len(events) - 1
            /\ \A i \in 1 .. Len(Tail(events)) : Tail(events)[i] = events[i + 1]
        BY <1>1, <3>1, HeadTailProperties DEF ListTypes
      <4>2. DOMAIN Tail(events) = 1 .. Len(events) - 1 /\ DOMAIN events = 1 .. Len(events)
            /\ Len(events) \in Nat
        BY <1>1, <4>1, LenProperties DEF ListTypes
      <4> QED
        BY <3>1, <4>1, <4>2
    <3>4. \A i \in DOMAIN userRentNumbers' : userRentNumbers'[i].rent \in Present(events[1])
      <4>1. DistinctTimes(events[1])
        BY <1>1, <3>2 DEF ListTypes
      <4> QED
        BY <3>1, <3>2, <4>1, NewestFirstLists
    <3>5. OwnedBy(events[1], codes', managerUser')
      BY <2>2, <3>2 DEF OwnedInv
    <3>6. \A i \in DOMAIN events' : OwnedBy(events'[i], codes', managerUser')
      BY <2>2, <3>3 DEF OwnedInv
    <3>7. OwnedBy(synced', codes', managerUser')
      BY <2>2, <3>1 DEF OwnedInv
    <3>8. \A i \in DOMAIN userRentNumbers' :
              /\ userRentNumbers'[i].rent \in Present(codes')
              /\ codes'[userRentNumbers'[i].rent].owner = managerUser'
      BY <3>4, <3>5 DEF OwnedBy
    <3> QED
      BY <3>6, <3>7, <3>8, <2>4
  <2> QED
    BY <1>4, <2>5, <2>6, <2>7, <2>8, ListFrame
<1> QED
  BY <1>2, <1>3, <1>4

LEMMA AccountStep ==
    ASSUME TypedInv, LoginInv, AccountInv, [RentNext]_rentVars
    PROVE  AccountInv'
<1>1. CASE RentNext
  BY <1>1, NamedStep, NoLoginStep, OwnedStep DEF AccountInv, LoginInv
<1>2. CASE UNCHANGED rentVars
  BY <1>2 DEF rentVars, configVars, listVars, serverVars, webVars, AccountInv, NamedInv,
              NoLoginYet, OwnedInv, OwnedBy, Present, Logins, Waiting
<1> QED
  BY <1>1, <1>2

LEMMA AccountInitial == RentInit => AccountInv
<1> SUFFICES ASSUME RentInit PROVE AccountInv
  OBVIOUS
<1>1. /\ web = [q \in Slots |-> Idle] /\ observers = 0 /\ newObservers = 0
      /\ events = <<>> /\ userRentNumbers = <<>> /\ synced = NoCodes
      /\ authID = Nil /\ managerUser = Unborn /\ lastLogin = Nil
  BY DEF RentInit, NoRequests
<1>2. Logins = {}
  BY <1>1, LoginSlots DEF Idle
<1>3. Present(synced) = {}
  BY <1>1, NoCodesTyped
<1>4. IsFiniteSet(named)
  BY FS_EmptySet DEF RentInit
<1> QED
  BY <1>1, <1>2, <1>3, <1>4 DEF AccountInv, NamedInv, NoLoginYet, OwnedInv, OwnedBy

LEMMA AccountHolds == RentSpec => []AccountInv
BY TypesHold, LoginHolds, AccountInitial, AccountStep, PTL DEF RentSpec

(***************************************************************************)
(* While all inits name one user and the last login decided the token, the *)
(* account of the stored token owns every rent that is listed, although    *)
(* AuthManager and RentNetworkManager learn the user at different times.   *)
(***************************************************************************)
THEOREM ListOwned == RentSpec => []ListOwnedByLogin
<1>1. ASSUME LoginInv, AccountInv
      PROVE  ListOwnedByLogin
  <2> SUFFICES ASSUME LastLoginDecides, Cardinality(named) = 1,
                      NEW i \in DOMAIN userRentNumbers
               PROVE  codes[userRentNumbers[i].rent].owner = token
    BY DEF ListOwnedByLogin
  <2>1. lastLogin # Nil /\ token = lastLogin
    BY <1>1 DEF LastLoginDecides, LoginInv, TokenInv, Logins
  <2>2. lastLogin \in named /\ managerUser \in named
    BY <1>1, <2>1 DEF AccountInv, NamedInv
  <2>3. managerUser = lastLogin
    <3>1. \E x : named = {x}
      BY <1>1, FS_Singleton DEF AccountInv, NamedInv
    <3> QED
      BY <2>2, <3>1
  <2>4. codes[userRentNumbers[i].rent].owner = managerUser
    BY <1>1 DEF AccountInv, OwnedInv
  <2> QED
    BY <2>1, <2>3, <2>4
<1> QED
  BY <1>1, LoginHolds, AccountHolds, PTL

-----------------------------------------------------------------------------
(***************************************************************************)
(* The list settles: the last event that waits is the newest snapshot.     *)
(***************************************************************************)
NewestEventInv ==
    /\ observers = 0 => events = <<>>
    /\ observers > 0 => IF events = <<>> THEN userRentNumbers = NewestFirst(synced)
                                         ELSE events[Len(events)] = synced

LEMMA NewestEventStep ==
    ASSUME TypedInv, NewestEventInv, [RentNext]_rentVars
    PROVE  NewestEventInv'
<1>1. ListTypes /\ ServerTypes
  BY TypeParts
<1>2. events \in Seq(Snapshot) /\ observers \in Nat /\ newObservers \in Nat /\ Len(events) \in Nat
  BY <1>1, LenProperties DEF ListTypes
<1>3. CASE UNCHANGED listVars
  BY <1>3 DEF listVars, NewestEventInv
<1>4. ASSUME NEW r \in Slots, LoginSucceeded(r)
      PROVE  NewestEventInv'
  BY <1>4 DEF LoginSucceeded, NewestEventInv
<1>5. CASE CachedEvent
  <2>1. /\ events' = Append(events, synced) /\ synced' = synced
        /\ observers' = observers + 1
    BY <1>5 DEF CachedEvent
  <2>2. synced \in Snapshot
    BY <1>1 DEF ListTypes
  <2>3. /\ Len(events') = Len(events) + 1 /\ events'[Len(events) + 1] = synced
        /\ events' # <<>>
    BY <1>2, <2>1, <2>2, AppendProperties
  <2>4. events'[Len(events')] = synced'
    BY <2>1, <2>3
  <2>5. observers' # 0
    BY <1>2, <2>1
  <2> QED
    BY <2>3, <2>4, <2>5 DEF NewestEventInv
<1>6. CASE SnapshotArrives
  <2> DEFINE k == observers + newObservers
  <2>1. /\ events' = events \o Copies(Observed, k) /\ synced' = Observed
        /\ observers' = k /\ k \in Nat /\ k > 0
    BY <1>2, <1>6 DEF SnapshotArrives
  <2>2. Observed \in Snapshot
    BY <1>1, ObservedTyped
  <2> HIDE DEF k
  <2>3. /\ events' \in Seq(Snapshot) /\ Len(events') = Len(events) + k
        /\ events'[Len(events) + k] = Observed
    BY <1>2, <2>1, <2>2, CopiesFollow
  <2>4. events' # <<>>
    BY <1>2, <2>1, <2>3
  <2>5. events'[Len(events')] = synced'
    BY <2>1, <2>3
  <2> QED
    BY <2>1, <2>4, <2>5 DEF NewestEventInv
<1>7. CASE RentsFetched
  <2>1. /\ events # <<>> /\ events' = Tail(events) /\ synced' = synced
        /\ userRentNumbers' = NewestFirst(Head(events)) /\ observers' = observers
    BY <1>7 DEF RentsFetched, Listed
  <2>2. /\ Tail(events) \in Seq(Snapshot) /\ Len(Tail(events)) = Len(events) - 1
        /\ \A i \in 1 .. Len(Tail(events)) : Tail(events)[i] = events[i + 1]
    BY <1>2, <2>1, HeadTailProperties
  <2>3. Len(events) > 0 /\ Head(events) = events[1]
    BY <1>2, <2>1, EmptySeq
  <2>4. observers # 0 /\ events[Len(events)] = synced
    BY <1>2, <2>1 DEF NewestEventInv
  <2>5. CASE Len(events) = 1
    <3>1. Tail(events) = <<>>
      <4> DEFINE rest == Tail(events)
      <4>1. rest \in Seq(Snapshot) /\ Len(rest) = 0
        BY <2>2, <2>5
      <4> HIDE DEF rest
      <4>2. rest = <<>>
        BY <4>1, EmptySeq
      <4> QED
        BY <4>2 DEF rest
    <3>2. userRentNumbers' = NewestFirst(synced')
      BY <2>1, <2>3, <2>4, <2>5
    <3>3. events' = <<>> /\ observers' # 0
      BY <2>1, <2>4, <3>1
    <3> QED
      BY <3>2, <3>3 DEF NewestEventInv
  <2>6. CASE Len(events) > 1
    <3>1. /\ Len(events) - 1 \in 1 .. Len(Tail(events))
          /\ Len(events) - 1 + 1 = Len(events)
      BY <1>2, <2>2, <2>6
    <3>2. Tail(events)[Len(Tail(events))] = synced
      BY <2>2, <2>4, <3>1
    <3>3. Tail(events) # <<>>
      <4>1. Len(Tail(events)) # 0
        BY <1>2, <2>2, <2>6
      <4> QED
        BY <4>1, <2>2, EmptySeq
    <3> QED
      BY <2>1, <2>4, <3>2, <3>3 DEF NewestEventInv
  <2>7. Len(events) = 1 \/ Len(events) > 1
    <3> DEFINE n == Len(events)
    <3>1. n \in Nat /\ n > 0
      BY <1>2, <2>3
    <3> HIDE DEF n
    <3>2. n = 1 \/ n > 1
      BY <3>1
    <3> QED
      BY <3>2 DEF n
  <2> QED
    BY <2>5, <2>6, <2>7
<1>8. CASE Restart
  BY <1>8 DEF Restart, NewestEventInv
<1> QED
  BY <1>3, <1>4, <1>5, <1>6, <1>7, <1>8, ListFrame DEF rentVars

LEMMA NewestEventHolds == RentSpec => []NewestEventInv
<1>1. RentInit => NewestEventInv
  BY DEF RentInit, NewestEventInv
<1> QED
  BY <1>1, TypesHold, NewestEventStep, PTL DEF RentSpec

(***************************************************************************)
(* When every snapshot has been handled, the list of fetchUserRent is the  *)
(* database's, for any number of observers, cached first events and        *)
(* changes that arrive while earlier snapshots wait.                       *)
(***************************************************************************)
THEOREM RentListAgrees == RentSpec => []RentListSettles
<1>1. NewestEventInv => RentListSettles
  BY DEF NewestEventInv, RentListSettles
<1> QED
  BY <1>1, NewestEventHolds, PTL

-----------------------------------------------------------------------------
(***************************************************************************)
(* The balance settles.  Unless a change went unnoticed, some request will *)
(* still fetch the balance, or the newest answer that waits holds it, or   *)
(* the cache does.                                                         *)
(***************************************************************************)
\* No answer to a balance request is newer than the one of r.
Newest(r) == answeredBefore[r] = Fetched \ {r}

\* A call of the host has changed the balance and will fetch it.
ChangeUnfetched == \E r \in Slots : web[r].call \in HostRequests /\ web[r].answer = "ok"

BalanceOnItsWay ==
    \/ \E r \in Slots : web[r].call = "balance" /\ web[r].answer = "pending"
    \/ Fetched = {} /\ userRentBalance = balances[token]
    \/ \E r \in Fetched : Newest(r) /\ (web[r].answer = "ok" => web[r].balance = balances[token])

FetchesCarryToken == \A r \in Slots : web[r].call = "balance" => web[r].token = token

RentBalanceInv ==
    ~missed => /\ FetchesCarryToken
               /\ token # Nil /\ ~ChangeUnfetched => BalanceOnItsWay

LEMMA BalanceFrame ==
    ASSUME RentNext
    PROVE  \/ UNCHANGED <<webVars, token, balances, userRentBalance, missed>>
           \/ \E user \in Users \cup {Nil}, complete, isRentActive \in BOOLEAN :
                 NewSMSActivate(user, complete, isRentActive) /\ InitLogsIn(user, complete)
           \/ RentNumber
           \/ \E n \in Rents : CancelRent(n)
           \/ \E quantity \in Quantities : SavePurchase(quantity)
           \/ \E r \in Slots : Closure(r) \/ Serve(r) \/ LoseAnswer(r)
           \/ Restart
<1>1. CASE \E user \in Users \cup {Nil}, complete, isRentActive \in BOOLEAN :
              NewSMSActivate(user, complete, isRentActive)
  BY <1>1 DEF NewSMSActivate, InitFails, InitThrows, InitSucceeds, serverVars
<1>2. CASE UseFailedObject
  BY <1>2 DEF UseFailedObject, serverVars
<1>3. CASE GetRentData
  BY <1>3 DEF GetRentData, serverVars
<1>4. CASE SelectRent
  BY <1>4 DEF SelectRent, serverVars
<1>5. CASE \/ RentNumber
           \/ \E n \in Rents : CancelRent(n)
           \/ \E quantity \in Quantities : SavePurchase(quantity)
  BY <1>5
<1>6. CASE \E n \in Rents : CodeArrives(n)
  BY <1>6 DEF CodeArrives
<1>7. CASE \E r \in Slots : Closure(r)
  BY <1>7
<1>8. CASE \E r \in Slots : Serve(r)
  BY <1>8
<1>9. CASE \E r \in Slots : LoseAnswer(r)
  BY <1>9
<1>10. CASE Database
  BY <1>10, DatabaseKeeps DEF serverVars
<1>11. CASE Restart
  BY <1>11
<1> QED
  BY StepKinds, <1>1, <1>2, <1>3, <1>4, <1>5, <1>6, <1>7, <1>8, <1>9, <1>10, <1>11, Zenon

\* A free slot takes a request that is not about the balance.
LEMMA BalanceAfterSending ==
    ASSUME TypedInv, RentBalanceInv, NEW r \in Slots, NEW request \in Request,
           web[r].call = "idle", request.call # "balance", request.answer = "pending",
           web' = [web EXCEPT ![r] = request],
           UNCHANGED <<answeredBefore, token, balances, userRentBalance, missed>>
    PROVE  RentBalanceInv'
<1>1. web'[r] = request /\ \A q \in Slots : q # r => web'[q] = web[q]
  BY SlotFilled
<1>2. \A q \in Slots : /\ web'[q].call = "balance" <=> web[q].call = "balance"
                       /\ web[q].call = "balance" => web'[q] = web[q]
  BY <1>1
<1>3. Fetched' = Fetched /\ \A q \in Fetched : web'[q] = web[q]
  BY <1>2 DEF Fetched
<1>4. ChangeUnfetched => ChangeUnfetched'
  BY <1>1 DEF ChangeUnfetched, HostRequests
<1>5. BalanceOnItsWay => BalanceOnItsWay'
  BY <1>2, <1>3 DEF BalanceOnItsWay, Newest
<1>6. FetchesCarryToken => FetchesCarryToken'
  BY <1>2 DEF FetchesCarryToken
<1> QED
  BY <1>4, <1>5, <1>6 DEF RentBalanceInv

\* The slot of a request that was not about the balance is free again.
LEMMA BalanceAfterRelease ==
    ASSUME TypedInv, RentBalanceInv, NEW r \in Slots, web[r].call # "balance",
           ~(web[r].call \in HostRequests /\ web[r].answer = "ok"),
           Release(r), UNCHANGED <<token, balances, userRentBalance, missed>>
    PROVE  RentBalanceInv'
<1>1. /\ web'[r] = Idle /\ \A q \in Slots : q # r => web'[q] = web[q]
      /\ answeredBefore' = [q \in Slots |-> IF q = r THEN {} ELSE answeredBefore[q] \ {r}]
  BY SlotFilled, RequestTypes DEF Release, Forget
<1>2. \A q \in Slots : /\ web'[q].call = "balance" <=> web[q].call = "balance"
                       /\ web[q].call = "balance" => web'[q] = web[q]
  BY <1>1 DEF Idle
<1>3. Fetched' = Fetched /\ r \notin Fetched /\ \A q \in Fetched : web'[q] = web[q]
  BY <1>2 DEF Fetched
<1>4. \A q \in Fetched : answeredBefore'[q] = answeredBefore[q] \ {r}
  BY <1>1, <1>3 DEF Fetched
<1>5. \A q \in Fetched : Newest(q) => answeredBefore'[q] = Fetched' \ {q}
  BY <1>3, <1>4 DEF Newest
<1>6. ChangeUnfetched => ChangeUnfetched'
  BY <1>1 DEF ChangeUnfetched
<1>7. BalanceOnItsWay => BalanceOnItsWay'
  BY <1>2, <1>3, <1>5 DEF BalanceOnItsWay, Newest
<1>8. FetchesCarryToken => FetchesCarryToken'
  BY <1>2 DEF FetchesCarryToken
<1> QED
  BY <1>6, <1>7, <1>8 DEF RentBalanceInv

\* The answer of a balance request is stored.
LEMMA BalanceAfterAnswer ==
    ASSUME TypedInv, RentBalanceInv, NEW r \in Slots, BalanceAnswered(r)
    PROVE  RentBalanceInv'
<1> SUFFICES ASSUME ~missed'
             PROVE  /\ FetchesCarryToken'
                    /\ token' # Nil /\ ~ChangeUnfetched' => BalanceOnItsWay'
  BY DEF RentBalanceInv
<1>1. /\ web[r].call = "balance" /\ web[r].answer # "pending"
      /\ userRentBalance' = IF web[r].answer = "ok" THEN web[r].balance ELSE userRentBalance
      /\ ~missed /\ web[r].answer # "failed" /\ answeredBefore[r] = {}
      /\ Release(r) /\ token' = token /\ balances' = balances
  BY DEF BalanceAnswered, Answered, Overtakes, serverVars
<1>2. web[r].answer = "ok"
  BY <1>1, TypeParts DEF WebTypes, Request
<1>3. /\ web'[r] = Idle /\ \A q \in Slots : q # r => web'[q] = web[q]
      /\ answeredBefore' = [q \in Slots |-> IF q = r THEN {} ELSE answeredBefore[q] \ {r}]
  BY <1>1, SlotFilled, RequestTypes DEF Release, Forget
<1>4. r \in Fetched /\ Fetched' = Fetched \ {r}
  <2>1. Idle.call = "idle"
    BY DEF Idle
  <2> QED
    BY <1>1, <1>3, <2>1 DEF Fetched
<1>5. FetchesCarryToken'
  <2>1. FetchesCarryToken
    BY <1>1 DEF RentBalanceInv
  <2> QED
    BY <1>1, <1>3, <2>1 DEF FetchesCarryToken, Idle
<1>6. ASSUME token' # Nil, ~ChangeUnfetched'
      PROVE  BalanceOnItsWay'
  <2>1. ~ChangeUnfetched
    <3>1. \A q \in Slots : web[q].call \in HostRequests => q # r /\ web'[q] = web[q]
      BY <1>1, <1>3 DEF HostRequests
    <3> QED
      BY <1>6, <3>1 DEF ChangeUnfetched
  <2>2. BalanceOnItsWay
    BY <1>1, <1>6, <2>1 DEF RentBalanceInv
  <2>3. CASE \E q \in Slots : web[q].call = "balance" /\ web[q].answer = "pending"
    BY <2>3, <1>1, <1>3 DEF BalanceOnItsWay
  <2>4. ASSUME NEW q \in Fetched, Newest(q),
               web[q].answer = "ok" => web[q].balance = balances[token]
        PROVE  BalanceOnItsWay'
    <3>1. CASE q = r
      <4>1. Fetched' = {}
        BY <1>1, <1>4, <2>4, <3>1 DEF Newest
      <4>2. userRentBalance' = balances'[token']
        BY <1>1, <1>2, <2>4, <3>1
      <4> QED
        BY <4>1, <4>2 DEF BalanceOnItsWay
    <3>2. CASE q # r
      <4>1. q \in Fetched' /\ q \in Slots /\ web'[q] = web[q]
        BY <1>3, <1>4, <3>2 DEF Fetched
      <4>2. answeredBefore'[q] = Fetched' \ {q}
        BY <1>3, <1>4, <2>4, <3>2, <4>1 DEF Newest
      <4> QED
        BY <1>1, <2>4, <4>1, <4>2 DEF BalanceOnItsWay, Newest
    <3> QED
      BY <3>1, <3>2
  <2> QED
    BY <1>4, <2>2, <2>3, <2>4 DEF BalanceOnItsWay
<1> QED
  BY <1>5, <1>6

\* A request that fetches the balance with the stored token is on its way.
LEMMA BalanceAfterFetch ==
    ASSUME NEW q \in Slots, web'[q].call = "balance", web'[q].answer = "pending",
           ~missed' => FetchesCarryToken'
    PROVE  RentBalanceInv'
BY DEF RentBalanceInv, BalanceOnItsWay

\* An answer of the service.
LEMMA BalanceAfterResponse ==
    ASSUME TypedInv, RentBalanceInv, NEW r \in Slots, NEW response, Response(r, response)
    PROVE  RentBalanceInv'
<1>1. /\ web[r].answer = "pending" /\ web' = [web EXCEPT ![r] = response]
      /\ answeredBefore' = IF web[r].call = "balance"
                           THEN [answeredBefore EXCEPT ![r] = Fetched] ELSE answeredBefore
      /\ token' = token /\ userRentBalance' = userRentBalance /\ missed' = missed
      /\ response \in Request /\ response.call = web[r].call /\ response.token = web[r].token
      /\ response.answer \in {"ok", "failed"}
  BY DEF Response, Respond
<1>2. web'[r] = response /\ \A q \in Slots : q # r => web'[q] = web[q]
  BY <1>1, SlotFilled
<1>3. \A q \in Slots : web'[q].call = web[q].call /\ web'[q].token = web[q].token
  BY <1>1, <1>2
<1>4. FetchesCarryToken => FetchesCarryToken'
  BY <1>1, <1>3 DEF FetchesCarryToken
<1> SUFFICES ASSUME ~missed, FetchesCarryToken, token # Nil, ~ChangeUnfetched'
             PROVE  BalanceOnItsWay'
  BY <1>1, <1>4 DEF RentBalanceInv
<1>5. ~ChangeUnfetched
  <2> SUFFICES ASSUME NEW q \in Slots, web[q].call \in HostRequests, web[q].answer = "ok"
               PROVE  FALSE
    BY DEF ChangeUnfetched
  <2>1. q # r
    BY <1>1
  <2> QED
    BY <1>2, <2>1 DEF ChangeUnfetched
<1>6. balances' = balances
  BY <1>2, <1>3 DEF Response, ChangeUnfetched
<1>7. BalanceOnItsWay
  BY <1>5 DEF RentBalanceInv
<1>8. CASE web[r].call = "balance"
  <2>1. r \in Fetched' /\ Fetched' = Fetched \cup {r} /\ r \notin Fetched
    <3>1. response.answer # "pending"
      BY <1>1
    <3> QED
      BY <1>1, <1>2, <1>8, <3>1 DEF Fetched
  <2>2. answeredBefore'[r] = Fetched' \ {r}
    <3>1. answeredBefore \in [Slots -> SUBSET Slots]
      BY TypeParts DEF WebTypes
    <3> QED
      BY <1>1, <1>8, <2>1, <3>1
  <2>3. web'[r].answer = "ok" => web'[r].balance = balances'[token']
    <3>1. web[r].token = token
      BY <1>8 DEF FetchesCarryToken
    <3> QED
      BY <1>1, <1>2, <1>6, <1>8, <3>1 DEF Response
  <2> QED
    BY <2>1, <2>2, <2>3 DEF BalanceOnItsWay, Newest
<1>9. CASE web[r].call # "balance"
  <2>1. \A q \in Slots : web[q].call = "balance" => web'[q] = web[q]
    BY <1>2, <1>9
  <2>2. Fetched' = Fetched /\ \A q \in Fetched : web'[q] = web[q]
    BY <1>3, <2>1 DEF Fetched
  <2> QED
    BY <1>1, <1>3, <1>6, <1>7, <1>9, <2>1, <2>2 DEF BalanceOnItsWay, Newest
<1> QED
  BY <1>8, <1>9

\* An answer is lost.
LEMMA BalanceAfterLoss ==
    ASSUME TypedInv, RentBalanceInv, NEW r \in Slots, LoseAnswer(r)
    PROVE  RentBalanceInv'
<1> DEFINE lost == [web[r] EXCEPT !.answer = "failed"]
<1>1. /\ web[r].answer = "ok" /\ web' = [web EXCEPT ![r] = lost]
      /\ missed' = (missed \/ web[r].call \in HostRequests)
      /\ UNCHANGED <<answeredBefore, token, balances, userRentBalance>>
  BY DEF LoseAnswer, serverVars
<1>2. /\ lost \in Request /\ lost.call = web[r].call /\ lost.token = web[r].token
      /\ lost.answer = "failed"
  <2>1. web[r] \in Request
    BY TypeParts DEF WebTypes
  <2> QED
    BY <2>1 DEF Request
<1> HIDE DEF lost
<1>3. web'[r] = lost /\ \A q \in Slots : q # r => web'[q] = web[q]
  BY <1>1, <1>2, SlotFilled
<1>4. \A q \in Slots : /\ web'[q].call = web[q].call /\ web'[q].token = web[q].token
                       /\ web'[q].answer = "pending" <=> web[q].answer = "pending"
                       /\ web'[q].answer = "ok" => web'[q] = web[q]
  BY <1>1, <1>2, <1>3
<1>5. Fetched' = Fetched
  BY <1>4 DEF Fetched
<1> SUFFICES ASSUME ~missed, web[r].call \notin HostRequests
             PROVE  /\ FetchesCarryToken'
                    /\ token' # Nil /\ ~ChangeUnfetched' => BalanceOnItsWay'
  BY <1>1 DEF RentBalanceInv
<1>6. FetchesCarryToken'
  BY <1>1, <1>4 DEF RentBalanceInv, FetchesCarryToken
<1>7. ASSUME token' # Nil, ~ChangeUnfetched'
      PROVE  BalanceOnItsWay'
  <2>1. ~ChangeUnfetched
    BY <1>3, <1>7 DEF ChangeUnfetched
  <2>2. BalanceOnItsWay
    BY <1>1, <1>7, <2>1 DEF RentBalanceInv
  <2>3. \A q \in Fetched : q \in Slots
    BY DEF Fetched
  <2> QED
    BY <1>1, <1>4, <1>5, <2>2, <2>3 DEF BalanceOnItsWay, Newest
<1> QED
  BY <1>6, <1>7

LEMMA RentBalanceStep ==
    ASSUME TypedInv, RentBalanceInv, [RentNext]_rentVars
    PROVE  RentBalanceInv'
<1>1. CASE UNCHANGED <<webVars, token, balances, userRentBalance, missed>>
  BY <1>1 DEF webVars, RentBalanceInv, FetchesCarryToken, ChangeUnfetched, BalanceOnItsWay,
              Fetched, Newest
<1>2. ASSUME NEW user \in Users \cup {Nil}, NEW complete \in BOOLEAN,
             NEW isRentActive \in BOOLEAN, NewSMSActivate(user, complete, isRentActive),
             InitLogsIn(user, complete)
      PROVE  RentBalanceInv'
  <2>1. PICK r \in Free : web' = [web EXCEPT ![r] = LoginRequest(user)]
    BY <1>2 DEF InitLogsIn
  <2>2. /\ r \in Slots /\ web[r].call = "idle" /\ user \in Users
        /\ UNCHANGED <<answeredBefore, token, balances, userRentBalance, missed>>
    BY <1>2, <2>1 DEF InitLogsIn, Accepts, Free, NewSMSActivate, serverVars
  <2>3. /\ LoginRequest(user) \in Request /\ LoginRequest(user).call # "balance"
        /\ LoginRequest(user).answer = "pending"
    BY <2>2, RequestTypes DEF LoginRequest, Idle
  <2> QED
    BY <2>1, <2>2, <2>3, BalanceAfterSending
<1>3. ASSUME NEW request \in Request, request.call \in HostRequests,
             request.answer = "pending", HostSends(request)
      PROVE  RentBalanceInv'
  <2>1. PICK r \in Slots : web[r].call = "idle" /\ web' = [web EXCEPT ![r] = request]
    BY <1>3 DEF HostSends, Free
  <2>2. UNCHANGED <<answeredBefore, token, balances, userRentBalance, missed>>
    BY <1>3 DEF HostSends, serverVars
  <2>3. request.call # "balance"
    BY <1>3 DEF HostRequests
  <2> QED
    BY <1>3, <2>1, <2>2, <2>3, BalanceAfterSending
<1>4. ASSUME NEW r \in Slots, LoginSucceeded(r)
      PROVE  RentBalanceInv'
  <2>1. PICK q \in Free : web' = [web EXCEPT ![r] = Authorized("services", token'),
                                             ![q] = Authorized("balance", token')]
    BY <1>4 DEF LoginSucceeded
  <2>2. q \in Slots /\ web[q].call = "idle" /\ web[r].call = "login"
    BY <1>4, <2>1 DEF Free, LoginSucceeded, Answered
  <2>3. /\ Authorized("services", token').call = "services"
        /\ Authorized("balance", token').call = "balance"
        /\ Authorized("balance", token').token = token'
        /\ Authorized("balance", token').answer = "pending"
    BY DEF Authorized, Idle
  <2>4. web \in [Slots -> Request]
    BY TypeParts DEF WebTypes
  <2>5. /\ web'[r] = Authorized("services", token') /\ web'[q] = Authorized("balance", token')
        /\ \A p \in Slots : p # r /\ p # q => web'[p] = web[p]
    BY <2>1, <2>2, <2>4
  <2>6. ASSUME ~missed'
        PROVE  FetchesCarryToken'
    <3>1. \A p \in Slots \ {r} : web[p].call = "balance" => web[p].token = token'
      BY <1>4, <2>6 DEF LoginSucceeded, FetchDecides, Waiting
    <3> QED
      BY <2>3, <2>5, <3>1 DEF FetchesCarryToken
  <2> QED
    BY <2>2, <2>3, <2>5, <2>6, BalanceAfterFetch
<1>5. ASSUME NEW r \in Slots, LoginFailed(r) \/ ServicesAnswered(r) \/ HostCallFailed(r)
      PROVE  RentBalanceInv'
  <2>1. /\ Release(r) /\ UNCHANGED <<token, balances, userRentBalance, missed>>
    BY <1>5 DEF LoginFailed, ServicesAnswered, HostCallFailed, serverVars
  <2>2. web[r].call # "balance" /\ ~(web[r].call \in HostRequests /\ web[r].answer = "ok")
    BY <1>5 DEF LoginFailed, ServicesAnswered, HostCallFailed, Answered, HostRequests
  <2> QED
    BY <2>1, <2>2, BalanceAfterRelease
<1>6. ASSUME NEW r \in Slots, HostCallSucceeded(r)
      PROVE  RentBalanceInv'
  <2>1. /\ web' = [web EXCEPT ![r] = Authorized("balance", token)] /\ token' = token
        /\ missed' = (missed /\ Waiting({"balance"}, {r}) # {})
    BY <1>6 DEF HostCallSucceeded, FetchUserBalance
  <2>2. /\ Authorized("balance", token) \in Request
        /\ Authorized("balance", token).call = "balance"
        /\ Authorized("balance", token).token = token
        /\ Authorized("balance", token).answer = "pending"
    <3>1. token \in Users \cup {Nil} /\ "balance" \in Calls
      BY TypeParts DEF ConfigTypes, Calls
    <3> QED
      BY <3>1, RequestTypes DEF Authorized, Idle
  <2>3. web'[r] = Authorized("balance", token) /\ \A q \in Slots : q # r => web'[q] = web[q]
    BY <2>1, <2>2, SlotFilled
  <2>4. ASSUME ~missed'
        PROVE  FetchesCarryToken'
    <3>1. \A q \in Slots \ {r} : web[q].call = "balance" => web[q].token = token
      BY <2>1, <2>4 DEF RentBalanceInv, FetchesCarryToken, Waiting
    <3> QED
      BY <2>1, <2>2, <2>3, <3>1 DEF FetchesCarryToken
  <2> QED
    BY <2>2, <2>3, <2>4, BalanceAfterFetch
<1>7. ASSUME NEW r \in Slots, Serve(r)
      PROVE  RentBalanceInv'
  BY <1>7, ServeResponds, BalanceAfterResponse
<1>8. CASE Restart
  BY <1>8 DEF Restart, RentBalanceInv
<1>9. CASE UNCHANGED rentVars
  BY <1>1, <1>9 DEF rentVars, serverVars
<1> QED
  <2>1. ASSUME NEW r \in Slots, Closure(r)
        PROVE  RentBalanceInv'
    BY <2>1, <1>1, <1>4, <1>5, <1>6, BalanceAfterAnswer
       DEF Closure, ServicesTrap, ClosureTraps, serverVars
  <2>2. CASE \/ RentNumber
             \/ \E n \in Rents : CancelRent(n)
             \/ \E quantity \in Quantities : SavePurchase(quantity)
    BY <2>2, <1>3, HostRequestSent
  <2>3. ASSUME NEW r \in Slots, LoseAnswer(r)
        PROVE  RentBalanceInv'
    BY <2>3, BalanceAfterLoss
  <2> QED
    BY <1>1, <1>2, <1>7, <1>8, <1>9, <2>1, <2>2, <2>3, BalanceFrame

LEMMA RentBalanceHolds == RentSpec => []RentBalanceInv
<1>1. RentInit => RentBalanceInv
  BY DEF RentInit, RentBalanceInv
<1> QED
  BY <1>1, TypesHold, RentBalanceStep, PTL DEF RentSpec

(***************************************************************************)
(* With no request about the balance on its way, Constant.userRentBalance  *)
(* is the balance of the stored token's account, unless an answer was lost *)
(* or two of them overtook each other, for any number of rents, cancels,   *)
(* purchases, logins and fetches that overlap.                             *)
(***************************************************************************)
THEOREM RentBalanceAgrees == RentSpec => []RentBalanceSettles
<1>1. ASSUME RentBalanceInv
      PROVE  RentBalanceSettles
  <2> SUFFICES ASSUME ~missed, token # Nil,
                      Waiting(HostRequests \cup {"balance", "login"}, {}) = {}
               PROVE  userRentBalance = balances[token]
    BY DEF RentBalanceSettles
  <2>1. \A r \in Slots : web[r].call \notin HostRequests /\ web[r].call # "balance"
    BY DEF Waiting
  <2>2. ~ChangeUnfetched /\ Fetched = {}
    BY <2>1 DEF ChangeUnfetched, Fetched
  <2>3. BalanceOnItsWay
    BY <1>1, <2>2 DEF RentBalanceInv
  <2> QED
    BY <2>1, <2>2, <2>3 DEF BalanceOnItsWay
<1> QED
  BY <1>1, RentBalanceHolds, PTL
=============================================================================
