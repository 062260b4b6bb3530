CONSTANTS
    o1 = o1
    o2 = o2
    s1 = s1
    s2 = s2
    c1 = c1
    r1 = r1
    r2 = r2
    r3 = r3
    t1 = t1
    Nil = Nil
    Orders <- OneOrder
    Services <- OneService
    Countries <- OneCountry
    Requests <- OneRequest
    Tokens <- OneToken
    Amounts <- NoAmounts
    StoredBalances <- StoredOne
    HostCalls <- InitAndToken
    Faults <- ReadsAndRestart
    FinishFrom <- Open
    CancelFrom <- Open
    FirestoreOnline = TRUE
    RepeatAccepted = FALSE
    HostSerial = TRUE
    Timeout = 1
    MaxBalance = 1
    MaxOutstanding = 1
SPECIFICATION Spec
INVARIANTS
    SerialUpdatesExact
    CacheSettles
    ListSettles
