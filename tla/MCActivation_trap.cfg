CONSTANTS
    o1 = o1
    o2 = o2
    s1 = s1
    s2 = s2
    c1 = c1
    r1 = r1
    r2 = r2
    r3 = r3
    t1 = t1
    Nil = Nil
    Orders <- TwoOrders
    Services <- OneService
    Countries <- OneCountry
    Requests <- TwoRequests
    Tokens <- NoTokens
    Amounts <- NoAmounts
    StoredBalances <- StoredOne
    HostCalls <- NoHostCalls
    Faults <- NoFaults
    FinishFrom <- Open
    CancelFrom <- Open
    FirestoreOnline = FALSE
    RepeatAccepted = FALSE
    HostSerial = FALSE
    Timeout = 1
    MaxBalance = 2
    MaxOutstanding = 3
SPECIFICATION Spec
CHECK_DEADLOCK FALSE
INVARIANTS
    NoTrap
