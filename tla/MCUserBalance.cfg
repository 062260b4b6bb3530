CONSTANTS
    t1 = t1
    Nil = Nil
    Orders <- MCOrders
    Services <- MCServices
    Countries <- MCCountries
    Tokens <- MCTokens
    FirestoreOnline = TRUE
    Faults <- MCFaults
    Amounts <- MCAmounts
    StoredBalances <- MCStored
    HostCalls <- MCHostCalls
    MaxBalance = 3
    MaxOutstanding = 4
SPECIFICATION BalanceSpec
INVARIANTS
    BalanceTypeOK
    SerialUpdatesExact
    CacheSettles
