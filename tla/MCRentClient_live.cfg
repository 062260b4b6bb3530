SPECIFICATION FairRentSpec
CONSTANTS
    u1 = u1
    u2 = u2
    s1 = s1
    c1 = c1
    n1 = n1
    r1 = r1
    r2 = r2
    r3 = r3
    Nil = Nil
    Unborn = Unborn
    Users = {u1}
    RentServices = {}
    Catalogue <- NoServices
    RentCountries = {}
    SupportedCountries <- NoneSupports
    Rents = {n1}
    Slots = {r1, r2, r3}
    Quantities = {}
    RentFaults = {}
    HostHabits = {}
    MaxInits = 2
    MaxRentBalance = 0
PROPERTY RentCallsComplete
PROPERTY InitsReport
PROPERTY RentListConverges
CHECK_DEADLOCK FALSE
