SPECIFICATION RentSpec
CONSTANTS
    u1 = u1
    u2 = u2
    s1 = s1
    c1 = c1
    n1 = n1
    r1 = r1
    r2 = r2
    r3 = r3
    Nil = Nil
    Unborn = Unborn
    Users = {u1}
    RentServices = {s1}
    Catalogue <- OneService
    RentCountries = {c1}
    SupportedCountries <- OneSupports
    Rents = {n1}
    Slots = {r1, r2, r3}
    Quantities = {1}
    RentFaults = {"lostAnswer", "missingField", "badRecord"}
    HostHabits = {}
    MaxInits = 1
    MaxRentBalance = 1
INVARIANT RentTypeOK
INVARIANT RentBalanceSettles
SYMMETRY AccountSymmetry
CHECK_DEADLOCK FALSE
