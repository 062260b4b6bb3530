SPECIFICATION RentSpec
CONSTANTS
    u1 = u1
    u2 = u2
    s1 = s1
    c1 = c1
    n1 = n1
    r1 = r1
    r2 = r2
    r3 = r3
    Nil = Nil
    Unborn = Unborn
    Users = {u1, u2}
    RentServices = {s1}
    Catalogue <- OneService
    RentCountries = {}
    SupportedCountries <- NoneSupported
    Rents = {n1}
    Slots = {r1, r2, r3}
    Quantities = {}
    RentFaults = {"noToken", "restart"}
    HostHabits = {"switchesUser", "badConfig", "usesFailedObject"}
    MaxInits = 2
    MaxRentBalance = 0
INVARIANT TrapsOnlyUnnamed
INVARIANT InitReported
INVARIANT TokenOfLogin
INVARIANT ListOwnedByLogin
INVARIANT RentListSettles
SYMMETRY AccountSymmetry
CHECK_DEADLOCK FALSE
