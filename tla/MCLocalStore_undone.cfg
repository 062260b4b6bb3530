SPECIFICATION StoreSpec
CONSTANTS
    Fields = {userBalance, fcmToken}
    Values = {v1, v2}
    Nil = Nil
    Updates <- SetsAndUpdates
    MaxBatchId = 2
    MaxVersion = 3
    StoreFaults = {"refused"}
INVARIANTS
    ViewIsReplay
CHECK_DEADLOCK FALSE
