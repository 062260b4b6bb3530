SPECIFICATION StoreSpec
CONSTANTS
    Fields = {userBalance, fcmToken}
    Values = {v1, v2}
    Nil = Nil
    Updates <- SetsAndUpdates
    MaxBatchId = 3
    MaxVersion = 4
    StoreFaults = {"lostResults", "restart", "refused", "otherDevice"}
INVARIANTS
    StoreTypeOK
    OwnViewIsReplay
    OwnWritesSeen
    OverlayOfNewest
CHECK_DEADLOCK FALSE
