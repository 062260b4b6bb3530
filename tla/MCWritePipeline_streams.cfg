SPECIFICATION FairPipelineSpec
CONSTANTS
    Refused = {2, 3}
    MaxPendingWrites = 2
    MaxWrites = 4
    MaxCloses = 3
    MaxRestarts = 2
    StreamFaults <- AllStreamFaults
INVARIANTS
    PipelineTypeOK
    NoAssertionFails
    PipelineHoldsOldest
    ReportedTruthfully
    LastWriteStands
PROPERTIES
    ImplementsWriteAcks
    QueueDrains
    WritesReported
CHECK_DEADLOCK FALSE
