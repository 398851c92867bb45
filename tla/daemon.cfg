CONSTANTS
    Jobs = {1, 2}
    Runners = {d}
    D = d
    NoJob = NoJob
    MaxFaults = 2
    Capacity = 1
SPECIFICATION FairSpec
INVARIANTS
    TypeOK
    OnePlace
    NoSilentLoss
    NoSilentOrphan
    TruthfulCompletion
PROPERTIES
    ImplementsLedger
    ShutdownCompletes
    QueuedJobSettles
    OrphansSettle
