CONSTANTS
    Jobs = {1, 2}
    Hosts = {1, 2}
    Resources = {a, b}
    NoResource = NoResource
    GlobalVerification = TRUE
    Parallel = FALSE
SPECIFICATION MCSpec
INVARIANTS
    TypeOK
    NeverRecordsUnverified
    NoTempLeak
    CompletedIsComplete
    EveryResourceSettled
    StaysRestorable
PROPERTIES
    RecordedWhileStored
    OtherHostsUntouched
    PipelineEnds
CHECK_DEADLOCK FALSE
