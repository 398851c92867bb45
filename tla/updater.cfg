CONSTANTS
    Jobs = {1}
    Runners = {d}
    D = d
    NoJob = NoJob
    MaxFaults = 1
    Capacity = 1
    Tags = {v1, v2, v3}
    Good = {v1, v2}
    NoTag = NoTag
    Keep = 1
SPECIFICATION UpdaterSpec
INVARIANTS
    UpdaterTypeOK
    InUseIsInstalled
    SeenBackupsFinish
    RunsWhatItPointsTo
    NeverLeftBroken
PROPERTY UpdatesKeepLedger
