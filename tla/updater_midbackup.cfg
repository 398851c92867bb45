CONSTANTS
    Jobs = {1}
    Runners = {d}
    D = d
    NoJob = NoJob
    MaxFaults = 0
    Capacity = 1
    Tags = {v1, v2}
    Good = {v1, v2}
    NoTag = NoTag
    Keep = 1
SPECIFICATION UpdaterSpec
PROPERTY NeverRestartsMidBackup
