CONSTANTS
    Jobs = {1}
    Runners = {d}
    D = d
    NoJob = NoJob
    MaxFaults = 1
    Capacity = 1
SPECIFICATION Spec
INVARIANT NeverLeftInProgress
