CONSTANTS
    Jobs = {1, 2}
    Runners = {d, c}
    D = d
    NoJob = NoJob
    MaxFaults = 1
    Capacity = 1
SPECIFICATION DeploymentSpec
INVARIANTS
    DeploymentTypeOK
    UnexposedTruthful
PROPERTIES
    UnexposedRunOnce
    UnexposedFinal
