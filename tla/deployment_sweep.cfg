CONSTANTS
    Jobs = {1}
    Runners = {d, c}
    D = d
    NoJob = NoJob
    MaxFaults = 1
    Capacity = 1
SPECIFICATION DeploymentSpec
PROPERTY SweepSparesTheLiving
