CONSTANTS
    Deps = {all, failed}
    NoData = NoData
    MaxVersion = 2
    MaxFlights = 3
SPECIFICATION HookSpec
INVARIANT LoadingWillEnd
CHECK_DEADLOCK FALSE
