CONSTANTS
    Id = id
    NoData = NoData
    MaxEvents = 2
    MaxFlights = 2
SPECIFICATION Spec
INVARIANT TimelineIsComplete
CHECK_DEADLOCK FALSE
