CONSTANTS
    Id = id
    NoData = NoData
    MaxEvents = 2
    MaxFlights = 2
SPECIFICATION FairSpec
INVARIANTS
    JobDetailTypeOK
PROPERTIES
    RowAndTimelineAreFresh
    EndIsShown
