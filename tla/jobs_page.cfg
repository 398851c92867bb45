CONSTANTS
    Deps = {all, failed}
    NoData = NoData
    MaxVersion = 2
    MaxFlights = 2
    Offers <- MCOffers
    MaxSubmits = 2
SPECIFICATION PageSpec
INVARIANTS
    JobsPageTypeOK
    ToldJobsAreListed
    NoticeIsOwn
PROPERTIES
    ImplementsFreshView
