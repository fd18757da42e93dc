SPECIFICATION FairSpec
CONSTANTS
    MaxCost = 4
    MaxAge = 2
    BroadcastFreq = 1
    PollingTimeout = 2
    PackageEntries = 4
    MaxInbox = 1
    OwnAddresses <- MCOwn
    Destinations = {1, 4}
    Packages <- MCTwoNeighbours
INVARIANTS
    TypeOK
    BroadcastsInTime
    NothingStale
PROPERTIES
    ImplementsService
    LookupsAnswered
CHECK_DEADLOCK FALSE
