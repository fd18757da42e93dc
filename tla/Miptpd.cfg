SPECIFICATION FairSpec
CONSTANTS
    c1 = c1
    c2 = c2
    Clients <- MCClients
    Requests <- MCRequests
    EventsBuffers = {1, 2}
    DescriptorLimits = {1, 2}
CHECK_DEADLOCK FALSE
INVARIANTS
    TypeOK
    ConnectionsSound
    EndsOnlyFor
PROPERTIES
    Ends
    RequestsRead
