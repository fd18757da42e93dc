SPECIFICATION Spec
CONSTANTS
    p1 = p1
    p2 = p2
    p3 = p3
    p4 = p4
    me = me
    near = near
    other = other
    far = far
    gone = gone
    NoRoute = NoRoute
    Packages <- MCPackages
    FromApplication = {p1, p2}
    Expired = {p4}
    Destinations <- MCDestinations
    Own = {me}
    Neighbours <- MCNeighbours
    Dest <- MCDestHere
    Hops <- MCHops
    MaxConnections = 2
    MaxExpiries = 1
CHECK_DEADLOCK FALSE
INVARIANTS
    TypeOK
    LookupsAreNewest
    EachPackageOnce
    
PROPERTIES
    StaleOnlyByReconnect
