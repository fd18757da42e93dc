SPECIFICATION Spec
CONSTANTS
    A = A
    B = B
    C = C
    a = a
    b1 = b1
    b2 = b2
    c = c
    Nodes <- MCNodes
    Own <- MCOwn
    Neighbours <- MCNeighbours
    Address <- MCAddress
    Distance <- MCDistance
    Behind <- MCBehind
    MaxCost = 6
    MaxInFlight = 1
    Faults <- MCExpiry
    MaxFaults = 1
PROPERTY FollowsItsNextHop
