SPECIFICATION FairSpec
CONSTANTS
    A = A
    B = B
    C = C
    a = a
    b1 = b
    b2 = b
    c = c
    Nodes <- MCNodes
    Own <- MCOwn
    Neighbours <- MCNeighbours
    Address <- MCAddress
    Distance <- MCDistance
    Behind <- MCBehind
    MaxCost = 3
    MaxInFlight = 1
    Faults <- MCFaults
    MaxFaults = 1
INVARIANTS
    TypeOK
    SoundTables
    TowardDestination
PROPERTIES
    Converges
    DeadForgotten
