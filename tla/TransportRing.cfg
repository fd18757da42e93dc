SPECIFICATION Spec
CONSTANTS
    A = A
    B = B
    C = C
    ab = ab
    ac = ac
    ba = ba
    bc = bc
    ca = ca
    cb = cb
    p = p
    Nodes <- MCNodes
    Own <- MCOwn
    Neighbours <- MCNeighbours
    Address <- MCAddress
    Packages <- MCPackages
    Source <- MCSource
    Dest <- MCDest
    NoAddress = none
    InitialTTL = 15
INVARIANTS TypeOK LinksBounded SourceIsOrigin
PROPERTY ComesToRest
