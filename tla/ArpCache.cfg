SPECIFICATION Spec
CONSTANTS
    n1 = n1
    n2 = n2
    Neighbours <- MCNeighbours
    Socket <- MCSocket
    UpdateFreq = 4
    PollTimeout = 4
    MaxLosses = 3
    MaxDeaths = 1
INVARIANTS TypeOK OneEntryPerAddress CacheFollows
