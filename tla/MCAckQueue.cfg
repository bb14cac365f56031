CONSTANTS
    MaxId = 3
    MaxStamp = 3
    CacheLen = 2
    AckIds <- MCIds
    Nodes <- MCNodes
SPECIFICATION LinkedSpec
CONSTRAINT StampBound
INVARIANTS
    FirstEndIsFrontier
    IInv
    ListIsQueue
