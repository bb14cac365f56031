CONSTANTS
    w1 = w1
    w2 = w2
    Consumers = {w1, w2}
    MaxOffset = 3
    MaxFrames = 1
    Setups <- MCSetups
SPECIFICATION Spec
INVARIANTS
    StoredIsAcked
    OneUnfrozen
    NewItemOnce
    WatermarkIsClaimed
    StoredIsDelivered
PROPERTIES
    WatermarksAscend
    AllDelivered
CHECK_DEADLOCK FALSE
