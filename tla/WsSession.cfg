CONSTANTS
    e1 = e1
    e2 = e2
    e3 = e3
    g1 = g1
    g2 = g2
    k1 = k1
    k2 = k2
    Endpoints = {e1, e2, e3}
    Gateways = {g1, g2}
    Keys = {k1, k2}
    Objects = {1, 2, 3}
    IdleCapacity = 2
    Setups <- SessionSetups
SPECIFICATION Spec
INVARIANTS
    OneOwner
    ReaderIsReached
PROPERTIES
    LockIsReleased
CHECK_DEADLOCK FALSE
