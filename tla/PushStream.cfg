CONSTANTS
    n1 = n1
    n2 = n2
    n3 = n3
    d1 = d1
    here = here
    there = there
    Here = here
    There = there
    Gateways = {here, there}
    Setups <- PushSetups
    Notes = {n1, n2, n3}
    Kicks = {n3}
    Devices = {d1}
    MaxInt32 = 5
    MaxUint32 = 4
    QueueSize = 2
    MaxTries = 2
    MaxConnects = 2
    Nodes = {1, 2, 3}
    CacheLen = 1
SPECIFICATION Spec
INVARIANTS
    ConfirmedHasArrived
PROPERTIES
    AckIsFlushed
CHECK_DEADLOCK FALSE
