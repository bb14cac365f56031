SPECIFICATION Spec
CONSTANTS
    h1 = h1
    h2 = h2
    h3 = h3
    k1 = k1
    k2 = k2
    anna = anna
    ben = ben
    e1 = e1
    e2 = e2
    Callers = {h1, h2, h3}
    Conns = {k1, k2}
    NoConn = NoConn
    Slots = {1, 2}
    SlidingWindow = 1
    TraceCycle = 4
    TraceThreshold = 1
    BlockedTime = 3
    InflowWindow = 2
    Capacity = 2
    Rate = 1
    MaxDelay = 2
    MaxTime = 8
    Users = {anna, ben}
    Events = {e1, e2}
    NoEvent = NoEvent
    Tries = 2
    Prefetch = 2
    QueueSize = 1
    Setups <- MCSetups
INVARIANTS
    PoolIsKept
    WithinQuota
    EventsKept
PROPERTIES
    SessionKept
    RequestsEnd
CHECK_DEADLOCK FALSE
