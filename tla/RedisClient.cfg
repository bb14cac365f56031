SPECIFICATION Spec
CONSTANTS
    c1 = c1
    c2 = c2
    c3 = c3
    m1 = m1
    m2 = m2
    m3 = m3
    k1 = k1
    k2 = k2
    Keys <- MCKeys
    Calls <- MCCalls
    Members <- MCMembers
    MaxConsumers = 7
    TotalConnections = 3
    ChannelLimit = 2
    Retries = 1
    MaxCount = 2
    Setups <- MCSetups
INVARIANTS
    SuccessIsWritten
    PoolServes
PROPERTIES
    CallsEnd
CHECK_DEADLOCK FALSE
