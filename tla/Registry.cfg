SPECIFICATION Spec
CONSTANTS
    a1 = a1
    a2 = a2
    Addrs <- MCAddrs
    MaxGroups = 3
    Retries = 3
    Setups <- MCSetups
INVARIANTS
    TablesAgree
PROPERTIES
    RoutingFollows
CHECK_DEADLOCK FALSE
