SPECIFICATION Spec
CONSTANTS
    p1 = p1
    p2 = p2
    s1 = s1
    s2 = s2
    w1 = w1
    w2 = w2
    w3 = w3
    w4 = w4
    w5 = w5
    None = None
    Msgs = {1, 2, 3}
    Streams = {p1, p2}
    Actions = {"inbox", "session", "all"}
    Servers = {s1, s2}
    Writes = {w1, w2, w3, w4, w5}
    Block = 2
    BucketSize = 2
    Setups <- MCSetups
INVARIANTS
    SuccessIsStored
    BucketIsBounded
    EffectsAreDone
PROPERTIES
    SuccessIsDelivered
CHECK_DEADLOCK FALSE
