CONSTANTS
    w1 = w1
    w2 = w2
    Consumers = {w1, w2}
    MaxOffset = 3
    MaxFrames = 1
    Setups <- RestartSetups
SPECIFICATION Spec
INVARIANT
    IgnoredWasHandled
CHECK_DEADLOCK FALSE
