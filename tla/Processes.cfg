SPECIFICATION Spec
CONSTANTS
    Platforms = {"p", "q"}
    Events = {"e"}
    Byte = 4
    MaxWorkers = 2
    Setups <- MCSetups
INVARIANTS
    SeqsPartition
    IdsDistinct
PROPERTIES
    PlatformsWork
CHECK_DEADLOCK FALSE
