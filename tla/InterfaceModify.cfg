SPECIFICATION Spec
CONSTANTS
    Used <- MCUsed
    Values = {0, 1}
    Speeds = {100, 2500, 10000}
    MaxArgs = 2
    MaxTouches = 1
INVARIANTS
    OnlyRequested
    AllOrNothing
    ZeroMeansApplied
    OffloadsInOrder
CHECK_DEADLOCK FALSE
