SPECIFICATION FairSpec
CONSTANTS
    FrameNr = 4
    Cpus = 2
    MaxFrames = 6
    MaxPollFaults = 2
    DiskFails = TRUE
INVARIANTS
    Conservation
    InOrder
PROPERTIES
    DropsOnlyWhenFull
    SteadyTrafficWritten
CHECK_DEADLOCK FALSE
