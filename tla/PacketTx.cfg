SPECIFICATION FairSpec
CONSTANTS
    FrameNr = 3
    MaxRecords = 4
    Refusing = TRUE
INVARIANTS
    SentOnce
PROPERTIES
    InFileOrder
    AcceptedFramesSent
