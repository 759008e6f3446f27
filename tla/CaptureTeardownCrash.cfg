SPECIFICATION FairSpec
CONSTANTS
    MaxRecords = 3
    Word = 512
    PageSize = 32
    FrameSizes = {4, 16}
    FrameNrs = {1, 4, 8, 12, 16, 32, 512, 520}
PROPERTIES
    StopIsAnswered
CHECK_DEADLOCK FALSE
