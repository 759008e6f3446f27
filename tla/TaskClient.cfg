SPECIFICATION FairSpec
CONSTANTS
    None = None
    Text = Text
    Malformed = Malformed
    Ids = {i1, i2}
    Faults = {"memory"}
    Retries = 4
    Word = 32
    Short = 24
    Byte = 4
    MemWords = 2
    Files <- MCFiles
INVARIANTS
    ZeroMeansDone
    FiltersStayInside
    FilterKept
    NoStrayTask
PROPERTIES
    CommandEnds
    ListedIdStops
