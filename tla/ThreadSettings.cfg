CONSTANTS
    t1 = t1
    t2 = t2
    None = None
    Threads <- MCThreads
    Online <- MCOnline
    SetSize = 6
    Word = 12
    Short = 8
    MaxPrio = 2
    Requests <- MCRequests
    Masks <- MCMasks

SPECIFICATION FairSpec

INVARIANTS
    AnswersHonest
    ShownTrue

PROPERTIES
    OnlyNamed
    ModifyEnds
