SPECIFICATION FairSpec
CONSTANTS
    None = None
    Tasks = {t1, t2}
    Ids = {i1, i2}
    Fds = {3, 4, 5, 6}
    Faults = {"short_header"}
INVARIANTS
    NoUnreachableWorker
PROPERTIES
    StopAllReplies
    ImplementsTable
