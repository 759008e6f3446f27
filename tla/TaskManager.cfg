SPECIFICATION Spec
CONSTANTS
    None = None
    Tasks = {t1, t2, t3}
    Ids = {i1, i2, i3}
    Fds = {3, 4, 5, 6, 7, 8}
    Faults = {"detach"}
SYMMETRY Interchangeable
INVARIANTS
    TypeOK
    QueuesAgree
    ListedTasksRun
    OwnDescriptors
    RepliesHonest
PROPERTIES
    TasksUndisturbed
