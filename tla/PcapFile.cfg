SPECIFICATION Spec
CONSTANTS
    Captures = {c1, c2}
    MaxRecords = 4
    Damage = {"cut", "disk", "shared"}
INVARIANTS
    UndamagedFileReadsBack
PROPERTIES
    OnlyGrows
CHECK_DEADLOCK FALSE
