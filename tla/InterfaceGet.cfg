CONSTANTS
    eth0 = eth0
    eth1 = eth1
    None = None
    Names <- MCNames
    Devs = {d1, d2}
    IdLists <- MCIdLists
    Faults = {"memory"}
    Volatile = {"flags", "link", "rx_csum", "gro"}
    Fallible = {"link", "settings", "rx_csum", "gro"}
    MaxChanges = 2

SPECIFICATION GetFairSpec

INVARIANTS
    RowsTrue
    RowsComplete

PROPERTIES
    GetEnds
