\* Three threads gather, link and probe up to three entries.
SPECIFICATION HashSpec
CONSTANTS
    Threads = {t1, t2, t3}
    k1 = k1
    k2 = k2
    k3 = k3
    Keys <- ThreeKeys
    Hash <- ThreeHashes
    SizeMod = 16
    MaxEntries = 3
INVARIANTS
    HashTypeOK
    ListsIntact
    HashInvariant
PROPERTIES
    FinalizeTerminates
    MapSpec
CHECK_DEADLOCK FALSE
