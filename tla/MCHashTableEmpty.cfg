\* finalize() without entries.
SPECIFICATION HashSpec
CONSTANTS
    Threads = {t1, t2}
    k1 = k1
    k2 = k2
    k3 = k3
    Keys <- ThreeKeys
    Hash <- ThreeHashes
    SizeMod = 16
    MaxEntries = 2
INVARIANT
    TableHasBuckets
CHECK_DEADLOCK FALSE
