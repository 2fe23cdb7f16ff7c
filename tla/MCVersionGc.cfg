SPECIFICATION Spec
CONSTANTS
    Threads = {t1, t2}
    MaxEpoch = 8
    FirstEpoch = 6
    MaxLsn = 14
    MaxTxns = 3
    Objects = {1, 2, 3, 4, 5}
    CAPACITY = 1
    Loaded = {1, 2, 3}
SYMMETRY Symmetry
INVARIANTS
    GcSound
    VisibleKept
    TrimBehind
CHECK_DEADLOCK FALSE
