SPECIFICATION MCSpec
CONSTANTS
    Threads = {t1, t2}
    NoThread = t0
    MaxEpoch = 5
    NWORDS = 1
    Bits = {0, 1}
    OidThreads = {a1}
    Half = 2
    Gamut = 8
    Maps = 8
    L1Capacity = 10
    FillTarget = 1
    CacheSize = 5
    Capacity0 = 8
    Word = 65536
    LastOid = 20
    MaxFrees = 26
    MaxRevokes = 1
SYMMETRY Symmetry
INVARIANTS
    ReclaimIsSafe
    AtMostTwoBehind
    ContextExclusive
    OidsSound
PROPERTIES
    ImplementsService
    NeverReissued
