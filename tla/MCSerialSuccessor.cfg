SPECIFICATION TurnSpec
CONSTANTS
    Txns = {t1, t2, t3, t4}
    t1 = t1
    t2 = t2
    t3 = t3
    t4 = t4
    None = none
    Rows = {x, y, z}
    x = x
    y = y
    z = z
    Builds = {"SI_SSN"}
    Workloads <- Pivot
INVARIANT Serialisable
CHECK_DEADLOCK FALSE
