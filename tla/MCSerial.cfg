SPECIFICATION Spec
CONSTANTS
    Txns = {t1, t2, t3}
    t1 = t1
    t2 = t2
    t3 = t3
    t4 = t4
    None = none
    Rows = {x, y}
    x = x
    y = y
    z = z
    Builds = {"SSI", "SI_SSN", "RC_SSN"}
    Workloads <- Mixes
SYMMETRY Symmetry
INVARIANTS
    
    SpinsOnOlder
    SerialSound
