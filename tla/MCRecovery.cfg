CONSTANTS
    Workers = {w1, w2}
    Keys = {k1, k2}
    Loaded = k1
    Functors = {"file", "oid"}
    Capacities = {2, 9}
    Redoers = 2
    Budgets <- MCBudgets
    MaxOid = 4
SPECIFICATION Spec
SYMMETRY Symmetry
INVARIANTS
    RecoveredState
    
    FreshOid
    
CHECK_DEADLOCK FALSE
