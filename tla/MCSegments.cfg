SPECIFICATION MCSpec
CONSTANTS
    Threads = {t1, t2, t3}
    Sizes = {2, 3}
    Minimum = 2
    SegmentSize = 6
    Budgets <- Boundaries
    Nodes = {n1, n2, n3}
    List = List
    Nil = Nil
SYMMETRY Symmetry
INVARIANTS
    SegmentsSound
    
    
    SlistSound
CHECK_DEADLOCK FALSE
