SPECIFICATION Spec
CONSTANTS
    Workers = {w1, w2}
    Contexts = {c1, c2}
    NoContext = c0
    Keys = {1, 2}
    Loaded = {1}
    Builds = {FALSE, TRUE}
    MaxTxns = 2
    MaxEpoch = 4
    MaxOps = 2
    MaxOid = 4
SYMMETRY Symmetry
INVARIANTS
    ChainOrder
    CommittedKept
    NoDirtyRead
    NoFutureRead
