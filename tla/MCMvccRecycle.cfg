SPECIFICATION FairSpec
CONSTANTS
    Workers = {w1, w2}
    Contexts = {c1, c2}
    NoContext = c0
    Keys = {1}
    Loaded = {1}
    Builds = {FALSE, TRUE}
    MaxTxns = 3
    MaxEpoch = 8
    MaxOps = 1
    MaxOid = 1
INVARIANTS
    TypeOK
    RowFound
PROPERTIES
    CallsReturn
