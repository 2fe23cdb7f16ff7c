SPECIFICATION Spec
CONSTANTS
    Threads <- MCThreads
    Loader <- MCLoader
    Keys <- MCKeys
    Scenarios <- MCScenarios
INVARIANTS
    GetIsCurrent
    ScanComplete
    PhantomsSeen
    IndexSound
