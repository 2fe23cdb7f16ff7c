SPECIFICATION MCSpec
CONSTANTS
    Threads = {t1, t2}
    Sizes = {1}
    Window = 2
    Waits = TRUE
    MaxTasks = 1
    MaxBlocks = 2
    Runners = {r1, r2, r3}
    NThreads = 2
    MaxJobs = 3
INVARIANTS
    FlushStopsAtBlock
    FillInWindow
    JoinedIsDone
PROPERTIES
    LogTasksEnd
    RunsOnce
    PoolTaskRuns
