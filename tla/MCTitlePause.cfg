SPECIFICATION PauseFairSpec
CONSTANTS
    t1 = t1
    t2 = t2
    c0 = c0
    c1 = c1
    Threads = {t1, t2}
    Cores = {c0, c1}
    InitialThreads = {t1}
    BlockInCalls = TRUE
    AppActs = TRUE
    LateCreation = TRUE
    MaxSuspend = 2
    NoThread = NoThread
CHECK_DEADLOCK FALSE
PROPERTIES
    StaysQuiet
    PauseStops
    SaveEnds
