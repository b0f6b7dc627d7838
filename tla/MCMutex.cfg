SPECIFICATION MutexFairSpec
CONSTANTS
    t1 = t1
    t2 = t2
    t3 = t3
    m1 = m1
    m2 = m2
    Threads = {t1, t2, t3}
    Mutexes = {m1, m2}
    NoThread = NoThread
    NoMutex = NoMutex
    Priority <- MCPriority
    MaxLockCount = 2
CHECK_DEADLOCK FALSE
INVARIANTS
    HoldersAgree
    NoSleeperOnFreeMutex
    ExitReleasesAll
PROPERTIES
    FreeMutexIsTaken
