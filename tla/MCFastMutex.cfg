SPECIFICATION FastMutexFairSpec
CONSTANTS
    t1 = t1
    t2 = t2
    t3 = t3
    t4 = t4
    Threads = {t1, t2, t3}
    NoOwner = NoOwner
    Priority <- MCPriority
    MaxNesting = 2
    CondUses = {FALSE, TRUE}
CHECK_DEADLOCK FALSE
INVARIANTS
    QueuesConsistent
    UnlockLeavesNoSleeper
PROPERTIES
    SleepersWoken
