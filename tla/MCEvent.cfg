SPECIFICATION EventFairSpec
CONSTANTS
    t1 = t1
    t2 = t2
    t3 = t3
    t4 = t4
    Threads = {t1, t2, t3, t4}
    Modes = {"AUTO", "MANUAL"}
    Priority <- MCPriority
    MaxSignals = 6
CHECK_DEADLOCK FALSE
INVARIANTS
    NoWaiterOnSignaledEvent
    SignalsConserved
    AlarmsEndWithTheirCall
PROPERTIES
    TimedWaitsEnd
