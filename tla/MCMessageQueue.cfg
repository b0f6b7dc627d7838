SPECIFICATION FairSpec
CONSTANTS
    t1 = t1
    t2 = t2
    t3 = t3
    m1 = m1
    m2 = m2
    Threads = {t1, t2, t3}
    Messages = {m1, m2}
    NoMessage = NoMessage
    MsgCount = 2
    Priority <- MCPriority
CHECK_DEADLOCK FALSE
INVARIANTS
    NoLostReceiver
    NoLostSender
    WaitQueuesConsistent
PROPERTIES
    ImplementsDeque
    SleepersDrain
