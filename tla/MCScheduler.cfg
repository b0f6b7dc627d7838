SPECIFICATION FairSpec
CONSTANTS
    t1 = t1
    t2 = t2
    c0 = c0
    c1 = c1
    Threads = {t1, t2}
    Cores = {c0, c1}
    MainCore = c1
    BootThread = t1
    NoThread = NoThread
    SleepQueue = SleepQueue
    Affinities <- AllMasks
    Priorities = {15, 16}
    MaxSuspend = 1
    JoinContract = TRUE
CHECK_DEADLOCK FALSE
INVARIANTS
    RunQueuesExact
    RunningIsCurrent
    NoForgottenJoiner
    JoinFindsMoribund
PROPERTIES
    SwitchRespectsSuspendAndAffinity
    NoStarvation
