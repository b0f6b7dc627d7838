SPECIFICATION FairSpec
CONSTANTS
    t1 = t1
    t2 = t2
    Multicore = TRUE
    Cores = {0, 1, 2}
    Threads = {t1, t2}
    Affinity <- MCAffinity
    MainCore = 1
    SpinBudget = 1
    NoThread = NoThread
INVARIANTS
    CountsExact
    SleepersHaveNothingToRun
PROPERTIES
    EndTerminates
    QueueIsServed
