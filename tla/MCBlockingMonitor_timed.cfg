SPECIFICATION Spec
CONSTANTS
    t1 = t1
    t2 = t2
    t3 = t3
    Threads = {t1, t2, t3}
    NoThread = NoThread
    Calls <- TimedMix
    Timeouts = {0, 1}
    MaxInstant = 1
    MaxItems = 1
    MaxWaiterId = 4
    Poisoning = FALSE
    Panics = FALSE
    TimerFaults = FALSE
INVARIANTS
    TimerReachesWaiter
    NoLostWakeup
PROPERTIES
    KeepsContract
