SPECIFICATION Spec
CONSTANTS
    t1 = t1
    t2 = t2
    t3 = t3
    Threads = {t1, t2, t3}
    NoThread = NoThread
    Calls <- UntimedMix
    Timeouts = {}
    MaxInstant = 0
    MaxItems = 2
    MaxWaiterId = 4
    Poisoning = TRUE
    Panics = FALSE
    TimerFaults = FALSE
INVARIANTS
    SelectionReachesWaiter
    NoLostWakeup
PROPERTIES
    KeepsContract
