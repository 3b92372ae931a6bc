SPECIFICATION Spec
CONSTANTS
    t1 = t1
    t2 = t2
    t3 = t3
    Threads = {t1, t2, t3}
    NoThread = NoThread
    Calls <- FaultMix
    Timeouts = {1}
    MaxInstant = 1
    MaxItems = 1
    MaxWaiterId = 3
    Poisoning = TRUE
    Panics = TRUE
    TimerFaults = TRUE
INVARIANTS
    TypeOK
    GuardSlot
    EligibleWaiters
PROPERTIES
    KeepsContract
