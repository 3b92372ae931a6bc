SPECIFICATION Spec
CONSTANTS
    t1 = t1
    t2 = t2
    t3 = t3
    Tasks = {t1, t2, t3}
    NoTask = NoTask
    Calls <- CancelMix
    Timeouts = {0, 1}
    MaxInstant = 1
    MaxItems = 2
    MaxWaiterId = 4
    Cancellation = TRUE
    Panics = FALSE
    TimerFaults = FALSE
INVARIANTS
    TypeOK
    LockSlot
    EligibleWaiters
    NoLostWakeup
PROPERTIES
    KeepsContract
