SPECIFICATION Spec
CONSTANTS
    t1 = t1
    t2 = t2
    t3 = t3
    Tasks = {t1, t2, t3}
    NoTask = NoTask
    Calls <- FaultMix
    Timeouts = {1}
    MaxInstant = 1
    MaxItems = 1
    MaxWaiterId = 3
    Cancellation = TRUE
    Panics = TRUE
    TimerFaults = TRUE
INVARIANTS
    NoLostWakeup
PROPERTIES
    KeepsContract
