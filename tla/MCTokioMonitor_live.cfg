SPECIFICATION FairSpec
CONSTANTS
    t1 = t1
    t2 = t2
    t3 = t3
    Tasks = {t1, t2, t3}
    NoTask = NoTask
    Calls <- LiveMix
    Timeouts = {1}
    MaxInstant = 1
    MaxItems = 1
    MaxWaiterId = 4
    Cancellation = TRUE
    Panics = FALSE
    TimerFaults = FALSE
PROPERTIES
    TimedWaitReturns
    ItemsAreTaken
