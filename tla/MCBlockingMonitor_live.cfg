SPECIFICATION FairSpec
CONSTANTS
    t1 = t1
    t2 = t2
    t3 = t3
    Threads = {t1, t2, t3}
    NoThread = NoThread
    Calls <- LiveMix
    Timeouts = {1}
    MaxInstant = 1
    MaxItems = 1
    MaxWaiterId = 5
    Poisoning = FALSE
    Panics = FALSE
    TimerFaults = FALSE
PROPERTIES
    TimedWaitReturns
    ItemsAreTaken
