SPECIFICATION FairSpec
CONSTANTS
    first = first
    second = second
    writer = writer
    nobody = nobody
    NoCaller = nobody
    Callers <- TwoWaiters
    Forms <- LiveForms
    Values <- MCValues
    Start = 0
    Predicates <- MCPredicates
    Actions <- UnitActions
    Writes <- BothWrites
    Timeouts = {1}
    MaxInstant = 1
    TimerFaults = FALSE
PROPERTIES
    ContentCallersReturn
    LimitedCallsReturn
