SPECIFICATION Spec
CONSTANTS
    first = first
    second = second
    writer = writer
    nobody = nobody
    NoCaller = nobody
    Callers <- OneWaiter
    Forms <- AllForms
    Values <- MCValues
    Start = 0
    Predicates <- MCPredicates
    Actions <- TakeActions
    Writes <- BothWrites
    Timeouts = {0, 1, 2}
    MaxInstant = 2
    TimerFaults = TRUE
INVARIANTS
    TypeOK
    OneCutoff
PROPERTIES
    AnswersTruthfully
