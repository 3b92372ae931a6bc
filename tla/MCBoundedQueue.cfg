SPECIFICATION FairSpec
CONSTANTS
    p = p
    c1 = c1
    c2 = c2
    c3 = c3
    closer = closer
    Threads <- MCThreads
    Calls <- MCCalls
    Items = {x1, x2, x3}
    NoItem = none
    Capacity = 2
INVARIANTS
    TypeOK
    NobodySleepsReady
PROPERTIES
    EndIsFinal
    IsClosableQueue
    ReadyCallsReturn
    TimedPopReturns
