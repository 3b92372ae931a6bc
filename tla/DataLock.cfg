CONSTANTS
    Threads = {t1, t2, t3}
    NoThread = NoThread
    MaxCalls = 3
SPECIFICATION FairSpec
INVARIANTS
    TornValueIsSealed
    GuardsFollowCalls
PROPERTIES
    KeepsLockContract
    CallsReturn
CHECK_DEADLOCK FALSE
