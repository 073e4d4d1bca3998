SPECIFICATION FairSpec
CONSTANTS
    Procs = {p1, p2}
    MaxCalls = 1
    None = None
INVARIANTS
    ExclusiveAccess
PROPERTIES
    WaiterGetsIn
    ImplementsMutex
CHECK_DEADLOCK FALSE
