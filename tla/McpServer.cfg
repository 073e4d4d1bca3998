SPECIFICATION Spec
CONSTANTS
    Packs = 1
    Notes = 1
    MaxRequests = 3
    MaxMembers = 3
INVARIANTS
    AnswersComplete
    ProvisionalListFollowed
    ReopeningSafe
    ExitTellsFailures
PROPERTIES
    EverythingEnds
CHECK_DEADLOCK FALSE
