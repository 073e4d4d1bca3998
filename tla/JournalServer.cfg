SPECIFICATION ServerSpec
CONSTANTS
    Writers = {s1, w1, w2}
    Servers = {s1}
    MaxDepth = 2
    MaxOps = 5
    MaxPresent = 2
    MaxServed = 3
    MaxCalls = 2
    Existing = TRUE
    Forces = {FALSE, TRUE}
    Seed = Seed
    None = None
SYMMETRY OtherWriters
INVARIANTS
    ChainSound
    NothingInTheWay
    AnswersCurrent
PROPERTIES
    ImplementsNoteLog
    ViewNeverShrinks
CHECK_DEADLOCK FALSE
