SPECIFICATION Spec
CONSTANTS
    Queries = {q1, q2}
    Records = 3
    PageRecords = 2
    DigestPages = 1
    RecordCache = 1
    Encoders = {"inline", "deferred", "lazy", "student"}
    MaxQueries = 2
    MaxFaults = 1
INVARIANTS
    AnswersHonest
    FreedOnceUnused
PROPERTIES
    EverythingEnds
CHECK_DEADLOCK FALSE
