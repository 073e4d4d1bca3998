SPECIFICATION CacheSpec
CONSTANTS
    Procs = {p1, p2}
    Keys = {k1, k2}
    Generations = 2
    GenCells = 3
    MaxLookups = 3
    MaxFaults = 2
    None = None
    Stores = {s1, s2}
    Blobs = {b1, b2, b3}
    BlobSize <- BlobSizes
    MaxBytes = 4
    MaxPuts = 4
    MaxCrashes = 1
SYMMETRY Symmetry
INVARIANTS
    LogSound
    DirectorySound
    OldGenerationsGo
CHECK_DEADLOCK FALSE
