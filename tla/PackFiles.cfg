SPECIFICATION FilesSpec
CONSTANTS
    BaseRows = {1, 2}
    MaxDepth = 3
    MaxRecords = 5
    MaxPacks = 5
    MaxNew = 1
    MaxRetract = 1
    DriftLimit = 60
    HashMax = 9
    Radix = 2
    Window = 2
    Tries = 3
    WindowsKept = 2
    CacheBytes = 12
    MaxEntry = 10
    Searches = {s1, s2}
    MaxReadFaults = 1
    Shelves <- MCShelves
    QueryTexts <- MCQueryTexts
    Containers <- MCContainers
    Chains <- MCChains
    Servings <- MCServings
SYMMETRY MCSymmetry
INVARIANTS
    OnlyDepthIsRefused
    CitationsStable
    EditsFaithful
    ContainerSound
    MountSound
    TermSearchSound
    ServingSound
CHECK_DEADLOCK FALSE
