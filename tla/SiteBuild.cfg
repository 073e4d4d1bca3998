SPECIFICATION FairSiteSpec
CONSTANTS
  MaxPages = 4
  MaxHops = 2
  MaxFailures = 1
  MinTokens = 3
  Target = 4
  Overlap = 1
  KeepMax = 6
  Workers = {w1, w2, w3}
  Texts <- MCTexts
  NoVector <- MCNoVector
  MaxMishaps = 2
  Builds <- MCBuilds
  Calls = {c1, c2, c3}
  MaxWrecks = 1
  Addresses = {a1, a2}
  Rpm = 2
  Window = 2
  MaxTime = 4
  MaxAsked = 3
  MaxTroubles = 1
  NoIndex = NoIndex
  RrfK = 60
  LexicalCandidates = 1
  Packs <- MCPacks
  Scale <- MCScale
  Compiles <- MCCompiles
INVARIANTS
    SourcesFaithful
    VectorsInPlace
    ProjectSurvives
    ServersSound
    RetrievalSound
    PackBuildSound
PROPERTIES
    EverythingEnds
CHECK_DEADLOCK FALSE
