SPECIFICATION ArtifactsSpec
CONSTANTS
  Feeds <- MCFeeds
  M = 2
  EfConstruction = 3
  MaxElements = 6
  Capacities = {6}
  l2 = l2
  cosine = cosine
  Configs = {l2, cosine}
  Config = l2
  SnapIds = 1
  EfSearch = 7
  PublishRows = 6
  Jobs <- MCJobs
  CacheRecords = 2
  MaxRange = 2
  SketchDims = 2
  MicroDims = 1
  Step = 3
  RowsPerBlock = 4
  CacheRows = 2
  Boost = 2
  Recommended = 1
  MaxReranks = {2, 4}
  Asks <- MCAsks
INVARIANTS
    GraphSound
    SearchesFind
    SearchesAgree
PROPERTIES
    ImplementsStore
CHECK_DEADLOCK FALSE
