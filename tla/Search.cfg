SPECIFICATION SearchSpec
CONSTANTS
  Parts = {"index", "ann", "layout", "pages", "filter", "project", "plan", "query", "traversal", "remote", "hybrid", "build"}
  s1 = s1
  t1 = t1
  t2 = t2
  v1 = v1
  v2 = v2
  a1 = a1
  a2 = a2
  d1 = d1
  d2 = d2
  e1 = e1
  e2 = e2
  null = null
  absent = absent
  malformed = malformed
  error = error
  native = native
  Sessions <- OneSession
  Tids <- TwoTids
  Vectors <- TwoVectors
  Layouts <- AllLayouts
  PerPage = 1
  SlotReuse = TRUE
  CompactPct = 40
  Threshold = 1
  FoldCap = 0
  MaxBlocks = 9
  MaxInserts = 3
  MaxVacuums = 2
  MaxCuts = 1
  VectorRows <- FourRows
  Nan = {3}
  Indexes <- AnnIndexes
  Filters <- AnnFilters
  Arrivals = {4}
  EfSearch = 1
  OverFetch = 1
  FirstProbes = 1
  FirstPool = 1
  MaxScanTuples = 4
  LabelK = 2
  NoBeam = absent
  Addresses <- TwoAddresses
  Blocks = {1, 2}
  Offsets = {1, 2}
  Quals <- TwoQuals
  NoSet = absent
  MaxDepth = 2
  MaxSubs = 2
  NodeAddresses <- TwoAddresses
  Descriptors <- TwoDescriptors
  Columns = {"c1", "c2"}
  Preds = {"p"}
  Absent = absent
  ScanDepth = 2
  ScanSubs = 1
  Rows <- QueryRows
  SqlNull = null
  NaN = 99
  QueryError = error
  Float = FALSE
  GroupRows = 2
  MaxRows = 3
  Consts = {2}
  Limits = {2}
  Endpoints <- TwoEndpoints
  K = 2
  Retries = 1
  OpenFor = 2
  Chunk = 2
  MaxInputs = 3
  MaxTime = 3
  PlanBlocks <- QueryBlocks
  Columnar = {"t"}
  Cached = {"h"}
  LateMat = TRUE
  Native = native
  MaxPlanBlocks = 2
  PlanDepth = 2
  MaxRuns = 2
  Corpora <- HnswCorpora
  M = 1
  EfConstruction = 2
  Extends = TRUE
  Batch = 2
INVARIANTS TypeOK NothingLost LoudOnlyAfterCut IvfStoredVectorsAreHeap ExhaustedMeansReturned FirstBatchFills IndexReadsBack MatchesAdmitted LiveNodesRegistered OwnColumnsAndPredicates DistinctShapesSwapOwn SwapFromOwnRun AnswerExact SkipProvesNoMatch TraversalsExact FusionSound GraphSound AnswersAligned
PROPERTIES DeadEndpointLeftAlone
CHECK_DEADLOCK FALSE
