INIT AnnInit
NEXT AnnNext
CONSTANTS
  VectorRows = {1, 2, 3}
  Nan = {}
  Indexes <- LabelledLists
  Filters <- EmptyKeyFilter
  Arrivals = {}
  EfSearch = 1
  OverFetch = 1
  FirstProbes = 1
  FirstPool = 1
  MaxScanTuples = 4
  LabelK = 2
  NoBeam = absent
INVARIANTS UnmatchedAreRechecked
CHECK_DEADLOCK FALSE
