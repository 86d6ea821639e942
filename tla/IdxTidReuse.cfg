SPECIFICATION Spec
CONSTANTS
  s1 = s1
  t1 = t1
  t2 = t2
  v1 = v1
  v2 = v2
  Sessions <- OneSession
  Tids <- TwoTids
  Vectors <- TwoVectors
  Layouts <- OnlyHnsw
  PerPage = 1
  SlotReuse = FALSE
  CompactPct = 20
  Threshold = 1
  FoldCap = 0
  MaxBlocks = 6
  MaxInserts = 3
  MaxVacuums = 1
  MaxCuts = 0
INVARIANTS StoredVectorsAreHeap
CHECK_DEADLOCK FALSE
