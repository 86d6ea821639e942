SPECIFICATION PlanSpec
CONSTANTS
  PlanBlocks <- TwoAggregates
  Columnar = {"t"}
  Cached = {}
  LateMat = FALSE
  Native = native
  MaxPlanBlocks = 2
  PlanDepth = 1
  MaxRuns = 1
INVARIANTS SwapAnswersBlock
CHECK_DEADLOCK FALSE
