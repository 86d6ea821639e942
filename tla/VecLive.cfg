SPECIFICATION LiveSpec
CONSTANTS
  Parts = {"chunk", "inplace"}
  k1 = k1
  c1 = c1
  c2 = c2
  w1 = w1
  NullText = NullText
  NoRow = NoRow
  NoVector = NoVector
  Nobody = Nobody
  Dead = Dead
  Keys <- OneKey
  Contents <- TwoTexts
  Workers <- OneWorker
  Mode = "inplace"
  SingleTxn = {FALSE}
  Batch = 2
  MaxAttempts = 2
  Keep = 4
  MaxJobs = 3
  MaxDml = 3
  MaxCrashes = 1
  WithDelete = TRUE
INVARIANTS NoOrphanVector InPlaceCoverage
PROPERTIES ChunkedDrained InPlaceConverges
