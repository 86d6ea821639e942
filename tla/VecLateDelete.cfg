SPECIFICATION Spec
CONSTANTS
  c1 = c1
  c2 = c2
  k1 = k1
  w1 = w1
  w2 = w2
  NullText = NullText
  NoRow = NoRow
  NoVector = NoVector
  Nobody = Nobody
  Dead = Dead
  Keys <- OneKey
  Contents <- OneText
  Workers <- OneWorker
  Mode = "sibling"
  SingleTxn = {FALSE}
  Batch = 1
  MaxAttempts = 2
  Keep = 4
  MaxJobs = 3
  MaxDml = 3
  MaxCrashes = 1
  WithDelete = TRUE
INVARIANTS Coverage
