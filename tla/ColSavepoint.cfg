SPECIFICATION Spec
CONSTANTS
  s1 = s1
  s2 = s2
  Sessions <- OneSession
  Budget = 2
  Columns = 1
  ChunkPages = 1
  MaxStmtRows = 1
  MaxCopied = 0
  MaxInserts = 2
  MaxScans = 1
  MaxDepth = 1
  MaxCrashes = 0
INVARIANTS ExactlyKept
