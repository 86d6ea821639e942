SPECIFICATION Spec
CONSTANTS
  s1 = s1
  s2 = s2
  Sessions <- TwoSessions
  Budget = 1
  Columns = 1
  ChunkPages = 2
  MaxStmtRows = 1
  MaxCopied = 0
  MaxInserts = 2
  MaxScans = 0
  MaxDepth = 0
  MaxCrashes = 0
INVARIANTS CommittedReadable
