SPECIFICATION StorageSpec
CONSTANTS
  Parts = {"concurrent", "session", "cache", "evict", "lexical", "csr", "extract"}
  s0 = s0
  s1 = s1
  s2 = s2
  absent = absent
  Sessions <- TwoSessions
  Budget = 1
  Columns = 1
  ChunkPages = 1
  MaxStmtRows = 1
  MaxCopied = 0
  MaxInserts = 2
  MaxScans = 1
  MaxDepth = 0
  MaxCrashes = 1
  CacheSessions <- TwoSessions
  Tables = {"t", "u"}
  Rows = {"r"}
  Cap = 1
  Levels = {"rc", "rr"}
  NoGen = absent
  NoEntry = absent
  MaxCommits = 2
  MaxWrites = 1
  Backends <- TwoSessions
  NoIndex = absent
  MaxBuilds = 3
  GraphSessions <- TwoSessions
  EdgeRows <- OneEdge
  NoRow = absent
  MaxGraphBuilds = 2
  Ingesters <- TwoSessions
  Texts <- TwoTexts
  Replies <- TwoReplies
  Stop = {4}
  MaxEntities = 2
  Window = 1
  MaxIngests = 2
INVARIANTS TypeOK PendingBounded CommittedReadable ReservedDisjoint ExactlyKept CacheExact CleanSearchExact TraversalReadsPersisted GraphAddsUp
PROPERTIES AppendOnly SessionAppendOnly WholeIndexCommitted
SYMMETRY Symmetric
CHECK_DEADLOCK FALSE
