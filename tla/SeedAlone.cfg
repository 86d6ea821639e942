SPECIFICATION ScriptSpec
CONSTANTS
  Corpora <- OneCorpus
  M = 1
  EfConstruction = 2
  Extends = TRUE
  Batch = 9
INVARIANTS EntryFindsNeighbours
CHECK_DEADLOCK FALSE
