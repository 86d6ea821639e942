SPECIFICATION QuerySpec
CONSTANTS
  null = null
  SqlNull = null
  Rows <- FloatRows
  NaN = 99
  QueryError = error
  Float = TRUE
  GroupRows = 2
  MaxRows = 2
  Consts = {2}
  Limits = {1}
INVARIANTS SkipProvesNoMatch
CHECK_DEADLOCK FALSE
