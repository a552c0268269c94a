\* Filters of all kinds, with negations over what does and does not convert exactly, and
\* with NULL constants.
\* The filters come from a finite query, so the system stops when it is done.
SPECIFICATION Spec
CHECK_DEADLOCK FALSE
CONSTANTS
  part = part
  opaque = opaque
  data = data
  Null = Null
  Cols <- MCCols
  PartKeys <- MCPartKeys
  StringCols <- MCStringCols
  OpaqueCols <- MCOpaqueCols
  Vals <- MCVals
  Likes <- MCLikes
  Exprs <- MCExprs
  Height <- MCHeight
  FilterLists <- MCFilterLists
  MaxPushdowns = 2
INVARIANTS
  ScanIsExact FailsOnlyOnNull
