\* IN and NOT IN over lists with a NULL.
\* The filters come from a finite query, so the system stops when it is done.
SPECIFICATION Spec
CHECK_DEADLOCK FALSE
CONSTANTS
  part = part
  opaque = opaque
  data = data
  Null = Null
  Cols <- MCCols
  PartKeys <- MCPartKeys
  StringCols <- MCStringCols
  OpaqueCols <- MCOpaqueCols
  Vals <- MCVals
  Likes <- MCLikes
  Exprs <- MCExprs
  Height <- MCHeight
  FilterLists <- MCNullLists
  MaxPushdowns = 1
INVARIANT
  PushdownNeverThrows
