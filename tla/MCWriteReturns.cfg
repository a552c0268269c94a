SPECIFICATION FairSpec
CONSTANTS
  o1 = o1
  o2 = o2
  append = append
  keyed = keyed
  t1 = t1
  t2 = t2
  Free = Free
  Native = Native
  Foreign = Foreign
  Ops = {o1, o2}
  CtasOps = {o2}
  Tasks = {t1}
  MaxAttempts = 1
  Rows <- OneIsEmpty
  MaxRowCount = 4
  Defs = {append}
  AppendOnlyDefs = {append}
  CtasDef = append
  AbortFaults = FALSE
  MaxResults = 2
  MaxTables = 1
  MaxSnapshots = 1
INVARIANTS
  KnownFailureCleansUp
PROPERTIES
  CallsReturn
CHECK_DEADLOCK FALSE
