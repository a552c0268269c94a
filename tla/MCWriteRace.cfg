SPECIFICATION Spec
CONSTANTS
  o1 = o1
  o2 = o2
  append = append
  keyed = keyed
  t1 = t1
  t2 = t2
  Free = Free
  Native = Native
  Foreign = Foreign
  Ops = {o1, o2}
  CtasOps = {o2}
  Tasks = {t1}
  MaxAttempts = 1
  Rows <- OneTask
  MaxRowCount = 4
  Defs = {append, keyed}
  AppendOnlyDefs = {append}
  CtasDef = append
  AbortFaults = TRUE
  MaxResults = 1
  MaxTables = 2
  MaxSnapshots = 1
INVARIANTS
  NoDanglingSnapshot
  CommitsOnFrozenBaseline
PROPERTIES
  RetainedFromCommitOn
  ImplementsAtomicAppend
CHECK_DEADLOCK FALSE
