SPECIFICATION Spec
CONSTANTS
  o1 = o1
  o2 = o2
  append = append
  keyed = keyed
  t1 = t1
  t2 = t2
  Free = Free
  Native = Native
  Foreign = Foreign
  Ops = {o1}
  CtasOps = {}
  Tasks = {t1, t2}
  MaxAttempts = 2
  Rows <- TwoTasks
  MaxRowCount = 4
  Defs = {append}
  AppendOnlyDefs = {append}
  CtasDef = append
  AbortFaults = TRUE
  MaxResults = 3
  MaxTables = 1
  MaxSnapshots = 1
INVARIANTS
  TypeOK
  NoDanglingSnapshot
  CommitsOnFrozenBaseline
  ReportedRowsAreInputRows
PROPERTIES
  RetainedFromCommitOn
  ImplementsAtomicAppend
CHECK_DEADLOCK FALSE
