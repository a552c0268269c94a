SPECIFICATION Spec
CONSTANTS
  Stmts = {"insert", "ctas", "empty"}
  Ctas = {"ctas"}
  IfNotExists = {"ctas"}
  Threads = {t1, t2}
  Values = {"a"}
  Null = "NULL"
  DefaultName = "__DEFAULT_PARTITION__"
  Input <- MCInput
  MaxStmts = 2
  MaxTables = 2
INVARIANTS TypeOK ReportedRowsAreStored SnapshotHasFiles
PROPERTY ImplementsAtomicAppend
SYMMETRY MCSymmetry
CHECK_DEADLOCK FALSE
