SPECIFICATION FairSpec
CONSTANTS
  Threads = {t1, t2, t3}
  Rows <- MCRows
  VectorSize = 2
  Worker = TRUE
  Faults = TRUE
INVARIANTS TypeOK RowsExactlyOnce BatchWithinReader ReleasedOnce
PROPERTY ScanEnds
CHECK_DEADLOCK FALSE
