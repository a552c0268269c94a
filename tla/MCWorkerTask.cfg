SPECIFICATION Spec
CONSTANTS
  w1 = w1
  w2 = w2
  p1 = p1
  p2 = p2
  Threads = {w1, w2}
  Parts = {p1, p2}
  Chunks <- TwoChunks
  MaxWriteId = 1
  MaxRowCount = 3
  AbortFaults = FALSE
  MaxInput = 4
INVARIANTS
  TypeOK
  PublishedFilesOnDisk
  FragmentIsWholeTask
  FinalizeChecksHold
  EndLeavesOnlyOrphans
CHECK_DEADLOCK FALSE
