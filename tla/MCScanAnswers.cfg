SPECIFICATION Spec
CONSTANTS
  Scans = {"q1", "q2"}
  Match <- MCMatch
  Skips <- MCSkips
  Tasks = {t1, t2}
  AttachPins <- MCAttachPins
  AtPins <- MCAtPins
  MaxSnapshot = 2
  MaxScans = 1
  MaxPlans = 2
  MaxAttempts = 2
INVARIANTS TypeOK WorkerHoldsOnePlan
PROPERTY ImplementsConsistentScan
CHECK_DEADLOCK FALSE
SYMMETRY MCSymmetry
