SPECIFICATION BaselineSpec
CONSTANTS
  MaxIncarnations = 3
  MaxChanges = 1
  MaxChecks = 2
INVARIANTS FrozenFromOneTable AcceptedWasCurrent AcceptedFromOneTable
CHECK_DEADLOCK FALSE
