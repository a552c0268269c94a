\* Builds with and without the mutation mutex, and calls that fail.
SPECIFICATION Spec
CONSTANTS
  NoThread = NoThread
  Schemas = {s}
  Tables = {t, u}
  Threads = {a, b, c}
  NoMutex = NoMutex
  IoFaults = TRUE
  MaxDdl = 4
SYMMETRY Symmetry
INVARIANTS
  CompleteAtRest TablesCurrentAtRest
