SPECIFICATION Spec
CONSTANTS
  Run = {0, 1}
  Verifiers = 1
  Descendant = {d1}
  Capacity = 1
  Output = 1
  Timeout = 1
INVARIANTS
  TypeOK
  PassMeansExitedInTime
  NobodyWritesLater
PROPERTIES
  Returns
CHECK_DEADLOCK FALSE
