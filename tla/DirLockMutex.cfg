SPECIFICATION Spec
CONSTANTS
  Proc = {p1, p2, p3}
  Free = Free
  Orphan = Orphan
  Retries = 2
  StaleAfter = 1
  MaxHold = 1
  MaxCrashes = 1
INVARIANT Mutex
