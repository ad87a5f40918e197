SPECIFICATION Spec
CONSTANTS
  Process = {p1, p2}
  Claim = {1, 2}
  Legacy = {1}
  Lists <- SomeOrAll
  MaxBytes = 1
  KeepArchives = 1
  MaxTime = 1
  MaxCommands = 3
  MaxFaults = 0
SYMMETRY Alike
INVARIANTS
  EveryBindJournaled
CHECK_DEADLOCK FALSE
