SPECIFICATION Spec
CONSTANTS
  Process = {p1, p2}
  Claim = {1, 2}
  Legacy = {1}
  Lists <- SomeOrAll
  MaxBytes = 0
  KeepArchives = 1
  MaxTime = 1
  MaxCommands = 3
  MaxFaults = 1
ACTION_CONSTRAINT InTurn
SYMMETRY Alike
INVARIANTS
  TypeOK
  RecordedActsHappened
  LastAuthorizationStands
  RecordsReadable
  WindowKept
  ReaderSeesAll
CHECK_DEADLOCK FALSE
