SPECIFICATION Spec
CONSTANTS
  NoHash = NoHash
  Watched <- Unused
  PassesOn <- Unused
  Lines <- AllLines
  Often <- ManyLines
  Headers <- Header1
  Opening <- First
  MaxLines = 5
  Registries <- Tomls
  BindingTables <- Tables
  PinsATest <- Pinned
  Id <- Ids
  Text <- Texts
INVARIANTS
  TypeOK
  ClaimsAsWritten
  ObligationsAsWritten
  NothingInert
  LintForetells
CHECK_DEADLOCK FALSE
