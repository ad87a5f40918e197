SPECIFICATION Spec
CONSTANTS
  c1 = c1
  c2 = c2
  c3 = c3
  k1 = k1
  k2 = k2
  a = a
  b = b
  u = u
  w = w
  s1 = s1
  s2 = s2
  None = None
  Contract <- Contracts
  Config <- Configs
  Verifier <- Verifiers
  Setting <- Settings
  IntentOf <- Intents
  ClaimsOf <- ClaimsIn
  VerificationsOf <- VerificationsIn
  RequiresOf <- RequiresIn
  Policies <- PolicyFiles
  Paths <- EvidencePaths
  Fingerprint <- Fingerprints
  MaxRuns = 2
  MaxEdits = 1
  MaxTampering = 1
INVARIANTS
  HonestExportPasses
  PiecesBelongTogether
  HashedPartsSealed
ACTION_CONSTRAINT OnlyTheBundle
CHECK_DEADLOCK FALSE
