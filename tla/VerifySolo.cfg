SPECIFICATION Spec
CONSTANTS
  NoHash = NoHash
  p1 = p1
  Proc = {p1}
  Claim = {"a", "b"}
  Sha = {"s1", "nogit"}
  Tree = {"t1", "t2", "t3"}
  Contract = {"k1", "k2", "k4", "k6"}
  Config = {"g1", "g2"}
  Binding <- MCRebinding
  CleanAt <- MCCleanAt
  Ir <- MCIr
  Verifiers <- MCVerifiers
  Policies <- MCDefaultPolicy
  ActorOf <- MCActorOf
  PlatformOf <- MCPlatformOf
  Watched <- MCWatched
  PassesOn <- MCPassesOn
  MaxRuns = 3
  MaxEdits = 2
  MaxCrashes = 0
  MaxTime = 1
INVARIANT TypeOK
INVARIANT AcceptedCovered
INVARIANT AcceptedIsTrue
INVARIANT AcceptedIsAuthorized
INVARIANT LastBackedByEvidence
PROPERTY BaselineChangeNamed
PROPERTY DriftRemembered
ACTION_CONSTRAINT BindsWhatIsRead
CHECK_DEADLOCK FALSE
