SPECIFICATION Spec
CONSTANTS
  NoHash = NoHash
  p1 = p1
  p2 = p2
  Proc = {p1, p2}
  Claim = {"a", "b"}
  Sha = {"s1"}
  Tree = {"t1", "t2"}
  Contract = {"k3"}
  Config = {"g1"}
  Binding <- MCBinding
  CleanAt <- MCCleanAt
  Ir <- MCIr
  Verifiers <- MCVerifiers
  Policies <- MCDefaultPolicy
  ActorOf <- MCActorOf
  PlatformOf <- MCPlatformOf
  Watched <- MCWatched
  PassesOn <- MCPassesOn
  MaxRuns = 3
  MaxEdits = 1
  MaxCrashes = 0
  MaxTime = 0
PROPERTY DriftRemembered
CHECK_DEADLOCK FALSE
