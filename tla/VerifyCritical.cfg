SPECIFICATION Spec
CONSTANTS
  NoHash = NoHash
  p1 = p1
  p2 = p2
  Proc = {p1}
  Claim = {"a", "b"}
  Sha = {"s1", "s2"}
  Tree = {"t1", "t2", "t3"}
  Contract = {"k5"}
  Config = {"g1"}
  Binding <- MCBinding
  CleanAt <- MCCleanAt
  Ir <- MCIr
  Verifiers <- MCVerifiers
  Policies <- MCDefaultPolicy
  ActorOf <- MCActorOf
  PlatformOf <- MCPlatformOf
  Watched <- MCWatched
  PassesOn <- MCPassesOn
  MaxRuns = 1
  MaxEdits = 1
  MaxCrashes = 0
  MaxTime = 0
INVARIANT CriticalInvalidRejects
CHECK_DEADLOCK FALSE
