SPECIFICATION Spec
CONSTANTS
  NoHash = NoHash
  p1 = p1
  p2 = p2
  Proc = {p1, p2}
  Claim = {"a", "b"}
  Sha = {"s1"}
  Tree = {"t1", "t3"}
  Contract = {"k3"}
  Config = {"g0", "g1", "g2"}
  Binding <- MCBinding
  CleanAt <- MCCleanAt
  Ir <- MCIr
  Verifiers <- MCVerifiers
  Policies <- MCDefaultPolicy
  ActorOf <- MCActorOf
  PlatformOf <- MCPlatformOf
  Watched <- MCWatched
  PassesOn <- MCPassesOn
  MaxRuns = 2
  MaxEdits = 2
  MaxCrashes = 1
  MaxTime = 0
INVARIANT AcceptedCovered
INVARIANT JournaledBeforePublished
INVARIANT PersistedTogether
SYMMETRY Symmetry
CHECK_DEADLOCK FALSE
