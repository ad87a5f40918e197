---------------------------- MODULE VerifyProofs ----------------------------
(***************************************************************************)
(* `uni verify` for any number of concurrent processes, any contracts,     *)
(* registries, policies and bindings, and however the workspace moves      *)
(* under them: no acceptance without a proof in the run's own context, the *)
(* lock that orders what is written, what lies on disk together, what an   *)
(* acceptance is worth, and, for runs that follow one another, the drift   *)
(* that is remembered and the evidence the last decision rests on.         *)
(***************************************************************************)
EXTENDS VerifyProperties, DecisionProofs

---------------------------------------------------------------------------
(* Sequences of anything *)

Elements(s) == {s[i] : i \in DOMAIN s}

IsSeq(s) == s \in Seq(Elements(s))

\* The empty sequence is a sequence over its own elements, of which it has none.
LEMMA EmptyIsSeq == IsSeq(<< >>)
  BY DEF IsSeq

\* A sequence over a set is one over its own elements, all from that set.
LEMMA SeqOver ==
  ASSUME NEW S, NEW s \in Seq(S)
  PROVE  IsSeq(s) /\ \A e \in Elements(s) : e \in S
  BY DEF IsSeq, Elements

\* Append adds one element.
LEMMA AppendElements ==
  ASSUME NEW s, IsSeq(s), NEW e
  PROVE  IsSeq(Append(s, e)) /\ Elements(Append(s, e)) = Elements(s) \cup {e}
<1> DEFINE S == Elements(s) \cup {e}
<1>1. s \in Seq(S) /\ e \in S
  BY DEF IsSeq
<1> HIDE DEF S
<1>2. /\ Append(s, e) \in Seq(S)
      /\ DOMAIN s = 1..Len(s) /\ Len(s) \in Nat
      /\ DOMAIN Append(s, e) = 1..(Len(s) + 1)
      /\ Append(s, e)[Len(s) + 1] = e
      /\ \A i \in 1..Len(s) : Append(s, e)[i] = s[i]
  BY <1>1
<1>3. Elements(Append(s, e)) = Elements(s) \cup {e}
  BY <1>2 DEF Elements
<1> QED BY <1>1, <1>2, <1>3, SeqOver

\* Tail loses at most the head.
LEMMA TailElements ==
  ASSUME NEW s, IsSeq(s), s # << >>
  PROVE  /\ IsSeq(Tail(s))
         /\ Head(s) \in Elements(s)
         /\ Elements(s) = Elements(Tail(s)) \cup {Head(s)}
<1> DEFINE S == Elements(s)
<1>1. s \in Seq(S)
  BY DEF IsSeq
<1> HIDE DEF S
<1>2. /\ Tail(s) \in Seq(S)
      /\ DOMAIN s = 1..Len(s) /\ Len(s) \in Nat /\ Len(s) >= 1
      /\ DOMAIN Tail(s) = 1..(Len(s) - 1)
      /\ Head(s) = s[1]
      /\ \A i \in 1..(Len(s) - 1) : Tail(s)[i] = s[i + 1]
  BY <1>1
<1>3. Elements(s) \subseteq Elements(Tail(s)) \cup {Head(s)}
  <2> SUFFICES ASSUME NEW i \in 1..Len(s) PROVE s[i] \in Elements(Tail(s)) \cup {Head(s)}
    BY <1>2 DEF Elements
  <2>1. CASE i = 1
    BY <2>1, <1>2
  <2>2. CASE i # 1
    <3>1. i - 1 \in DOMAIN Tail(s) /\ Tail(s)[i - 1] = s[i]
      BY <2>2, <1>2
    <3> QED BY <3>1 DEF Elements
  <2> QED BY <2>1, <2>2
<1>4. Elements(Tail(s)) \cup {Head(s)} \subseteq Elements(s)
  <2>1. \A i \in DOMAIN Tail(s) : Tail(s)[i] \in Elements(s)
    BY <1>2 DEF Elements
  <2>2. Head(s) \in Elements(s)
    BY <1>2 DEF Elements
  <2> QED BY <2>1, <2>2 DEF Elements
<1> QED BY <1>2, <1>3, <1>4, SeqOver

\* A concatenation has the elements of both.
LEMMA ConcatElements ==
  ASSUME NEW s, IsSeq(s), NEW t, IsSeq(t)
  PROVE  Elements(s \o t) = Elements(s) \cup Elements(t)
<1> DEFINE S == Elements(s) \cup Elements(t)
<1>1. s \in Seq(S) /\ t \in Seq(S)
  BY DEF IsSeq
<1> HIDE DEF S
<1>2. /\ DOMAIN s = 1..Len(s) /\ Len(s) \in Nat
      /\ DOMAIN t = 1..Len(t) /\ Len(t) \in Nat
      /\ DOMAIN (s \o t) = 1..(Len(s) + Len(t))
      /\ \A i \in 1..Len(s) : (s \o t)[i] = s[i]
      /\ \A i \in (Len(s) + 1)..(Len(s) + Len(t)) : (s \o t)[i] = t[i - Len(s)]
  BY <1>1
<1>3. Elements(s \o t) \subseteq Elements(s) \cup Elements(t)
  <2> SUFFICES ASSUME NEW i \in 1..(Len(s) + Len(t))
               PROVE  (s \o t)[i] \in Elements(s) \cup Elements(t)
    BY <1>2 DEF Elements
  <2>1. CASE i \in 1..Len(s)
    BY <2>1, <1>2 DEF Elements
  <2>2. CASE i \in (Len(s) + 1)..(Len(s) + Len(t))
    <3>1. i - Len(s) \in DOMAIN t
      BY <2>2, <1>2
    <3> QED BY <3>1, <2>2, <1>2 DEF Elements
  <2> QED BY <2>1, <2>2, <1>2
<1>4. Elements(s) \subseteq Elements(s \o t)
  <2>1. \A i \in DOMAIN s : i \in DOMAIN (s \o t) /\ (s \o t)[i] = s[i]
    BY <1>2
  <2> QED BY <2>1 DEF Elements
<1>5. Elements(t) \subseteq Elements(s \o t)
  <2> SUFFICES ASSUME NEW i \in DOMAIN t PROVE t[i] \in Elements(s \o t)
    BY DEF Elements
  <2>1. i + Len(s) \in DOMAIN (s \o t) /\ (s \o t)[i + Len(s)] = t[i]
    BY <1>2
  <2> QED BY <2>1 DEF Elements
<1> QED BY <1>3, <1>4, <1>5

---------------------------------------------------------------------------
(* The inductive invariant *)

RunField ==
  {"pc", "id", "contract", "config", "sha", "dirty", "contract_hash", "registry_hash",
   "previous", "next", "stored", "stale", "need", "policy", "outcome", "fresh", "drift",
   "result"}

\* Evidence that cannot mislead the cache: Valid only if its verifier really
\* passed, and with every hash whose absence would hide a drift.
Recorded(e) ==
  /\ e.state = ValidState => Passes(e.spec, e.tree)
  /\ e.contract_hash # NoHash /\ e.registry_hash # NoHash /\ e.platform # NoHash

InHand(p) == Elements(run[p].stored) \cup Elements(run[p].fresh)

Early == {"idle", "opened", "sampled", "loaded"}

EarlyOK(p) ==
  /\ run[p].pc \in Early =>
       run[p].stored = << >> /\ run[p].fresh = << >> /\ run[p].result = NoHash
  /\ run[p].pc \notin Early =>
       run[p].contract_hash # NoHash /\ run[p].registry_hash # NoHash

\* What a run has in hand is recorded, and Valid only in the run's context.
InHandOK(p) ==
  \A e \in InHand(p) : Recorded(e) /\ (e.state = ValidState => InContextOf(e, p))

OutcomeOK(p) ==
  At(p, "ran") =>
    (run[p].outcome.passed = TRUE => Passes(SpecToRun(p), run[p].outcome.tree))

AcceptedOK(p) ==
  Accepted(p) =>
    \A c \in Demanded(p) : \E e \in InHand(p) : e.claim = c /\ e.state = ValidState

RunOK(p) ==
  /\ DOMAIN run[p] = RunField
  /\ IsSeq(run[p].stored) /\ IsSeq(run[p].fresh)
  /\ EarlyOK(p) /\ InHandOK(p) /\ OutcomeOK(p) /\ AcceptedOK(p)

IInv ==
  /\ contract \in Contract /\ config \in Config
  /\ DOMAIN run = Proc
  /\ \A e \in evidence : Recorded(e)
  /\ \A p \in Proc : RunOK(p)

---------------------------------------------------------------------------
(* Steps that leave the evidence in hand alone *)

\* A run nobody touches stays as it is.
LEMMA UntouchedRun ==
  ASSUME NEW p \in Proc, RunOK(p), run'[p] = run[p]
  PROVE  RunOK(p)'
  BY DEF RunOK, EarlyOK, InHandOK, OutcomeOK, AcceptedOK, InHand, At, Accepted, Decided,
         Demanded, InContextOf, SpecToRun, Pending

\* An idle run has nothing in hand and has decided nothing.
LEMMA IdleFields ==
  /\ DOMAIN IdleRun = RunField
  /\ IdleRun.pc = "idle" /\ IdleRun.stored = << >> /\ IdleRun.fresh = << >>
  /\ IdleRun.result = NoHash
  BY DEF IdleRun, RunField

\* A run before its first lookup has nothing in hand.
LEMMA FreshRun ==
  ASSUME NEW p \in Proc, DOMAIN run'[p] = RunField, run'[p].pc \in Early,
         run'[p].stored = << >>, run'[p].fresh = << >>, run'[p].result = NoHash
  PROVE  RunOK(p)'
<1>1. Elements(<< >>) = {}
  BY DEF Elements
<1>2. EarlyOK(p)' /\ InHandOK(p)' /\ AcceptedOK(p)'
  BY <1>1 DEF EarlyOK, InHandOK, AcceptedOK, InHand, Accepted, Decided
<1>3. OutcomeOK(p)'
  BY DEF OutcomeOK, At, Early
<1> QED BY <1>2, <1>3, EmptyIsSeq DEF RunOK

\* The part of a run its evidence and its decision are judged by.
SameContext(p) ==
  /\ run'[p].contract = run[p].contract
  /\ run'[p].sha = run[p].sha /\ run'[p].dirty = run[p].dirty
  /\ run'[p].contract_hash = run[p].contract_hash
  /\ run'[p].registry_hash = run[p].registry_hash

\* A step outside the context, the evidence and the decision of a run.
LEMMA QuietStep ==
  ASSUME NEW p \in Proc, RunOK(p), DOMAIN run'[p] = RunField, SameContext(p),
         run'[p].stored = run[p].stored, run'[p].fresh = run[p].fresh,
         run'[p].result = run[p].result,
         run'[p].pc # "ran", run'[p].pc \in Early <=> run[p].pc \in Early
  PROVE  RunOK(p)'
<1> USE DEF RunOK, SameContext
<1>1. EarlyOK(p)'
  BY DEF EarlyOK
<1>2. InHandOK(p)'
  BY DEF InHandOK, InHand, InContextOf
<1>3. OutcomeOK(p)'
  BY DEF OutcomeOK, At
<1>4. AcceptedOK(p)'
  BY DEF AcceptedOK, InHand, Accepted, Decided, Demanded
<1> QED BY <1>1, <1>2, <1>3, <1>4

\* Become changes the run of one process.
LEMMA BecomeFacts ==
  ASSUME DOMAIN run = Proc, NEW p \in Proc, NEW r, Become(p, r)
  PROVE  /\ run'[p] = r /\ DOMAIN run' = Proc
         /\ \A q \in Proc : q # p => run'[q] = run[q]
  BY DEF Become

\* A step of one process that keeps its own run and the cache in order.
LEMMA OneRun ==
  ASSUME IInv, NEW p \in Proc, NEW r, Become(p, r), RunOK(p)',
         UNCHANGED <<contract, config>>, \A e \in evidence' : Recorded(e)
  PROVE  IInv'
<1>1. DOMAIN run' = Proc /\ \A q \in Proc : q # p => run'[q] = run[q]
  BY BecomeFacts DEF IInv
<1>2. \A q \in Proc : RunOK(q)'
  BY <1>1, UntouchedRun DEF IInv
<1> QED BY <1>1, <1>2 DEF IInv

\* Going idle, by whatever way.
LEMMA ToIdle ==
  ASSUME IInv, NEW p \in Proc, Become(p, IdleRun), UNCHANGED <<contract, config, evidence>>
  PROVE  IInv'
<1>1. run'[p] = IdleRun
  BY BecomeFacts DEF IInv
<1>2. RunOK(p)'
  BY <1>1, IdleFields, FreshRun DEF Early
<1> QED BY <1>2, OneRun DEF IInv

\* A run that only moves on: its record changes outside its context.
LEMMA Moves ==
  ASSUME IInv, NEW p \in Proc, NEW r, Become(p, r), UNCHANGED <<contract, config, evidence>>,
         DOMAIN r = RunField,
         r.contract = run[p].contract, r.sha = run[p].sha, r.dirty = run[p].dirty,
         r.contract_hash = run[p].contract_hash, r.registry_hash = run[p].registry_hash,
         r.stored = run[p].stored, r.fresh = run[p].fresh, r.result = run[p].result,
         r.pc # "ran", r.pc \in Early <=> run[p].pc \in Early
  PROVE  IInv'
<1>1. run'[p] = r
  BY BecomeFacts DEF IInv
<1>2. RunOK(p)'
  BY <1>1, QuietStep DEF IInv, SameContext
<1> QED BY <1>2, OneRun DEF IInv

---------------------------------------------------------------------------
(* Every step preserves the invariant *)

\* Edits, commits, checkouts, authorizations and time reach no run.
LEMMA WorldStep == IInv /\ World => IInv'
<1> SUFFICES ASSUME IInv, World PROVE IInv'
  OBVIOUS
<1>1. run' = run /\ evidence' = evidence /\ contract' \in Contract /\ config' \in Config
  BY DEF IInv, World, Edit, EditFiles, Commit, Checkout, EditContract, EditConfig, Bind, Tick,
         disk
<1>2. \A p \in Proc : RunOK(p)'
  BY <1>1, UntouchedRun DEF IInv
<1> QED BY <1>1, <1>2 DEF IInv

\* The steps before the first lookup.
LEMMA EarlyStep ==
  ASSUME IInv, NEW p \in Proc,
         LoadContract(p) \/ SampleGit(p) \/ LoadRegistry(p) \/ HashContext(p)
  PROVE  IInv'
<1>0. RunOK(p) /\ DOMAIN run[p] = RunField /\ contract \in Contract /\ config \in Config
  BY DEF IInv, RunOK
<1>1. CASE LoadContract(p)
  <2> DEFINE r == [IdleRun EXCEPT !.pc = "opened", !.id = runs + 1, !.contract = contract]
  <2>1. Become(p, r) /\ UNCHANGED <<contract, config, evidence>>
    BY <1>1 DEF LoadContract, world, disk
  <2>2. /\ DOMAIN r = RunField /\ r.pc = "opened"
        /\ r.stored = << >> /\ r.fresh = << >> /\ r.result = NoHash
    BY IdleFields DEF IdleRun
  <2>3. RunOK(p)'
    BY <2>1, <2>2, BecomeFacts, FreshRun DEF IInv, Early
  <2> QED BY <2>1, <2>3, OneRun DEF IInv
<1>2. CASE SampleGit(p)
  <2> DEFINE r == [run[p] EXCEPT !.pc = "sampled", !.sha = head, !.dirty = Dirty]
  <2>1. At(p, "opened") /\ Become(p, r) /\ UNCHANGED <<contract, config, evidence>>
    BY <1>2 DEF SampleGit, Local, world, disk
  <2>2. /\ DOMAIN r = RunField /\ r.pc = "sampled"
        /\ r.stored = << >> /\ r.fresh = << >> /\ r.result = NoHash
    BY <1>0, <2>1 DEF RunOK, EarlyOK, Early, At, RunField
  <2>3. RunOK(p)'
    BY <2>1, <2>2, BecomeFacts, FreshRun DEF IInv, Early
  <2> QED BY <2>1, <2>3, OneRun DEF IInv
<1>3. CASE LoadRegistry(p)
  <2> DEFINE r == [run[p] EXCEPT !.pc = "loaded", !.config = config]
  <2>1. At(p, "sampled") /\ Become(p, r) /\ UNCHANGED <<contract, config, evidence>>
    BY <1>3 DEF LoadRegistry, Local, world, disk
  <2>2. /\ DOMAIN r = RunField /\ r.pc = "loaded"
        /\ r.stored = << >> /\ r.fresh = << >> /\ r.result = NoHash
    BY <1>0, <2>1 DEF RunOK, EarlyOK, Early, At, RunField
  <2>3. RunOK(p)'
    BY <2>1, <2>2, BecomeFacts, FreshRun DEF IInv, Early
  <2> QED BY <2>1, <2>3, OneRun DEF IInv
<1>4. CASE HashContext(p)
  <2> DEFINE r == [run[p] EXCEPT !.pc = "lookup", !.contract_hash = contract,
                                 !.registry_hash = config, !.previous = baseline]
  <2>1. At(p, "loaded") /\ Become(p, r) /\ UNCHANGED <<contract, config, evidence>>
    BY <1>4 DEF HashContext, Local, world, disk
  <2>2. /\ DOMAIN r = RunField /\ r.pc = "lookup"
        /\ r.stored = << >> /\ r.fresh = << >> /\ r.result = NoHash
        /\ r.contract_hash = contract /\ r.registry_hash = config
    BY <1>0, <2>1 DEF RunOK, EarlyOK, Early, At, RunField
  <2> HIDE DEF r
  <2>3. run'[p] = r
    BY <2>1, BecomeFacts DEF IInv
  <2>4. RunOK(p)'
    <3>1. EarlyOK(p)'
      BY <1>0, <2>2, <2>3, HashesExist DEF EarlyOK, Early
    <3>2. InHandOK(p)' /\ AcceptedOK(p)'
      BY <2>2, <2>3 DEF InHandOK, AcceptedOK, InHand, Accepted, Decided, Elements
    <3>3. OutcomeOK(p)'
      BY <2>2, <2>3 DEF OutcomeOK, At
    <3> QED BY <2>2, <2>3, <3>1, <3>2, <3>3, EmptyIsSeq DEF RunOK
  <2> QED BY <2>1, <2>4, OneRun DEF IInv
<1> QED BY <1>1, <1>2, <1>3, <1>4

\* A hit is in the context of the run that looked it up.
LEMMA HitInContext ==
  ASSUME NEW p \in Proc, NEW file, Recorded(file),
         CacheOutcome(file, Context(p), now) = "Hit"
  PROVE  InContextOf(file, p)
<1>1. \A r \in StaleReason : ~Drifted(r, file, Context(p), now)
  BY DEF CacheOutcome, StaleReasons
<1>2. /\ ~Drifted("commit_changed", file, Context(p), now)
      /\ ~Drifted("uncommitted_changes", file, Context(p), now)
      /\ ~Drifted("contract_changed", file, Context(p), now)
      /\ ~Drifted("verifier_config_changed", file, Context(p), now)
      /\ ~Drifted("platform_changed", file, Context(p), now)
  BY <1>1 DEF StaleReason
<1>3. /\ file.commit_sha = Context(p).commit_sha
      /\ file.workspace_dirty = Context(p).workspace_dirty
      /\ file.contract_hash = Context(p).contract_hash
      /\ file.registry_hash = Context(p).registry_hash
      /\ file.platform = Context(p).platform
  BY <1>2 DEF Drifted, Recorded
<1> QED BY <1>3 DEF Context, InContextOf

\* Taking a proof from the cache.
LEMMA HitStep ==
  ASSUME IInv, NEW p \in Proc, LookupHit(p)
  PROVE  IInv'
<1>1. PICK file \in evidence :
        /\ Lookup(p, file)
        /\ CacheOutcome(file, Context(p), now) = "Hit"
        /\ Local(p, [run[p] EXCEPT !.next = @ + 1, !.stored = Append(@, file)])
  BY DEF LookupHit
<1> DEFINE r == [run[p] EXCEPT !.next = @ + 1, !.stored = Append(@, file)]
<1>2. At(p, "lookup") /\ Become(p, r) /\ UNCHANGED <<contract, config, evidence>>
  BY <1>1 DEF Lookup, LookingUp, Local, world, disk
<1>3. RunOK(p) /\ Recorded(file)
  BY DEF IInv
<1>4. /\ DOMAIN r = RunField /\ r.stored = Append(run[p].stored, file)
      /\ r.fresh = run[p].fresh /\ r.result = run[p].result /\ r.pc = run[p].pc
      /\ r.contract = run[p].contract /\ r.sha = run[p].sha /\ r.dirty = run[p].dirty
      /\ r.contract_hash = run[p].contract_hash /\ r.registry_hash = run[p].registry_hash
  BY <1>3 DEF RunOK, RunField
<1> HIDE DEF r
<1>5. run'[p] = r
  BY <1>2, BecomeFacts DEF IInv
<1>6. IsSeq(r.stored) /\ Elements(r.stored) = Elements(run[p].stored) \cup {file}
  BY <1>3, <1>4, AppendElements DEF RunOK
<1>7. InHand(p)' = InHand(p) \cup {file}
  BY <1>4, <1>5, <1>6 DEF InHand
<1>8. InContextOf(file, p)
  BY <1>1, <1>3, HitInContext
<1>9. RunOK(p)'
  <2>1. EarlyOK(p)'
    BY <1>2, <1>3, <1>4, <1>5 DEF RunOK, EarlyOK, At, Early
  <2>2. InHandOK(p)'
    BY <1>3, <1>4, <1>5, <1>7, <1>8 DEF RunOK, InHandOK, InContextOf
  <2>3. OutcomeOK(p)'
    BY <1>2, <1>4, <1>5 DEF OutcomeOK, At
  <2>4. AcceptedOK(p)'
    BY <1>3, <1>4, <1>5, <1>7 DEF RunOK, AcceptedOK, Accepted, Decided, Demanded
  <2> QED BY <1>3, <1>4, <1>5, <1>6, <2>1, <2>2, <2>3, <2>4 DEF RunOK
<1> QED BY <1>2, <1>9, OneRun DEF IInv

\* The verifier's outcome is what the verifier says of the files it saw.
LEMMA VerifierStep ==
  ASSUME IInv, NEW p \in Proc, RunVerifier(p)
  PROVE  IInv'
<1>1. PICK passed \in {Passes(SpecToRun(p), tree), FALSE} :
        Local(p, [run[p] EXCEPT !.pc = "ran", !.outcome = [passed |-> passed, tree |-> tree]])
  BY DEF RunVerifier
<1> DEFINE o == [passed |-> passed, tree |-> tree]
           r == [run[p] EXCEPT !.pc = "ran", !.outcome = o]
<1>2. At(p, "run") /\ Become(p, r) /\ UNCHANGED <<contract, config, evidence>>
  BY <1>1 DEF RunVerifier, Running, Local, world, disk
<1>3. RunOK(p)
  BY DEF IInv
<1>4. /\ DOMAIN r = RunField /\ r.stored = run[p].stored
      /\ r.fresh = run[p].fresh /\ r.result = run[p].result
      /\ r.pc = "ran" /\ r.outcome = o /\ r.need = run[p].need
      /\ r.contract = run[p].contract /\ r.sha = run[p].sha /\ r.dirty = run[p].dirty
      /\ r.contract_hash = run[p].contract_hash /\ r.registry_hash = run[p].registry_hash
      /\ r.config = run[p].config
  BY <1>3 DEF RunOK, RunField
<1>5. o.passed = TRUE => Passes(SpecToRun(p), o.tree)
  OBVIOUS
<1> HIDE DEF r, o
<1>6. run'[p] = r
  BY <1>2, BecomeFacts DEF IInv
<1>7. SpecToRun(p)' = SpecToRun(p)
  BY <1>4, <1>6 DEF SpecToRun, Pending
<1>8. RunOK(p)'
  <2>1. EarlyOK(p)'
    BY <1>2, <1>3, <1>4, <1>6 DEF RunOK, EarlyOK, At, Early
  <2>2. InHandOK(p)'
    BY <1>3, <1>4, <1>6 DEF RunOK, InHandOK, InHand, InContextOf
  <2>3. OutcomeOK(p)'
    BY <1>4, <1>5, <1>6, <1>7 DEF OutcomeOK, Passes
  <2>4. AcceptedOK(p)'
    BY <1>3, <1>4, <1>6 DEF RunOK, AcceptedOK, InHand, Accepted, Decided, Demanded
  <2> QED BY <1>3, <1>4, <1>6, <2>1, <2>2, <2>3, <2>4 DEF RunOK
<1> QED BY <1>2, <1>8, OneRun DEF IInv

\* What the run records of the verifier that just returned cannot mislead the
\* cache, and is Valid only if the context has not moved since it was sampled.
LEMMA GatheredInContext ==
  ASSUME NEW p \in Proc, RunOK(p), At(p, "ran")
  PROVE  /\ Recorded(Rechecked(Gathered(p), p))
         /\ Rechecked(Gathered(p), p).state = ValidState =>
              InContextOf(Rechecked(Gathered(p), p), p)
<1> DEFINE g == Gathered(p)
           e == Rechecked(g, p)
<1>1. /\ g.contract_hash = run[p].contract_hash /\ g.registry_hash = run[p].registry_hash
      /\ g.platform = PlatformOf[p]
      /\ g.spec = SpecToRun(p) /\ g.tree = run[p].outcome.tree
  BY DEF Gathered
<1>2. g.state = ValidState => run[p].outcome.passed = TRUE
  BY DEF Gathered, ValidState, InvalidState
<1>3. [g EXCEPT !.state = StaleState].state = StaleState
  BY DEF Gathered
<1>4. /\ [g EXCEPT !.state = StaleState].contract_hash = g.contract_hash
      /\ [g EXCEPT !.state = StaleState].registry_hash = g.registry_hash
      /\ [g EXCEPT !.state = StaleState].platform = g.platform
  BY DEF Gathered
<1> HIDE DEF g
<1>5. /\ e.contract_hash = g.contract_hash /\ e.registry_hash = g.registry_hash
      /\ e.platform = g.platform
      /\ e.state = ValidState => e = g /\ ~IsStale(g, run[p].sha, run[p].dirty)
  BY <1>3, <1>4 DEF Rechecked, ValidState, StaleState
<1> HIDE DEF e
<1>6. g.contract_hash # NoHash /\ g.registry_hash # NoHash /\ g.platform # NoHash
  BY <1>1, PlatformsExist DEF RunOK, EarlyOK, At, Early
<1>7. e.state = ValidState => Passes(e.spec, e.tree)
  BY <1>1, <1>2, <1>5 DEF RunOK, OutcomeOK
<1>8. e.state = ValidState => InContextOf(e, p)
  BY <1>1, <1>5 DEF IsStale, InContextOf
<1> QED BY <1>5, <1>6, <1>7, <1>8 DEF e, g, Recorded

\* Recording fresh evidence.
LEMMA RecordStep ==
  ASSUME IInv, NEW p \in Proc, RecordEvidence(p)
  PROVE  IInv'
<1> DEFINE e == Rechecked(Gathered(p), p)
           r == [run[p] EXCEPT !.pc = "run", !.outcome = NoHash, !.need = Tail(@),
                               !.fresh = Append(@, e)]
<1>1. At(p, "ran") /\ Become(p, r) /\ UNCHANGED <<contract, config, evidence>>
  BY DEF RecordEvidence, Local, world, disk
<1>2. RunOK(p)
  BY DEF IInv
<1>3. Recorded(e) /\ (e.state = ValidState => InContextOf(e, p))
  BY <1>1, <1>2, GatheredInContext
<1> HIDE DEF e
<1>4. /\ DOMAIN r = RunField /\ r.stored = run[p].stored
      /\ r.fresh = Append(run[p].fresh, e) /\ r.result = run[p].result /\ r.pc = "run"
      /\ r.contract = run[p].contract /\ r.sha = run[p].sha /\ r.dirty = run[p].dirty
      /\ r.contract_hash = run[p].contract_hash /\ r.registry_hash = run[p].registry_hash
  BY <1>2 DEF RunOK, RunField
<1> HIDE DEF r
<1>5. run'[p] = r
  BY <1>1, BecomeFacts DEF IInv
<1>6. IsSeq(r.fresh) /\ Elements(r.fresh) = Elements(run[p].fresh) \cup {e}
  BY <1>2, <1>4, AppendElements DEF RunOK
<1>7. InHand(p)' = InHand(p) \cup {e}
  BY <1>4, <1>5, <1>6 DEF InHand
<1>8. RunOK(p)'
  <2>1. EarlyOK(p)'
    BY <1>1, <1>2, <1>4, <1>5 DEF RunOK, EarlyOK, At, Early
  <2>2. InHandOK(p)'
    BY <1>2, <1>3, <1>4, <1>5, <1>7 DEF RunOK, InHandOK, InContextOf
  <2>3. OutcomeOK(p)'
    BY <1>4, <1>5 DEF OutcomeOK, At
  <2>4. AcceptedOK(p)'
    BY <1>2, <1>4, <1>5, <1>7 DEF RunOK, AcceptedOK, Accepted, Decided, Demanded
  <2> QED BY <1>2, <1>4, <1>5, <1>6, <2>1, <2>2, <2>3, <2>4 DEF RunOK
<1> QED BY <1>1, <1>8, OneRun DEF IInv

Verdict(p) == Decide(Ir[run[p].contract], Gathering(p), run[p].policy, StaleIds(p))

\* The decision accepts only what the gathered evidence proves.
LEMMA DecisionCovered ==
  ASSUME NEW p \in Proc, RunOK(p), Verdict(p).decision = "Accepted", NEW c \in Demanded(p)
  PROVE  \E e \in InHand(p) : e.claim = c /\ e.state = ValidState
<1> DEFINE evs == Gathering(p)
           ir == Ir[run[p].contract]
<1>1. c \in ir.claims \cap (ir.required \cup ir.critical)
  BY DEF Demanded
<1>2. Elements(evs) = InHand(p)
  BY ConcatElements DEF RunOK, Gathering, InHand
<1> HIDE DEF evs, ir
<1>3. PICK i \in DOMAIN evs : evs[i].claim = c /\ evs[i].state = "Valid"
  BY <1>1, AcceptedHasProof DEF evs, ir, Verdict
<1>4. evs[i] \in InHand(p)
  BY <1>2 DEF Elements
<1> QED BY <1>3, <1>4 DEF ValidState

\* Deciding.
LEMMA DecideStep ==
  ASSUME IInv, NEW p \in Proc, MakeDecision(p)
  PROVE  IInv'
<1> DEFINE d == Verdict(p)
           r == [run[p] EXCEPT !.pc = "decided", !.drift = drift, !.result = d]
<1>1. At(p, "run") /\ Become(p, r) /\ UNCHANGED <<contract, config, evidence>>
  BY DEF MakeDecision, Verdict, Local, world, disk
<1>2. RunOK(p)
  BY DEF IInv
<1>3. d.decision = "Accepted" =>
        \A c \in Demanded(p) : \E e \in InHand(p) : e.claim = c /\ e.state = ValidState
  BY <1>2, DecisionCovered
<1> HIDE DEF d
<1>4. /\ DOMAIN r = RunField /\ r.stored = run[p].stored /\ r.fresh = run[p].fresh
      /\ r.result = d /\ r.pc = "decided"
      /\ r.contract = run[p].contract /\ r.sha = run[p].sha /\ r.dirty = run[p].dirty
      /\ r.contract_hash = run[p].contract_hash /\ r.registry_hash = run[p].registry_hash
  BY <1>2 DEF RunOK, RunField
<1> HIDE DEF r
<1>5. run'[p] = r
  BY <1>1, BecomeFacts DEF IInv
<1>6. RunOK(p)'
  <2>1. EarlyOK(p)'
    BY <1>1, <1>2, <1>4, <1>5 DEF RunOK, EarlyOK, At, Early
  <2>2. InHandOK(p)'
    BY <1>2, <1>4, <1>5 DEF RunOK, InHandOK, InHand, InContextOf
  <2>3. OutcomeOK(p)'
    BY <1>4, <1>5 DEF OutcomeOK, At
  <2>4. AcceptedOK(p)'
    BY <1>3, <1>4, <1>5 DEF AcceptedOK, InHand, Accepted, Decided, Demanded
  <2> QED BY <1>2, <1>4, <1>5, <2>1, <2>2, <2>3, <2>4 DEF RunOK
<1> QED BY <1>1, <1>6, OneRun DEF IInv

\* The steps that only move a run on: lookups that have to be run again, the
\* policy, the drift record, and the persist phase but for the evidence.
LEMMA QuietSteps ==
  ASSUME IInv, NEW p \in Proc,
         \/ LookupStale(p) \/ LookupMiss(p) \/ ResolvePolicy(p)
         \/ SaveDrift(p) \/ AcquireLock(p)
         \/ AppendJournal(p) \/ SaveLast(p) \/ WriteBaseline(p) \/ WriteSnapshot(p)
  PROVE  IInv'
<1>0. DOMAIN run[p] = RunField
  BY DEF IInv, RunOK
<1> USE <1>0 DEF RunField, Early, At
<1>1. CASE LookupStale(p)
  <2>1. PICK file \in evidence :
          /\ LookingUp(p)
          /\ Local(p, [run[p] EXCEPT !.next = @ + 1, !.need = Append(@, Job(p)),
                        !.stale[file.claim] = StaleReasons(file, Context(p), now)])
    BY <1>1 DEF LookupStale, Lookup
  <2> DEFINE r == [run[p] EXCEPT !.next = @ + 1, !.need = Append(@, Job(p)),
                     !.stale[file.claim] = StaleReasons(file, Context(p), now)]
  <2>2. Become(p, r) /\ UNCHANGED <<contract, config, evidence>> /\ run[p].pc = "lookup"
    BY <2>1 DEF Local, LookingUp, world, disk
  <2> QED BY <2>2, Moves
<1>2. CASE LookupMiss(p)
  <2> DEFINE r == [run[p] EXCEPT !.next = @ + 1, !.need = Append(@, Job(p))]
  <2>1. Become(p, r) /\ UNCHANGED <<contract, config, evidence>> /\ run[p].pc = "lookup"
    BY <1>2 DEF LookupMiss, Lookup, LookingUp, Local, world, disk
  <2> QED BY <2>1, Moves
<1>3. CASE ResolvePolicy(p)
  <2>1. PICK policy \in Policies :
          Local(p, [run[p] EXCEPT !.pc = "run", !.policy = policy])
    BY <1>3 DEF ResolvePolicy
  <2> DEFINE r == [run[p] EXCEPT !.pc = "run", !.policy = policy]
  <2>2. Become(p, r) /\ UNCHANGED <<contract, config, evidence>> /\ run[p].pc = "lookup"
    BY <1>3, <2>1 DEF ResolvePolicy, Local, world, disk
  <2> QED BY <2>2, Moves
<1>4. CASE SaveDrift(p)
  <2> DEFINE r == [run[p] EXCEPT !.pc = "acquire", !.drift = drift']
  <2>1. Become(p, r) /\ UNCHANGED <<contract, config, evidence>> /\ run[p].pc = "decided"
    BY <1>4 DEF SaveDrift, world
  <2> QED BY <2>1, Moves
<1>5. CASE AcquireLock(p)
  <2> DEFINE r == [run[p] EXCEPT !.pc = "save"]
  <2>1. Become(p, r) /\ UNCHANGED <<contract, config, evidence>> /\ run[p].pc = "acquire"
    BY <1>5 DEF AcquireLock, world, disk
  <2> QED BY <2>1, Moves
<1>6. CASE AppendJournal(p)
  <2> DEFINE r == [run[p] EXCEPT !.pc = "journaled"]
  <2>1. Become(p, r) /\ UNCHANGED <<contract, config, evidence>> /\ run[p].pc = "save"
    BY <1>6 DEF AppendJournal, world
  <2> QED BY <2>1, Moves
<1>7. CASE SaveLast(p)
  <2> DEFINE r == [run[p] EXCEPT !.pc = "acknowledge"]
  <2>1. Become(p, r) /\ UNCHANGED <<contract, config, evidence>> /\ run[p].pc = "journaled"
    BY <1>7 DEF SaveLast, world
  <2> QED BY <2>1, Moves
<1>8. CASE WriteBaseline(p)
  <2> DEFINE r == [run[p] EXCEPT !.pc = "snapshot"]
  <2>1. Become(p, r) /\ UNCHANGED <<contract, config, evidence>> /\ run[p].pc = "acknowledge"
    BY <1>8 DEF WriteBaseline, world
  <2> QED BY <2>1, Moves
<1>9. CASE WriteSnapshot(p)
  <2> DEFINE r == [run[p] EXCEPT !.pc = "release"]
  <2>1. Become(p, r) /\ UNCHANGED <<contract, config, evidence>> /\ run[p].pc = "snapshot"
    BY <1>9 DEF WriteSnapshot, world
  <2> QED BY <2>1, Moves
<1> QED BY <1>1, <1>2, <1>3, <1>4, <1>5, <1>6, <1>7, <1>8, <1>9

\* Saving evidence moves it from the fresh to the stored, and into the cache.
LEMMA SaveStep ==
  ASSUME IInv, NEW p \in Proc, SaveEvidence(p)
  PROVE  IInv'
<1> DEFINE e == Head(run[p].fresh)
           r == [run[p] EXCEPT !.fresh = Tail(@), !.stored = Append(@, e)]
<1>1. /\ At(p, "save") /\ run[p].fresh # << >>
      /\ Become(p, r) /\ UNCHANGED <<contract, config>>
      /\ evidence' = Replaced(e)
  BY DEF SaveEvidence, world
<1>2. RunOK(p)
  BY DEF IInv
<1>3. /\ IsSeq(Tail(run[p].fresh)) /\ e \in Elements(run[p].fresh)
      /\ Elements(run[p].fresh) = Elements(Tail(run[p].fresh)) \cup {e}
  BY <1>1, <1>2, TailElements DEF RunOK
<1> HIDE DEF e
<1>4. IsSeq(Append(run[p].stored, e))
      /\ Elements(Append(run[p].stored, e)) = Elements(run[p].stored) \cup {e}
  BY <1>2, AppendElements DEF RunOK
<1>5. /\ DOMAIN r = RunField /\ r.stored = Append(run[p].stored, e)
      /\ r.fresh = Tail(run[p].fresh) /\ r.result = run[p].result /\ r.pc = run[p].pc
      /\ r.contract = run[p].contract /\ r.sha = run[p].sha /\ r.dirty = run[p].dirty
      /\ r.contract_hash = run[p].contract_hash /\ r.registry_hash = run[p].registry_hash
  BY <1>2 DEF RunOK, RunField
<1> HIDE DEF r
<1>6. run'[p] = r
  BY <1>1, BecomeFacts DEF IInv
<1>7. InHand(p)' = InHand(p)
  BY <1>3, <1>4, <1>5, <1>6 DEF InHand
<1>8. RunOK(p)'
  <2>1. EarlyOK(p)'
    BY <1>1, <1>2, <1>5, <1>6 DEF RunOK, EarlyOK, At, Early
  <2>2. InHandOK(p)'
    BY <1>2, <1>5, <1>6, <1>7 DEF RunOK, InHandOK, InContextOf
  <2>3. OutcomeOK(p)'
    BY <1>1, <1>5, <1>6 DEF OutcomeOK, At
  <2>4. AcceptedOK(p)'
    BY <1>2, <1>5, <1>6, <1>7 DEF RunOK, AcceptedOK, Accepted, Decided, Demanded
  <2> QED BY <1>2, <1>3, <1>4, <1>5, <1>6, <2>1, <2>2, <2>3, <2>4 DEF RunOK
<1>9. Recorded(e)
  BY <1>2, <1>3 DEF RunOK, InHandOK, InHand
<1>10. \A f \in evidence' : Recorded(f)
  BY <1>1, <1>9 DEF IInv, Replaced
<1> QED BY <1>1, <1>8, <1>10, OneRun

\* The ends of a run: done, given up, failed or killed.
LEMMA IdleSteps ==
  ASSUME IInv, NEW p \in Proc,
         \/ LookupRefused(p) \/ UnknownVerifier(p) \/ GiveUp(p)
         \/ ReleaseLock(p) \/ PersistFails(p) \/ Crash(p)
  PROVE  IInv'
<1>1. Become(p, IdleRun) /\ UNCHANGED <<contract, config, evidence>>
  BY DEF LookupRefused, UnknownVerifier, GiveUp, ReleaseLock, PersistFails, Crash,
         Abort, Local, world, disk
<1> QED BY <1>1, ToIdle

---------------------------------------------------------------------------
(* The theorem *)

\* The strengthened invariant holds in the initial state.
LEMMA InitIInv == Init => IInv
<1> SUFFICES ASSUME Init PROVE IInv
  OBVIOUS
<1>1. \A p \in Proc : run[p] = IdleRun
  BY DEF Init
<1>2. \A p \in Proc : EarlyOK(p) /\ InHandOK(p) /\ OutcomeOK(p) /\ AcceptedOK(p)
  <2> SUFFICES ASSUME NEW p \in Proc
               PROVE  EarlyOK(p) /\ InHandOK(p) /\ OutcomeOK(p) /\ AcceptedOK(p)
    OBVIOUS
  <2>1. Elements(<< >>) = {}
    BY DEF Elements
  <2> QED BY <1>1, <2>1, IdleFields
          DEF EarlyOK, InHandOK, OutcomeOK, AcceptedOK, InHand, Early, At, Accepted, Decided
<1>3. \A p \in Proc : RunOK(p)
  BY <1>1, <1>2, IdleFields, EmptyIsSeq DEF RunOK
<1> QED BY <1>3 DEF Init, IInv

\* Every step of every process, and of the people around it, preserves the
\* strengthened invariant.
LEMMA NextIInv == IInv /\ [Next]_vars => IInv'
<1> SUFFICES ASSUME IInv, [Next]_vars PROVE IInv'
  OBVIOUS
<1>1. CASE World
  BY <1>1, WorldStep
<1>2. ASSUME NEW p \in Proc, LoadContract(p) PROVE IInv'
  BY <1>2, EarlyStep
<1>3. ASSUME NEW p \in Proc, ReapLock(p) PROVE IInv'
  <2>1. run' = run /\ evidence' = evidence /\ UNCHANGED <<contract, config>>
    BY <1>3 DEF ReapLock, world, disk
  <2>2. \A q \in Proc : RunOK(q)'
    BY <2>1, UntouchedRun DEF IInv
  <2> QED BY <2>1, <2>2 DEF IInv
<1>4. ASSUME NEW p \in Proc, Step(p) PROVE IInv'
  BY <1>3, <1>4, EarlyStep, HitStep, VerifierStep, RecordStep, DecideStep, QuietSteps,
     SaveStep, IdleSteps DEF Step
<1>5. ASSUME NEW p \in Proc, PersistFails(p) \/ Crash(p) PROVE IInv'
  BY <1>5, IdleSteps
<1>6. CASE UNCHANGED vars
  <2>1. run' = run /\ evidence' = evidence /\ UNCHANGED <<contract, config>>
    BY <1>6 DEF vars, world, disk
  <2>2. \A q \in Proc : RunOK(q)'
    BY <2>1, UntouchedRun DEF IInv
  <2> QED BY <2>1, <2>2 DEF IInv
<1> QED BY <1>1, <1>2, <1>4, <1>5, <1>6 DEF Next

\* The strengthened invariant holds in every reachable state.
THEOREM Invariance == Spec => []IInv
  BY InitIInv, NextIInv, PTL DEF Spec

\* In an accepting run each demanded claim has a proof in the run's context.
LEMMA CoveredByInvariant == IInv => AcceptedCovered
<1> SUFFICES ASSUME IInv, NEW p \in Proc, Accepted(p), NEW c \in Demanded(p)
             PROVE  \E i \in DOMAIN Gathering(p) : Proof(Gathering(p)[i], c, p)
  BY DEF AcceptedCovered
<1>1. RunOK(p)
  BY DEF IInv
<1>2. PICK e \in InHand(p) : e.claim = c /\ e.state = ValidState
  BY <1>1 DEF RunOK, AcceptedOK
<1>3. Proof(e, c, p)
  BY <1>1, <1>2 DEF RunOK, InHandOK, Recorded, Proof
<1>4. e \in Elements(Gathering(p))
  BY <1>1, ConcatElements DEF RunOK, Gathering, InHand
<1> QED BY <1>3, <1>4 DEF Elements

\* `uni verify` never accepts without evidence, for every demanded claim, of a
\* verifier that really passed, recorded in the very context the run decided
\* about: whatever the interleaving of runs, edits, commits, crashes and I/O
\* errors, and for every contract, registry, binding and policy.
THEOREM AcceptedOnlyIfCovered == Spec => []AcceptedCovered
  BY Invariance, CoveredByInvariant, PTL

---------------------------------------------------------------------------
(* The persist phase *)

Persisting == {"save", "journaled", "acknowledge", "snapshot", "release"}

\* The baseline a run compares with is sampled once.
KeepsPrevious(old, new) ==
  \/ new.pc \in Early
  \/ new.previous = baseline
  \/ old.pc \notin Early /\ new.previous = old.previous

\* What a step outside the persist phase leaves alone.
Outside ==
  /\ UNCHANGED <<last, baseline, snapshot, journal, crashes>>
  /\ DOMAIN run' = Proc
  /\ \A q \in Proc : \/ run'[q] = run[q]
                     \/ /\ run[q].pc \notin Persisting /\ run'[q].pc \notin Persisting
                        /\ KeepsPrevious(run[q], run'[q])

\* A step of one process outside the persist phase is such a step.
LEMMA OutsideByOne ==
  ASSUME DOMAIN run = Proc, NEW p \in Proc, NEW r, Become(p, r),
         run[p].pc \notin Persisting, r.pc \notin Persisting, KeepsPrevious(run[p], r),
         UNCHANGED <<last, baseline, snapshot, journal, crashes>>
  PROVE  Outside
  BY BecomeFacts DEF Outside

\* The workspace, and every step of a run up to its decision and its drift
\* record, leaves alone what the persist phase writes.
LEMMA OutsideSteps ==
  ASSUME IInv, NEW p \in Proc,
         \/ World \/ LoadContract(p) \/ SampleGit(p) \/ LoadRegistry(p) \/ HashContext(p)
         \/ LookupRefused(p) \/ LookupHit(p) \/ LookupStale(p) \/ LookupMiss(p)
         \/ ResolvePolicy(p) \/ UnknownVerifier(p) \/ RunVerifier(p) \/ RecordEvidence(p)
         \/ MakeDecision(p) \/ SaveDrift(p) \/ GiveUp(p)
  PROVE  Outside /\ lock' = lock
<1>0. DOMAIN run[p] = RunField /\ DOMAIN run = Proc /\ IdleRun.pc = "idle"
  BY IdleFields DEF IInv, RunOK
<1> USE <1>0 DEF RunField, At, Persisting, Local, disk, Early, KeepsPrevious
<1>1. CASE World
  BY <1>1 DEF Outside, World, Edit, EditFiles, Commit, Checkout, EditContract, EditConfig,
              Bind, Tick
<1>2. CASE LoadContract(p)
  <2> DEFINE r == [IdleRun EXCEPT !.pc = "opened", !.id = runs + 1, !.contract = contract]
  <2>1. Become(p, r) /\ run[p].pc = "idle" /\ r.pc = "opened"
        /\ UNCHANGED <<last, baseline, snapshot, journal, crashes, lock>>
    BY <1>2 DEF LoadContract, IdleRun
  <2> QED BY <2>1, OutsideByOne
<1>3. CASE SampleGit(p)
  <2> DEFINE r == [run[p] EXCEPT !.pc = "sampled", !.sha = head, !.dirty = Dirty]
  <2>1. Become(p, r) /\ run[p].pc = "opened" /\ r.pc = "sampled"
        /\ UNCHANGED <<last, baseline, snapshot, journal, crashes, lock>>
    BY <1>3 DEF SampleGit
  <2> QED BY <2>1, OutsideByOne
<1>4. CASE LoadRegistry(p)
  <2> DEFINE r == [run[p] EXCEPT !.pc = "loaded", !.config = config]
  <2>1. Become(p, r) /\ run[p].pc = "sampled" /\ r.pc = "loaded"
        /\ UNCHANGED <<last, baseline, snapshot, journal, crashes, lock>>
    BY <1>4 DEF LoadRegistry
  <2> QED BY <2>1, OutsideByOne
<1>5. CASE HashContext(p)
  <2> DEFINE r == [run[p] EXCEPT !.pc = "lookup", !.contract_hash = contract,
                                 !.registry_hash = config, !.previous = baseline]
  <2>1. Become(p, r) /\ run[p].pc = "loaded" /\ r.pc = "lookup" /\ r.previous = baseline
        /\ UNCHANGED <<last, baseline, snapshot, journal, crashes, lock>>
    BY <1>5 DEF HashContext
  <2> QED BY <2>1, OutsideByOne
<1>6. CASE LookupRefused(p) \/ UnknownVerifier(p) \/ GiveUp(p)
  <2>1. Become(p, IdleRun) /\ run[p].pc \in {"lookup", "run", "acquire"}
        /\ UNCHANGED <<last, baseline, snapshot, journal, crashes, lock>>
    BY <1>6 DEF LookupRefused, UnknownVerifier, GiveUp, Abort, LookingUp, Running
  <2> QED BY <2>1, OutsideByOne
<1>7. CASE LookupHit(p)
  <2>1. PICK file \in evidence :
          /\ LookingUp(p)
          /\ Local(p, [run[p] EXCEPT !.next = @ + 1, !.stored = Append(@, file)])
    BY <1>7 DEF LookupHit, Lookup
  <2> DEFINE r == [run[p] EXCEPT !.next = @ + 1, !.stored = Append(@, file)]
  <2>2. Become(p, r) /\ run[p].pc = "lookup" /\ r.pc = "lookup" /\ r.previous = run[p].previous
        /\ UNCHANGED <<last, baseline, snapshot, journal, crashes, lock>>
    BY <2>1 DEF LookingUp
  <2> QED BY <2>2, OutsideByOne
<1>8. CASE LookupStale(p)
  <2>1. PICK file \in evidence :
          /\ LookingUp(p)
          /\ Local(p, [run[p] EXCEPT !.next = @ + 1, !.need = Append(@, Job(p)),
                        !.stale[file.claim] = StaleReasons(file, Context(p), now)])
    BY <1>8 DEF LookupStale, Lookup
  <2> DEFINE r == [run[p] EXCEPT !.next = @ + 1, !.need = Append(@, Job(p)),
                     !.stale[file.claim] = StaleReasons(file, Context(p), now)]
  <2>2. Become(p, r) /\ run[p].pc = "lookup" /\ r.pc = "lookup" /\ r.previous = run[p].previous
        /\ UNCHANGED <<last, baseline, snapshot, journal, crashes, lock>>
    BY <2>1 DEF LookingUp
  <2> QED BY <2>2, OutsideByOne
<1>9. CASE LookupMiss(p)
  <2> DEFINE r == [run[p] EXCEPT !.next = @ + 1, !.need = Append(@, Job(p))]
  <2>1. Become(p, r) /\ run[p].pc = "lookup" /\ r.pc = "lookup" /\ r.previous = run[p].previous
        /\ UNCHANGED <<last, baseline, snapshot, journal, crashes, lock>>
    BY <1>9 DEF LookupMiss, Lookup, LookingUp
  <2> QED BY <2>1, OutsideByOne
<1>10. CASE ResolvePolicy(p)
  <2>1. PICK policy \in Policies :
          Local(p, [run[p] EXCEPT !.pc = "run", !.policy = policy])
    BY <1>10 DEF ResolvePolicy
  <2> DEFINE r == [run[p] EXCEPT !.pc = "run", !.policy = policy]
  <2>2. Become(p, r) /\ run[p].pc = "lookup" /\ r.pc = "run" /\ r.previous = run[p].previous
        /\ UNCHANGED <<last, baseline, snapshot, journal, crashes, lock>>
    BY <1>10, <2>1 DEF ResolvePolicy
  <2> QED BY <2>2, OutsideByOne
<1>11. CASE RunVerifier(p)
  <2>1. PICK passed \in {Passes(SpecToRun(p), tree), FALSE} :
          Local(p, [run[p] EXCEPT !.pc = "ran",
                                  !.outcome = [passed |-> passed, tree |-> tree]])
    BY <1>11 DEF RunVerifier
  <2> DEFINE r == [run[p] EXCEPT !.pc = "ran", !.outcome = [passed |-> passed, tree |-> tree]]
  <2>2. Become(p, r) /\ run[p].pc = "run" /\ r.pc = "ran" /\ r.previous = run[p].previous
        /\ UNCHANGED <<last, baseline, snapshot, journal, crashes, lock>>
    BY <1>11, <2>1 DEF RunVerifier, Running
  <2> QED BY <2>2, OutsideByOne
<1>12. CASE RecordEvidence(p)
  <2> DEFINE r == [run[p] EXCEPT !.pc = "run", !.outcome = NoHash, !.need = Tail(@),
                                 !.fresh = Append(@, Rechecked(Gathered(p), p))]
  <2>1. Become(p, r) /\ run[p].pc = "ran" /\ r.pc = "run" /\ r.previous = run[p].previous
        /\ UNCHANGED <<last, baseline, snapshot, journal, crashes, lock>>
    BY <1>12 DEF RecordEvidence
  <2> QED BY <2>1, OutsideByOne
<1>13. CASE MakeDecision(p)
  <2> DEFINE r == [run[p] EXCEPT !.pc = "decided", !.drift = drift, !.result = Verdict(p)]
  <2>1. Become(p, r) /\ run[p].pc = "run" /\ r.pc = "decided" /\ r.previous = run[p].previous
        /\ UNCHANGED <<last, baseline, snapshot, journal, crashes, lock>>
    BY <1>13 DEF MakeDecision, Verdict
  <2> QED BY <2>1, OutsideByOne
<1>14. CASE SaveDrift(p)
  <2> DEFINE r == [run[p] EXCEPT !.pc = "acquire", !.drift = drift']
  <2>1. Become(p, r) /\ run[p].pc = "decided" /\ r.pc = "acquire" /\ r.previous = run[p].previous
        /\ UNCHANGED <<last, baseline, snapshot, journal, crashes, lock>>
    BY <1>14 DEF SaveDrift
  <2> QED BY <2>1, OutsideByOne
<1> QED BY <1>1, <1>2, <1>3, <1>4, <1>5, <1>6, <1>7, <1>8, <1>9, <1>10, <1>11, <1>12,
           <1>13, <1>14

\* The record of the run in the journal.
RecordOf(p) ==
  [id |-> run[p].id, decision |-> run[p].result.decision, registry |-> run[p].registry_hash,
   registryChanged |-> IF TrustBoundaryChanged(p) THEN run[p].previous ELSE NoHash]

\* A run is journaled before it publishes anything.
JournaledOK(p) ==
  run[p].pc \in Persisting \ {"save"} => RecordOf(p) \in journal

JInv ==
  /\ DOMAIN run = Proc
  /\ \A p \in Proc : JournaledOK(p)
  /\ JournaledBeforePublished

\* A run goes from one label to another, with the record of it unchanged.
Onward(p, from, to) ==
  /\ run[p].pc = from /\ run'[p].pc = to
  /\ RecordOf(p)' = RecordOf(p)
  /\ run'[p].registry_hash = run[p].registry_hash
  /\ run'[p].previous = run[p].previous

\* A run that is only given a new label goes onward.
LEMMA Relabelled ==
  ASSUME IInv, NEW p \in Proc, NEW label, Become(p, [run[p] EXCEPT !.pc = label])
  PROVE  Onward(p, run[p].pc, label)
<1>1. DOMAIN run = Proc /\ DOMAIN run[p] = RunField
  BY DEF IInv, RunOK
<1>2. run'[p] = [run[p] EXCEPT !.pc = label]
  BY <1>1, BecomeFacts
<1>3. /\ run'[p].pc = label /\ run'[p].id = run[p].id /\ run'[p].result = run[p].result
      /\ run'[p].registry_hash = run[p].registry_hash
      /\ run'[p].previous = run[p].previous
  BY <1>1, <1>2 DEF RunField
<1> QED BY <1>3 DEF Onward, RecordOf, TrustBoundaryChanged

(* The steps of the persist phase: what each writes and how the run goes on. *)

\* Taking the lock writes nothing else.
LEMMA Acquires ==
  ASSUME IInv, NEW p \in Proc, AcquireLock(p)
  PROVE  /\ Onward(p, "acquire", "save")
         /\ lock = NoHash /\ lock' = p
         /\ UNCHANGED <<last, baseline, snapshot, journal, crashes>>
  BY Relabelled DEF AcquireLock, At, disk, Lock!Acquire

\* Saving evidence publishes nothing.
LEMMA Saves ==
  ASSUME IInv, NEW p \in Proc, SaveEvidence(p)
  PROVE  /\ Onward(p, "save", "save")
         /\ UNCHANGED <<last, baseline, snapshot, journal, crashes, lock>>
<1>1. DOMAIN run = Proc /\ DOMAIN run[p] = RunField
  BY DEF IInv, RunOK
<1>2. /\ run[p].pc = "save" /\ UNCHANGED <<last, baseline, snapshot, journal, crashes, lock>>
      /\ run'[p] = [run[p] EXCEPT !.fresh = Tail(@), !.stored = Append(@, Head(run[p].fresh))]
  BY <1>1, BecomeFacts DEF SaveEvidence, At
<1>3. /\ run'[p].pc = run[p].pc /\ run'[p].previous = run[p].previous /\ run'[p].id = run[p].id
      /\ run'[p].result = run[p].result /\ run'[p].registry_hash = run[p].registry_hash
  BY <1>1, <1>2 DEF RunField
<1> QED BY <1>2, <1>3 DEF Onward, RecordOf, TrustBoundaryChanged

\* The journal record of the run.
LEMMA Journals ==
  ASSUME IInv, NEW p \in Proc, AppendJournal(p)
  PROVE  /\ Onward(p, "save", "journaled")
         /\ journal' = journal \cup {RecordOf(p)}
         /\ UNCHANGED <<last, baseline, snapshot, crashes, lock>>
  BY Relabelled DEF AppendJournal, At, RecordOf

\* Publishing the decision.
LEMMA Publishes ==
  ASSUME IInv, NEW p \in Proc, SaveLast(p)
  PROVE  /\ Onward(p, "journaled", "acknowledge")
         /\ last'.id = run[p].id /\ last'.decision = run[p].result.decision
         /\ UNCHANGED <<baseline, snapshot, journal, crashes, lock>>
  BY Relabelled DEF SaveLast, At

\* Acknowledging the registry.
LEMMA Acknowledges ==
  ASSUME IInv, NEW p \in Proc, WriteBaseline(p)
  PROVE  /\ Onward(p, "acknowledge", "snapshot")
         /\ baseline' = run[p].registry_hash
         /\ UNCHANGED <<last, snapshot, journal, crashes, lock>>
  BY Relabelled DEF WriteBaseline, At

\* Keeping the registry for the next diff.
LEMMA Snapshots ==
  ASSUME IInv, NEW p \in Proc, WriteSnapshot(p)
  PROVE  /\ Onward(p, "snapshot", "release")
         /\ snapshot' = run[p].registry_hash
         /\ UNCHANGED <<last, baseline, journal, crashes, lock>>
  BY Relabelled DEF WriteSnapshot, At

\* The records of runs that nobody touches stay in a journal that grows.
LEMMA JournalGrows ==
  ASSUME JInv, NEW p \in Proc, DOMAIN run' = Proc, journal \subseteq journal',
         \A q \in Proc : q # p => run'[q] = run[q]
  PROVE  \A q \in Proc : q # p => JournaledOK(q)'
  BY DEF JInv, JournaledOK, RecordOf, TrustBoundaryChanged

\* A record that is published without a new one being made.
LEMMA PublishedStays ==
  ASSUME JInv, journal \subseteq journal',
         last' = last \/ \E j \in journal : j.id = last'.id /\ j.decision = last'.decision,
         baseline' = baseline \/ \E j \in journal : j.registry = baseline'
  PROVE  JournaledBeforePublished'
  BY DEF JInv, JournaledBeforePublished

\* Every step keeps the journal ahead of what it publishes.
LEMMA NextJInv == IInv /\ JInv /\ [Next]_vars => JInv'
<1> SUFFICES ASSUME IInv, JInv, [Next]_vars PROVE JInv'
  OBVIOUS
<1>0. /\ DOMAIN run = Proc /\ \A p \in Proc : DOMAIN run[p] = RunField
      /\ IdleRun.pc = "idle"
  BY IdleFields DEF IInv, RunOK
<1>1. ASSUME Outside PROVE JInv'
  <2>1. \A q \in Proc : JournaledOK(q)'
    BY <1>1 DEF Outside, JInv, JournaledOK, RecordOf, TrustBoundaryChanged, Persisting
  <2> QED BY <1>1, <2>1, PublishedStays DEF Outside, JInv
<1>2. CASE World
  <2>1. CASE Proc = {}
    BY <1>2, <2>1, PublishedStays DEF JInv, World, Edit, EditFiles, Commit, Checkout,
       EditContract, EditConfig, Bind, Tick, disk
  <2>2. ASSUME NEW p \in Proc PROVE JInv'
    BY <1>1, <1>2, OutsideSteps
  <2> QED BY <2>1, <2>2
<1>3. ASSUME NEW p \in Proc, LoadContract(p) PROVE JInv'
  BY <1>1, <1>3, OutsideSteps
<1>4. ASSUME NEW p \in Proc, Become(p, IdleRun),
             UNCHANGED <<last, baseline, journal>>
      PROVE  JInv'
  <2>1. DOMAIN run' = Proc /\ run'[p].pc = "idle"
        /\ \A q \in Proc : q # p => run'[q] = run[q]
    BY <1>0, <1>4, BecomeFacts
  <2>2. \A q \in Proc : JournaledOK(q)'
    BY <1>4, <2>1, JournalGrows DEF JournaledOK, Persisting
  <2> QED BY <1>4, <2>1, <2>2, PublishedStays DEF JInv
<1>5. ASSUME NEW p \in Proc, ReleaseLock(p) \/ PersistFails(p) \/ Crash(p) PROVE JInv'
  BY <1>4, <1>5 DEF ReleaseLock, PersistFails, Crash, disk
<1>6. ASSUME NEW p \in Proc, ReapLock(p) PROVE JInv'
  BY <1>1, <1>6 DEF ReapLock, Outside, disk, JInv
<1>7. ASSUME NEW p \in Proc,
             \/ AcquireLock(p) \/ SaveEvidence(p) \/ AppendJournal(p) \/ SaveLast(p)
             \/ WriteBaseline(p) \/ WriteSnapshot(p)
      PROVE  JInv'
  <2>0. DOMAIN run' = Proc /\ \A q \in Proc : q # p => run'[q] = run[q]
    BY <1>0, <1>7, BecomeFacts
       DEF AcquireLock, SaveEvidence, AppendJournal, SaveLast, WriteBaseline, WriteSnapshot
  <2>1. CASE AcquireLock(p) \/ SaveEvidence(p)
    <3>1. run'[p].pc = "save" /\ UNCHANGED <<last, baseline, journal>>
      <4>1. CASE AcquireLock(p)
        BY <4>1, Acquires DEF Onward
      <4>2. CASE SaveEvidence(p)
        BY <4>2, Saves DEF Onward
      <4> QED BY <2>1, <4>1, <4>2
    <3>2. \A q \in Proc : JournaledOK(q)'
      BY <2>0, <3>1, JournalGrows DEF JournaledOK
    <3> QED BY <2>0, <3>1, <3>2, PublishedStays DEF JInv
  <2>2. CASE AppendJournal(p)
    <3>1. /\ RecordOf(p)' = RecordOf(p)
          /\ journal' = journal \cup {RecordOf(p)} /\ UNCHANGED <<last, baseline>>
      BY <2>2, Journals DEF Onward
    <3>2. RecordOf(p)' \in journal'
      BY <3>1
    <3>3. \A q \in Proc : JournaledOK(q)'
      BY <2>0, <3>1, <3>2, JournalGrows DEF JournaledOK
    <3> QED BY <2>0, <3>1, <3>3, PublishedStays DEF JInv
  <2>3. CASE SaveLast(p)
    <3>1. /\ run[p].pc = "journaled" /\ RecordOf(p)' = RecordOf(p)
          /\ last'.id = run[p].id /\ last'.decision = run[p].result.decision
          /\ UNCHANGED <<baseline, journal>>
      BY <2>3, Publishes DEF Onward
    <3>2. RecordOf(p) \in journal
      BY <3>1 DEF JInv, JournaledOK, Persisting
    <3>3. RecordOf(p)' \in journal'
      BY <3>1, <3>2
    <3>4. \A q \in Proc : JournaledOK(q)'
      BY <2>0, <3>1, <3>3, JournalGrows DEF JournaledOK
    <3>5. RecordOf(p).id = last'.id /\ RecordOf(p).decision = last'.decision
      BY <3>1 DEF RecordOf
    <3> QED BY <2>0, <3>1, <3>2, <3>4, <3>5, PublishedStays DEF JInv
  <2>4. CASE WriteBaseline(p)
    <3>1. /\ run[p].pc = "acknowledge" /\ RecordOf(p)' = RecordOf(p)
          /\ baseline' = run[p].registry_hash /\ UNCHANGED <<last, journal>>
      BY <2>4, Acknowledges DEF Onward
    <3>2. RecordOf(p) \in journal
      BY <3>1 DEF JInv, JournaledOK, Persisting
    <3>3. RecordOf(p)' \in journal'
      BY <3>1, <3>2
    <3>4. \A q \in Proc : JournaledOK(q)'
      BY <2>0, <3>1, <3>3, JournalGrows DEF JournaledOK
    <3>5. RecordOf(p).registry = baseline'
      BY <3>1 DEF RecordOf
    <3> QED BY <2>0, <3>1, <3>2, <3>4, <3>5, PublishedStays DEF JInv
  <2>5. CASE WriteSnapshot(p)
    <3>1. /\ run[p].pc = "snapshot" /\ RecordOf(p)' = RecordOf(p)
          /\ UNCHANGED <<last, baseline, journal>>
      BY <2>5, Snapshots DEF Onward
    <3>2. RecordOf(p) \in journal
      BY <3>1 DEF JInv, JournaledOK, Persisting
    <3>3. RecordOf(p)' \in journal'
      BY <3>1, <3>2
    <3>4. \A q \in Proc : JournaledOK(q)'
      BY <2>0, <3>1, <3>3, JournalGrows DEF JournaledOK
    <3> QED BY <2>0, <3>1, <3>4, PublishedStays DEF JInv
  <2> QED BY <1>7, <2>1, <2>2, <2>3, <2>4, <2>5
<1>8. ASSUME NEW p \in Proc, Step(p) PROVE JInv'
  BY <1>1, <1>5, <1>6, <1>7, <1>8, OutsideSteps DEF Step
<1>9. CASE UNCHANGED vars
  BY <1>1, <1>9 DEF vars, disk, Outside, JInv
<1> QED BY <1>2, <1>3, <1>5, <1>8, <1>9 DEF Next

\* Nothing is published in the initial state.
LEMMA InitJInv == Init => JInv
  BY IdleFields DEF Init, JInv, JournaledOK, JournaledBeforePublished, Persisting

\* Nothing a reader takes as decided or acknowledged is ever without its journal
\* record, whatever is killed or fails to be written, and whatever happens to
\* the lock.
THEOREM JournalFirst == Spec => []JournaledBeforePublished
<1>1. JInv => JournaledBeforePublished
  BY DEF JInv
<1> QED BY <1>1, InitJInv, NextJInv, Invariance, PTL DEF Spec

---------------------------------------------------------------------------
(* The processes keep to what the lock promises *)

Holders == {q \in Proc : Holding(q)}

\* A step of somebody without the lock, before and after.
LEMMA OutsideKeepsHolders == Outside => Holders' = Holders
  BY DEF Outside, Holders, Holding, Persisting

\* Each step of Verify takes a step of the lock or leaves it alone: a process is
\* between AcquireLock and ReleaseLock exactly while the lock counts it a holder.
LEMMA NextLock == IInv /\ [Next]_vars => [Lock!Next]_<<lock, Holders>>
<1> SUFFICES ASSUME IInv, [Next]_vars PROVE [Lock!Next]_<<lock, Holders>>
  OBVIOUS
<1>0. DOMAIN run = Proc /\ \A p \in Proc : DOMAIN run[p] = RunField
  BY DEF IInv, RunOK
<1>1. CASE World
  BY <1>1 DEF World, Edit, EditFiles, Commit, Checkout, EditContract, EditConfig, Bind, Tick,
              Holders, Holding
<1>2. ASSUME NEW p \in Proc,
             \/ LoadContract(p) \/ SampleGit(p) \/ LoadRegistry(p) \/ HashContext(p)
             \/ LookupRefused(p) \/ LookupHit(p) \/ LookupStale(p) \/ LookupMiss(p)
             \/ ResolvePolicy(p) \/ UnknownVerifier(p) \/ RunVerifier(p) \/ RecordEvidence(p)
             \/ MakeDecision(p) \/ SaveDrift(p) \/ GiveUp(p)
      PROVE  UNCHANGED <<lock, Holders>>
  BY <1>2, OutsideSteps, OutsideKeepsHolders
<1>3. ASSUME NEW p \in Proc,
             \/ SaveEvidence(p) \/ AppendJournal(p) \/ SaveLast(p)
             \/ WriteBaseline(p) \/ WriteSnapshot(p)
      PROVE  UNCHANGED <<lock, Holders>>
  <2>1. /\ lock' = lock /\ Holding(p) /\ Holding(p)'
        /\ \A q \in Proc : q # p => run'[q] = run[q]
    <3>1. CASE SaveEvidence(p)
      BY <1>0, <3>1, Saves, BecomeFacts DEF Onward, SaveEvidence, Holding
    <3>2. CASE AppendJournal(p)
      BY <1>0, <3>2, Journals, BecomeFacts DEF Onward, AppendJournal, Holding
    <3>3. CASE SaveLast(p)
      BY <1>0, <3>3, Publishes, BecomeFacts DEF Onward, SaveLast, Holding
    <3>4. CASE WriteBaseline(p)
      BY <1>0, <3>4, Acknowledges, BecomeFacts DEF Onward, WriteBaseline, Holding
    <3>5. CASE WriteSnapshot(p)
      BY <1>0, <3>5, Snapshots, BecomeFacts DEF Onward, WriteSnapshot, Holding
    <3> QED BY <1>3, <3>1, <3>2, <3>3, <3>4, <3>5
  <2>2. \A q \in Proc : Holding(q)' <=> Holding(q)
    BY <2>1 DEF Holding
  <2> QED BY <2>1, <2>2 DEF Holders
<1>4. ASSUME NEW p \in Proc, AcquireLock(p) PROVE Lock!Next
  BY <1>4 DEF AcquireLock, Lock!Next
<1>5. ASSUME NEW p \in Proc, ReapLock(p) PROVE Lock!Next
  BY <1>5 DEF ReapLock, Lock!Next
<1>6. ASSUME NEW p \in Proc, ReleaseLock(p) \/ PersistFails(p) PROVE Lock!Next
  BY <1>6 DEF ReleaseLock, PersistFails, Lock!Next
<1>7. ASSUME NEW p \in Proc, Crash(p), Holding(p) PROVE Lock!Next
  BY <1>7 DEF Crash, Lock!Next
<1>8. ASSUME NEW p \in Proc, Crash(p), ~Holding(p) PROVE UNCHANGED <<lock, Holders>>
  <2>1. /\ lock' = lock /\ ~Holding(p)' /\ \A q \in Proc : q # p => run'[q] = run[q]
    BY <1>0, <1>8, BecomeFacts, IdleFields DEF Crash, Holding
  <2>2. \A q \in Proc : Holding(q)' <=> Holding(q)
    BY <1>8, <2>1 DEF Holding
  <2> QED BY <2>1, <2>2 DEF Holders
<1>9. ASSUME NEW p \in Proc, LoadContract(p) \/ Step(p)
      PROVE  Lock!Next \/ UNCHANGED <<lock, Holders>>
  BY <1>2, <1>3, <1>4, <1>5, <1>6, <1>9 DEF Step
<1>10. CASE UNCHANGED vars
  BY <1>10 DEF vars, Holders, Holding
<1> QED BY <1>1, <1>6, <1>7, <1>8, <1>9, <1>10 DEF Next

\* Who holds the lock owns it.
OwnersHold == \A p \in Proc : Holding(p) => lock = p

\* A step of the lock lets in no second holder.
LEMMA NextOwners ==
  ASSUME OwnersHold, [Lock!Next]_<<lock, Holders>>
  PROVE  OwnersHold'
<1>1. OwnersHold <=> \A p \in Holders : lock = p
  BY DEF OwnersHold, Holders
<1>2. OwnersHold' <=> \A p \in Holders' : lock' = p
  BY DEF OwnersHold, Holders
<1> SUFFICES \A p \in Holders' : lock' = p
  BY <1>2
<1> USE <1>1
<1>3. CASE UNCHANGED <<lock, Holders>>
  BY <1>3
<1>4. CASE Lock!Reap
  BY <1>4, OwnersDistinct DEF Lock!Reap, Holders
<1>5. ASSUME NEW p \in Proc, Lock!Acquire(p) PROVE \A q \in Holders' : lock' = q
  BY <1>5, OwnersDistinct DEF Lock!Acquire, Holders
<1>6. ASSUME NEW p \in Proc, Lock!Release(p) \/ Lock!Die(p)
      PROVE  \A q \in Holders' : lock' = q
  BY <1>6 DEF Lock!Release, Lock!Die, Holders
<1> QED BY <1>3, <1>4, <1>5, <1>6 DEF Lock!Next

\* The processes, with whatever they do between acquiring and releasing, dying
\* and failing included, implement the lock that DirLockProofs shows the lock file
\* to implement (until an orphan is reaped twice), and so at most one of them is
\* in the persist phase.
THEOREM PersistsUnderLock ==
  Spec => Lock!Spec /\ [](\A p, q \in Proc : Holding(p) /\ Holding(q) => p = q)
<1>1. Init => Lock!Init /\ OwnersHold
  BY IdleFields DEF Init, Lock!Init, OwnersHold, Holding
<1>2. IInv /\ [Next]_vars => [Lock!Next]_<<lock, {p \in Proc : Holding(p)}>>
  BY NextLock DEF Holders
<1>3. IInv /\ OwnersHold /\ [Next]_vars => OwnersHold'
  BY NextLock, NextOwners
<1>4. OwnersHold => \A p, q \in Proc : Holding(p) /\ Holding(q) => p = q
  BY DEF OwnersHold
<1> QED BY <1>1, <1>2, <1>3, <1>4, Invariance, PTL DEF Spec, Lock!Spec

---------------------------------------------------------------------------
(* One run at a time persists, until somebody dies or fails *)

Publishing == {"acknowledge", "snapshot", "release"}

\* The lock is held by the run that persists.
LockOK ==
  /\ lock # Orphan
  /\ \A p \in Proc : run[p].pc \in Persisting <=> lock = p

\* How far the run that publishes has come.
PublishedOK(p) ==
  /\ run[p].pc \in Publishing =>
       last.id = run[p].id /\ last.decision = run[p].result.decision
  /\ run[p].pc \in {"snapshot", "release"} => baseline = run[p].registry_hash
  /\ run[p].pc = "release" => snapshot = run[p].registry_hash

Together ==
  last # NoHash =>
    \E j \in journal : /\ j.id = last.id /\ j.decision = last.decision
                       /\ j.registry = baseline /\ snapshot = baseline

Undisturbed ==
  /\ LockOK
  /\ \A p \in Proc : PublishedOK(p)
  /\ (\A p \in Proc : run[p].pc \notin Publishing) => Together

TInv ==
  /\ DOMAIN run = Proc
  /\ crashes \in Nat /\ lock \in Proc \cup {NoHash, Orphan}
  /\ crashes = 0 => Undisturbed

\* A step outside the persist phase.
LEMMA OutsideTInv == TInv /\ Outside /\ lock' = lock => TInv'
<1> SUFFICES ASSUME TInv, Outside, lock' = lock PROVE TInv'
  OBVIOUS
<1>1. SUFFICES ASSUME crashes = 0 PROVE Undisturbed'
  BY DEF TInv, Outside
<1>2. LockOK'
  BY <1>1 DEF TInv, Undisturbed, LockOK, Outside
<1>3. \A p \in Proc : /\ run'[p].pc \in Publishing <=> run[p].pc \in Publishing
                      /\ PublishedOK(p)'
  BY <1>1 DEF TInv, Undisturbed, PublishedOK, Outside, Publishing, Persisting
<1>4. Together' <=> Together
  BY DEF Together, Outside
<1> QED BY <1>1, <1>2, <1>3, <1>4 DEF TInv, Undisturbed

\* Every step keeps what lies on disk the work of one run.
LEMMA NextTInv == IInv /\ JInv /\ TInv /\ [Next]_vars => TInv'
<1> SUFFICES ASSUME IInv, JInv, TInv, [Next]_vars PROVE TInv'
  OBVIOUS
<1>0. /\ DOMAIN run = Proc /\ \A p \in Proc : DOMAIN run[p] = RunField
      /\ IdleRun.pc = "idle"
  BY IdleFields DEF IInv, RunOK
<1>1. CASE World
  <2>1. CASE Proc = {}
    <3>1. Outside /\ lock' = lock
      BY <1>0, <1>1, <2>1 DEF Outside, World, Edit, EditFiles, Commit, Checkout, EditContract,
         EditConfig, Bind, Tick, disk
    <3> QED BY <3>1, OutsideTInv
  <2>2. ASSUME NEW p \in Proc PROVE TInv'
    BY <1>1, OutsideSteps, OutsideTInv
  <2> QED BY <2>1, <2>2
<1>2. ASSUME NEW p \in Proc, LoadContract(p) PROVE TInv'
  BY <1>2, OutsideSteps, OutsideTInv
<1>3. ASSUME NEW p \in Proc, ReapLock(p) PROVE TInv'
  <2>1. Outside /\ lock = Orphan /\ lock' = NoHash
    BY <1>0, <1>3 DEF ReapLock, Lock!Reap, Outside, disk
  <2> QED BY <2>1 DEF TInv, Outside, Undisturbed, LockOK
<1>4. ASSUME NEW p \in Proc, PersistFails(p) \/ Crash(p) PROVE TInv'
  <2>1. crashes' = crashes + 1 /\ DOMAIN run' = Proc
    BY <1>0, <1>4, BecomeFacts DEF PersistFails, Crash
  <2>2. lock' \in Proc \cup {NoHash, Orphan}
    BY <1>4 DEF PersistFails, Crash, Lock!Release, Lock!Die, TInv
  <2> QED BY <2>1, <2>2 DEF TInv
<1>5. ASSUME NEW p \in Proc, ReleaseLock(p) PROVE TInv'
  <2>1. /\ run[p].pc = "release" /\ run'[p].pc = "idle" /\ DOMAIN run' = Proc
        /\ \A q \in Proc : q # p => run'[q] = run[q]
        /\ lock = p /\ lock' = NoHash
        /\ UNCHANGED <<last, baseline, snapshot, journal, crashes>>
    BY <1>0, <1>5, BecomeFacts DEF ReleaseLock, Lock!Release, At, disk
  <2>2. SUFFICES ASSUME crashes = 0 PROVE Undisturbed'
    BY <2>1 DEF TInv
  <2>3. Undisturbed
    BY <2>2 DEF TInv
  <2>4. LockOK'
    BY <2>1, <2>3, OwnersDistinct DEF Undisturbed, LockOK, Persisting, Orphan
  <2>5. \A q \in Proc : PublishedOK(q)'
    BY <2>1, <2>3 DEF Undisturbed, PublishedOK, Publishing
  <2>6. Together'
    <3>1. RecordOf(p) \in journal
      BY <2>1 DEF JInv, JournaledOK, Persisting
    <3>2. /\ RecordOf(p).id = last.id /\ RecordOf(p).decision = last.decision
          /\ RecordOf(p).registry = baseline /\ snapshot = baseline
      BY <2>1, <2>3 DEF Undisturbed, PublishedOK, Publishing, RecordOf
    <3> QED BY <2>1, <3>1, <3>2 DEF Together
  <2> QED BY <2>4, <2>5, <2>6 DEF Undisturbed
<1>6. ASSUME NEW p \in Proc,
             \/ AcquireLock(p) \/ SaveEvidence(p) \/ AppendJournal(p) \/ SaveLast(p)
             \/ WriteBaseline(p) \/ WriteSnapshot(p)
      PROVE  TInv'
  <2>0. DOMAIN run' = Proc /\ \A q \in Proc : q # p => run'[q] = run[q]
    BY <1>0, <1>6, BecomeFacts
       DEF AcquireLock, SaveEvidence, AppendJournal, SaveLast, WriteBaseline, WriteSnapshot
  <2>1. /\ run'[p].pc \in Persisting /\ crashes' = crashes
        /\ \/ lock = NoHash /\ lock' = p
           \/ lock' = lock /\ run[p].pc \in Persisting
    <3>1. CASE AcquireLock(p)
      BY <3>1, Acquires DEF Onward, Persisting
    <3>2. CASE SaveEvidence(p)
      BY <3>2, Saves DEF Onward, Persisting
    <3>3. CASE AppendJournal(p)
      BY <3>3, Journals DEF Onward, Persisting
    <3>4. CASE SaveLast(p)
      BY <3>4, Publishes DEF Onward, Persisting
    <3>5. CASE WriteBaseline(p)
      BY <3>5, Acknowledges DEF Onward, Persisting
    <3>6. CASE WriteSnapshot(p)
      BY <3>6, Snapshots DEF Onward, Persisting
    <3> QED BY <1>6, <3>1, <3>2, <3>3, <3>4, <3>5, <3>6
  <2>2. SUFFICES ASSUME crashes = 0 PROVE Undisturbed'
    BY <2>0, <2>1 DEF TInv
  <2>3. Undisturbed
    BY <2>2 DEF TInv
  <2>4. LockOK'
    <3>1. CASE lock = NoHash /\ lock' = p
      BY <2>0, <2>1, <2>3, <3>1, OwnersDistinct DEF Undisturbed, LockOK
    <3>2. CASE lock' = lock /\ run[p].pc \in Persisting
      BY <2>0, <2>1, <2>3, <3>2 DEF Undisturbed, LockOK
    <3> QED BY <2>1, <3>1, <3>2
  \* Nobody else is persisting.
  <2>5. \A q \in Proc : q # p => run'[q].pc \notin Persisting
    BY <2>0, <2>1, <2>4 DEF LockOK
  <2>6. ASSUME PublishedOK(p)', run'[p].pc \in Publishing \/ Together' PROVE Undisturbed'
    <3>1. \A q \in Proc : PublishedOK(q)'
      BY <2>5, <2>6 DEF PublishedOK, Publishing, Persisting
    <3> QED BY <2>4, <2>6, <3>1 DEF Undisturbed
  \* Before the step nobody was publishing, unless it was p.
  <2>7. ASSUME run[p].pc \notin Publishing PROVE Together
    <3>1. \A q \in Proc : run[q].pc \notin Publishing
      BY <2>0, <2>5, <2>7 DEF Publishing, Persisting
    <3> QED BY <2>3, <3>1 DEF Undisturbed
  <2>8. CASE AcquireLock(p) \/ SaveEvidence(p) \/ AppendJournal(p)
    <3>1. /\ run[p].pc \in {"acquire", "save"} /\ run'[p].pc \in {"save", "journaled"}
          /\ UNCHANGED <<last, baseline, snapshot>> /\ journal \subseteq journal'
      <4>1. CASE AcquireLock(p)
        BY <4>1, Acquires DEF Onward
      <4>2. CASE SaveEvidence(p)
        BY <4>2, Saves DEF Onward
      <4>3. CASE AppendJournal(p)
        BY <4>3, Journals DEF Onward
      <4> QED BY <2>8, <4>1, <4>2, <4>3
    <3>2. Together'
      BY <2>7, <3>1 DEF Together, Publishing
    <3> QED BY <2>6, <3>1, <3>2 DEF PublishedOK, Publishing
  <2>9. CASE SaveLast(p)
    <3>1. /\ run'[p].pc = "acknowledge" /\ RecordOf(p)' = RecordOf(p)
          /\ last'.id = run[p].id /\ last'.decision = run[p].result.decision
      BY <2>9, Publishes DEF Onward
    <3>2. PublishedOK(p)'
      BY <3>1 DEF PublishedOK, RecordOf
    <3> QED BY <2>6, <3>1, <3>2 DEF Publishing
  <2>10. CASE WriteBaseline(p)
    <3>1. /\ run[p].pc = "acknowledge" /\ run'[p].pc = "snapshot"
          /\ RecordOf(p)' = RecordOf(p) /\ baseline' = run[p].registry_hash /\ last' = last
      BY <2>10, Acknowledges DEF Onward
    <3>2. PublishedOK(p)'
      BY <2>3, <3>1 DEF Undisturbed, PublishedOK, RecordOf, Publishing
    <3> QED BY <2>6, <3>1, <3>2 DEF Publishing
  <2>11. CASE WriteSnapshot(p)
    <3>1. /\ run[p].pc = "snapshot" /\ run'[p].pc = "release" /\ RecordOf(p)' = RecordOf(p)
          /\ snapshot' = run[p].registry_hash /\ UNCHANGED <<last, baseline>>
      BY <2>11, Snapshots DEF Onward
    <3>2. PublishedOK(p)'
      BY <2>3, <3>1 DEF Undisturbed, PublishedOK, RecordOf, Publishing
    <3> QED BY <2>6, <3>1, <3>2 DEF Publishing
  <2> QED BY <1>6, <2>8, <2>9, <2>10, <2>11
<1>7. ASSUME NEW p \in Proc, Step(p) PROVE TInv'
  BY <1>3, <1>5, <1>6, <1>7, OutsideSteps, OutsideTInv DEF Step
<1>8. CASE UNCHANGED vars
  <2>1. Outside /\ lock' = lock
    BY <1>0, <1>8 DEF vars, disk, Outside
  <2> QED BY <2>1, OutsideTInv
<1> QED BY <1>1, <1>2, <1>4, <1>7, <1>8 DEF Next

\* Nothing lies on disk in the initial state, and nobody persists.
LEMMA InitTInv == Init => TInv
<1> SUFFICES ASSUME Init PROVE TInv
  OBVIOUS
<1>1. \A p \in Proc : run[p].pc = "idle"
  BY IdleFields DEF Init
<1>2. Undisturbed
  BY <1>1, OwnersDistinct
     DEF Init, Undisturbed, LockOK, PublishedOK, Together, Persisting, Publishing, Orphan
<1> QED BY <1>2 DEF Init, TInv

\* Until a process dies or fails in the persist phase, what lies on disk while
\* nobody holds the lock is the work of one run, for any number of processes.
THEOREM OneRunOnDisk == Spec => []PersistedTogether
<1>1. TInv => PersistedTogether
  <2> SUFFICES ASSUME TInv, lock = NoHash, crashes = 0 PROVE Together
    BY DEF PersistedTogether, Together
  <2>1. \A p \in Proc : run[p].pc \notin Publishing
    BY OwnersDistinct DEF TInv, Undisturbed, LockOK, Persisting, Publishing
  <2> QED BY <2>1 DEF TInv, Undisturbed
<1> QED BY <1>1, InitTInv, NextTInv, InitJInv, NextJInv, Invariance, PTL DEF Spec

---------------------------------------------------------------------------
(* The trust boundary, one run after the other *)

\* Until it moves the baseline a run has the one on disk.
PInv ==
  \A p \in Proc :
    run[p].pc \notin Early \cup {"snapshot", "release"} => run[p].previous = baseline

\* Every step of the only process keeps the baseline it has sampled.
LEMMA NextPInv ==
  ASSUME \A p, q \in Proc : p = q
  PROVE  IInv /\ PInv /\ [Next]_vars => PInv'
<1> SUFFICES ASSUME IInv, PInv, [Next]_vars PROVE PInv'
  OBVIOUS
<1>0. /\ DOMAIN run = Proc /\ \A p \in Proc : DOMAIN run[p] = RunField
      /\ IdleRun.pc = "idle"
  BY IdleFields DEF IInv, RunOK
<1>1. ASSUME Outside PROVE PInv'
  BY <1>1 DEF Outside, PInv, KeepsPrevious, Persisting
<1>2. CASE World
  <2>1. CASE Proc = {}
    BY <2>1 DEF PInv
  <2>2. ASSUME NEW p \in Proc PROVE PInv'
    BY <1>1, <1>2, OutsideSteps
  <2> QED BY <2>1, <2>2
<1>3. ASSUME NEW p \in Proc, LoadContract(p) PROVE PInv'
  BY <1>1, <1>3, OutsideSteps
<1>4. ASSUME NEW p \in Proc, ReleaseLock(p) \/ PersistFails(p) \/ Crash(p) PROVE PInv'
  <2>1. run'[p].pc = "idle"
    BY <1>0, <1>4, BecomeFacts DEF ReleaseLock, PersistFails, Crash
  <2> QED BY <2>1 DEF PInv, Early
<1>5. ASSUME NEW p \in Proc, ReapLock(p) PROVE PInv'
  BY <1>1, <1>5, <1>0 DEF ReapLock, Outside, disk
<1>6. ASSUME NEW p \in Proc,
             \/ AcquireLock(p) \/ SaveEvidence(p) \/ AppendJournal(p) \/ SaveLast(p)
             \/ WriteBaseline(p) \/ WriteSnapshot(p)
      PROVE  PInv'
  <2>1. \/ run'[p].pc \in {"snapshot", "release"}
        \/ /\ run[p].pc \in {"acquire", "save", "journaled"} /\ baseline' = baseline
           /\ run'[p].previous = run[p].previous
    <3>1. CASE AcquireLock(p)
      BY <3>1, Acquires DEF Onward
    <3>2. CASE SaveEvidence(p)
      BY <3>2, Saves DEF Onward
    <3>3. CASE AppendJournal(p)
      BY <3>3, Journals DEF Onward
    <3>4. CASE SaveLast(p)
      BY <3>4, Publishes DEF Onward
    <3>5. CASE WriteBaseline(p)
      BY <3>5, Acknowledges DEF Onward
    <3>6. CASE WriteSnapshot(p)
      BY <3>6, Snapshots DEF Onward
    <3> QED BY <1>6, <3>1, <3>2, <3>3, <3>4, <3>5, <3>6
  <2> QED BY <2>1 DEF PInv, Early
<1>7. ASSUME NEW p \in Proc, Step(p) PROVE PInv'
  BY <1>1, <1>4, <1>5, <1>6, <1>7, OutsideSteps DEF Step
<1>8. CASE UNCHANGED vars
  BY <1>8 DEF vars, disk, PInv
<1> QED BY <1>2, <1>3, <1>4, <1>7, <1>8 DEF Next

\* A step that moves the baseline finds the record of the move in the journal.
LEMMA MoveIsNamed ==
  ASSUME IInv, JInv, PInv, [Next]_vars, baseline # NoHash, baseline' # baseline
  PROVE  \E j \in journal : j.registryChanged = baseline /\ j.registry = baseline'
<1>1. PICK p \in Proc : WriteBaseline(p)
  <2>1. ~World /\ ~UNCHANGED vars
    BY DEF World, Edit, EditFiles, Commit, Checkout, EditContract, EditConfig, Bind, Tick,
           vars, disk
  <2>2. \A p \in Proc : ~LoadContract(p) /\ ~PersistFails(p) /\ ~Crash(p)
                        /\ ~ReleaseLock(p) /\ ~ReapLock(p)
    BY DEF LoadContract, PersistFails, Crash, ReleaseLock, ReapLock, disk
  <2>3. PICK p \in Proc : Step(p)
    BY <2>1, <2>2 DEF Next
  <2>4. ~Outside
    BY DEF Outside
  <2> QED BY <2>2, <2>3, <2>4, OutsideSteps, Acquires, Saves, Journals, Publishes, Snapshots DEF Step
<1>2. run[p].pc = "acknowledge" /\ baseline' = run[p].registry_hash
  BY <1>1, Acknowledges DEF Onward
<1>3. RecordOf(p) \in journal /\ run[p].previous = baseline
  BY <1>2 DEF JInv, JournaledOK, Persisting, PInv, Early
<1>4. RecordOf(p).registryChanged = baseline /\ RecordOf(p).registry = baseline'
  BY <1>2, <1>3 DEF RecordOf, TrustBoundaryChanged
<1> QED BY <1>3, <1>4

\* The baseline moves only in a run whose journal record names the change, as
\* long as runs follow one another.  (Two at once may both have sampled the
\* baseline before either moves it.)
THEOREM MovesAreNamed ==
  ASSUME \A p, q \in Proc : p = q
  PROVE  Spec => BaselineChangeNamed
<1>1. Init => PInv
  BY IdleFields DEF Init, PInv, Early
<1>2. IInv /\ PInv /\ [Next]_vars => PInv'
  BY NextPInv
<1>3. IInv /\ JInv /\ PInv /\ [Next]_vars =>
        [baseline # NoHash /\ baseline' # baseline =>
           \E j \in journal : j.registryChanged = baseline /\ j.registry = baseline']_baseline
  BY MoveIsNamed
<1> QED BY <1>1, <1>2, <1>3, InitJInv, NextJInv, Invariance, PTL DEF Spec, BaselineChangeNamed

---------------------------------------------------------------------------
(***************************************************************************)
(* What an acceptance is worth: for any number of processes, as long as    *)
(* nobody edits while a run is active, the verifiers of every demanded     *)
(* claim pass on the files that are there, under the present registry and  *)
(* the present authorizations.                                             *)
(***************************************************************************)

---------------------------------------------------------------------------
(* The inductive invariant *)

SpecOrNone(spec) == spec # NoHash => spec.max_age \in Nat

JobTyped(job) ==
  job.claim \in Claim /\ job.binding \in Hash(Binding) /\ SpecOrNone(job.spec)

RunTyped(p) ==
  /\ run[p].pc # "idle" => run[p].contract \in Contract
  /\ run[p].pc \notin {"idle", "opened", "sampled"} => run[p].config \in Config
  /\ run[p].pc \notin Early =>
       run[p].contract_hash \in Contract /\ run[p].registry_hash \in Config
  /\ run[p].pc \in Early => run[p].need = << >>
  /\ run[p].next \in Nat \ {0}
  /\ IsSeq(run[p].need) /\ \A job \in Elements(run[p].need) : JobTyped(job)
  /\ run[p].stale \in [Claim -> SUBSET StaleReason]
  /\ run[p].drift \in [Claim -> SUBSET StaleReason]
  /\ \A e \in InHand(p) : EvidenceOK(e)
  /\ At(p, "ran") => run[p].need # << >> /\ SpecToRun(p) # NoHash /\ run[p].outcome.tree \in Tree

\* What runs for verification v under the registry with hash g and binding b.
RunsFor(v, g, b) ==
  LET base == BaseSpec(RegistryOf(g), v.verifier_ref)
  IN  IF base = NoHash THEN ResolveCommand(v, RegistryOf(g)) ELSE WithSelector(base, b)

\* b is what v runs under: a matching authorization, or none when it needs none.
RunsUnder(v, g, b) ==
  LET base == BaseSpec(RegistryOf(g), v.verifier_ref)
  IN  IF NeedsBinding(v, base) THEN Authorizes(b, v, base) ELSE b = NoHash

\* Evidence that was gathered for a verification of the contract it names, by
\* what the registry it names runs for it, on the files it observed.
Sourced(e) ==
  /\ \E i \in DOMAIN Ir[e.contract_hash].plan :
       LET v == Ir[e.contract_hash].plan[i]
       IN  /\ e.claim = v.claim
           /\ RunsUnder(v, e.registry_hash, e.binding_hash)
           /\ e.spec = RunsFor(v, e.registry_hash, e.binding_hash)
           /\ \E p \in Proc : e.fingerprint = SpecFingerprint(v.verifier_ref, e.spec, ActorOf[p])
  /\ ~e.workspace_dirty => e.tree \in CleanAt[e.commit_sha]
  /\ e.artifact_hash = ArtifactHash(e.spec, e.tree)
  /\ e.state = ValidState /\ e.spec.files # NoHash => e.artifact_hash # NoHash

\* A job for a verification of the present contract, under the present registry
\* and the present authorization of its claim.
JobCurrent(job) ==
  \E i \in DOMAIN Ir[contract].plan :
    LET v == Ir[contract].plan[i]
        base == BaseSpec(RegistryOf(config), v.verifier_ref)
    IN  /\ job.claim = v.claim /\ job.verification = v
        /\ RunsUnder(v, config, job.binding)
        /\ job.binding \in {NoHash, bindings[v.claim]}
        /\ job.spec = WithSelector(base, job.binding)

\* Evidence nobody has rebound, with the watched files as they are now.
StillCurrent(e) ==
  /\ e.binding_hash \in {NoHash, bindings[e.claim]}
  /\ e.spec.files # NoHash => Watched[e.spec.files][e.tree] = Watched[e.spec.files][tree]

Synced(p) ==
  /\ run[p].pc # "idle" => run[p].contract = contract
  /\ run[p].pc \notin {"idle", "opened"} => run[p].sha = head /\ run[p].dirty = Dirty
  /\ run[p].pc \notin {"idle", "opened", "sampled"} => run[p].config = config
  /\ run[p].pc \notin Early => run[p].contract_hash = contract /\ run[p].registry_hash = config
  /\ \A job \in Elements(run[p].need) : JobCurrent(job)
  /\ \A e \in InHand(p) : Sourced(e) /\ (e.state = ValidState => StillCurrent(e))
  /\ At(p, "ran") => run[p].outcome.tree = tree

WInv ==
  /\ TypeOK
  /\ \A p \in Proc : RunTyped(p)
  /\ ~disturbed => (\A e \in evidence : Sourced(e)) /\ \A p \in Proc : Synced(p)

---------------------------------------------------------------------------
(* Specs and bindings *)

\* A usable entry of a registry, and what a selector makes of it.
LEMMA RegistrySpec ==
  ASSUME NEW g \in Config, NEW ref, BaseSpec(RegistryOf(g), ref) # NoHash, NEW b
  PROVE  /\ ref \in DOMAIN RegistryOf(g)
         /\ BaseSpec(RegistryOf(g), ref) = RegistryOf(g)[ref]
         /\ RegistryOf(g)[ref].max_age \in Nat
         /\ WithSelector(RegistryOf(g)[ref], b).max_age \in Nat
<1>1. ref \in DOMAIN RegistryOf(g) /\ BaseSpec(RegistryOf(g), ref) = RegistryOf(g)[ref]
  BY DEF BaseSpec
<1> DEFINE spec == RegistryOf(g)[ref]
<1>2. spec.max_age \in Nat /\ "max_age" \in DOMAIN spec
  BY <1>1, SpecsExist DEF ShellSpec
<1> HIDE DEF spec
<1>3. [spec EXCEPT !.template = FALSE, !.selector = b.selector].max_age = spec.max_age
  BY <1>2
<1>4. WithSelector(spec, b).max_age \in Nat
  BY <1>2, <1>3 DEF WithSelector
<1> QED BY <1>1, <1>2, <1>4 DEF spec

\* What resolve_command returns has a maximum age.
LEMMA ResolvedAge ==
  ASSUME NEW g \in Config, NEW v
  PROVE  SpecOrNone(ResolveCommand(v, RegistryOf(g)))
<1>1. ShellSpec(v.inline_shell).max_age \in Nat
  BY DEF ShellSpec
<1>2. \A ref \in DOMAIN RegistryOf(g) : RegistryOf(g)[ref].max_age \in Nat
  BY SpecsExist
<1> QED BY <1>1, <1>2 DEF ResolveCommand, SpecOrNone

\* A template never runs without its selector, so an entry of the registry
\* stays a spec whatever it runs under.
LEMMA StaysSpec ==
  ASSUME NEW g \in Config, NEW v, NEW b \in Hash(Binding), RunsUnder(v, g, b),
         BaseSpec(RegistryOf(g), v.verifier_ref) # NoHash
  PROVE  WithSelector(BaseSpec(RegistryOf(g), v.verifier_ref), b) # NoHash
<1> DEFINE base == BaseSpec(RegistryOf(g), v.verifier_ref)
<1>1. /\ v.verifier_ref \in DOMAIN RegistryOf(g)
      /\ base = RegistryOf(g)[v.verifier_ref]
  BY DEF BaseSpec
<1>2. CASE IsTemplate(base)
  <2>1. b # NoHash
    BY <1>2 DEF RunsUnder, NeedsBinding, Authorizes
  <2>2. b \in Binding
    BY <2>1 DEF Hash
  <2> QED BY <1>1, <2>2, SpecsExist
<1>3. CASE ~IsTemplate(base)
  BY <1>3 DEF WithSelector
<1> QED BY <1>2, <1>3

---------------------------------------------------------------------------
(* Steps that change the run of one process *)

\* A run nobody touches.
LEMMA UntouchedTyped ==
  ASSUME NEW p \in Proc, RunTyped(p), run'[p] = run[p]
  PROVE  RunTyped(p)'
  BY DEF RunTyped, InHand, At, SpecToRun, Pending

LEMMA UntouchedSynced ==
  ASSUME NEW p \in Proc, Synced(p), run'[p] = run[p],
         UNCHANGED <<head, tree, contract, config, bindings>>
  PROVE  Synced(p)'
  BY DEF Synced, InHand, At, Dirty, JobCurrent, StillCurrent

\* A run with nothing in hand.
LEMMA EmptyHanded ==
  ASSUME NEW p \in Proc, run'[p].stored = << >>, run'[p].fresh = << >>, run'[p].need = << >>
  PROVE  InHand(p)' = {} /\ Elements(run'[p].need) = {} /\ IsSeq(run'[p].need)
  BY EmptyIsSeq DEF InHand, Elements

\* A step of one process that keeps its run typed and synced.
LEMMA OneRunW ==
  ASSUME IInv, WInv, NEW p \in Proc, NEW r, Become(p, r), UNCHANGED world,
         TypeOK', RunTyped(p)',
         ~disturbed => Synced(p)' /\ \A e \in evidence' : Sourced(e)
  PROVE  WInv'
<1>1. \A q \in Proc : q # p => run'[q] = run[q]
  BY BecomeFacts DEF IInv
<1>2. \A q \in Proc : RunTyped(q)'
  BY <1>1, UntouchedTyped DEF WInv
<1>3. ASSUME ~disturbed PROVE \A q \in Proc : Synced(q)'
  BY <1>1, <1>3, UntouchedSynced DEF WInv, world
<1> QED BY <1>2, <1>3 DEF WInv, world

\* The types of what is on disk, when the cache and the workspace stay as they are.
LEMMA DiskTyped ==
  ASSUME WInv, UNCHANGED <<world, evidence>>,
         drift' \in [Claim -> SUBSET StaleReason],
         baseline' \in Hash(Config), snapshot' \in Hash(Config),
         lock' \in Proc \cup {NoHash, Orphan}
  PROVE  TypeOK'
  BY DEF WInv, TypeOK, world, EvidenceOK

\* What the workspace and the evidence of a run are compared by.
SameSamples(old, new) ==
  /\ new.contract = old.contract /\ new.config = old.config
  /\ new.sha = old.sha /\ new.dirty = old.dirty
  /\ new.contract_hash = old.contract_hash /\ new.registry_hash = old.registry_hash

\* A step after the lookups that neither gathers nor saves evidence.
LEMMA AdvanceStep ==
  ASSUME IInv, WInv, NEW p \in Proc, NEW r, Become(p, r), UNCHANGED world, evidence' = evidence,
         TypeOK', SameSamples(run[p], r), run[p].pc \notin Early, r.pc \notin Early \cup {"ran"},
         r.next = run[p].next, r.need = run[p].need, r.stale = run[p].stale,
         r.stored = run[p].stored, r.fresh = run[p].fresh,
         r.drift \in [Claim -> SUBSET StaleReason]
  PROVE  WInv'
<1>1. run'[p] = r
  BY BecomeFacts DEF IInv
<1>2. RunTyped(p)'
  BY <1>1 DEF WInv, RunTyped, SameSamples, Early, InHand, At
<1>3. ASSUME ~disturbed PROVE Synced(p)'
  BY <1>1, <1>3 DEF WInv, Synced, SameSamples, Early, InHand, At, world, Dirty, JobCurrent,
                   StillCurrent
<1> QED BY <1>2, <1>3, OneRunW DEF WInv

\* Going idle.
LEMMA IdleTyped ==
  ASSUME NEW p \in Proc, run'[p] = IdleRun
  PROVE  RunTyped(p)' /\ Synced(p)'
<1>1. /\ run'[p].pc = "idle" /\ run'[p].need = << >> /\ run'[p].next = 1
      /\ run'[p].stored = << >> /\ run'[p].fresh = << >>
      /\ run'[p].stale = [c \in Claim |-> {}] /\ run'[p].drift = [c \in Claim |-> {}]
  BY DEF IdleRun
<1>2. InHand(p)' = {} /\ Elements(run'[p].need) = {} /\ IsSeq(run'[p].need)
  BY <1>1, EmptyHanded
<1> QED BY <1>1, <1>2 DEF RunTyped, Synced, Early, At

LEMMA ToIdleW ==
  ASSUME IInv, WInv, NEW p \in Proc, Become(p, IdleRun), UNCHANGED <<world, evidence>>, TypeOK'
  PROVE  WInv'
<1>1. RunTyped(p)' /\ Synced(p)'
  BY BecomeFacts, IdleTyped DEF IInv
<1> QED BY <1>1, OneRunW DEF WInv

---------------------------------------------------------------------------
(* The workspace and the start of a run *)

\* Whoever edits while a run is active disturbs it; an idle run is not disturbed.
LEMMA WorldW == IInv /\ WInv /\ World => WInv'
<1> SUFFICES ASSUME IInv, WInv, World PROVE WInv'
  OBVIOUS
<1>1. /\ run' = run /\ evidence' = evidence /\ UNCHANGED <<drift, baseline, snapshot, lock>>
      /\ disturbed' = (disturbed \/ \E p \in Proc : ~At(p, "idle"))
  BY DEF World, Edit, EditFiles, Commit, Checkout, EditContract, EditConfig, Bind, Tick, disk
<1>2. TypeOK'
  <2>1. head' \in Sha /\ tree' \in Tree /\ contract' \in Contract /\ config' \in Config
    BY TreesExist DEF World, EditFiles, Commit, Checkout, EditContract, EditConfig, Bind, Tick,
                      WInv, TypeOK
  <2>2. now' \in Nat
    BY DEF World, EditFiles, Commit, Checkout, EditContract, EditConfig, Bind, Tick, WInv, TypeOK
  <2>3. bindings' \in [Claim -> Hash(Binding)]
    <3>1. bindings' = bindings \/ \E c \in Claim, b \in Binding : bindings' = [bindings EXCEPT ![c] = b]
      BY DEF World, EditFiles, Commit, Checkout, EditContract, EditConfig, Bind, Tick
    <3> QED BY <3>1 DEF WInv, TypeOK, Hash
  <2> QED BY <1>1, <2>1, <2>2, <2>3 DEF WInv, TypeOK, EvidenceOK
<1>3. \A p \in Proc : RunTyped(p)'
  BY <1>1, UntouchedTyped DEF WInv
<1>4. ASSUME ~disturbed' PROVE (\A e \in evidence' : Sourced(e)) /\ \A p \in Proc : Synced(p)'
  <2>1. \A p \in Proc : run'[p].pc = "idle"
    BY <1>1, <1>4 DEF At
  <2>2. \A p \in Proc : /\ run'[p].stored = << >> /\ run'[p].fresh = << >>
                        /\ run'[p].need = << >>
    BY <1>1, <2>1 DEF IInv, RunOK, EarlyOK, WInv, RunTyped, Early
  <2>3. \A p \in Proc : Synced(p)'
    BY <2>1, <2>2, EmptyHanded DEF Synced, At, Early
  <2> QED BY <1>1, <1>4, <2>3 DEF WInv
<1> QED BY <1>2, <1>3, <1>4 DEF WInv

\* The steps that read contract, git and registry.
LEMMA EarlyW ==
  ASSUME IInv, WInv, NEW p \in Proc,
         LoadContract(p) \/ SampleGit(p) \/ LoadRegistry(p) \/ HashContext(p)
  PROVE  WInv'
<1>1. DOMAIN run[p] = RunField /\ RunTyped(p) /\ EarlyOK(p)
  BY DEF IInv, RunOK, WInv
<1>2. UNCHANGED <<world, evidence, drift, baseline, snapshot, lock>>
  BY DEF LoadContract, SampleGit, LoadRegistry, HashContext, Local, disk
<1>3. TypeOK'
  BY <1>2, DiskTyped DEF WInv, TypeOK
<1>4. contract \in Contract /\ config \in Config
  BY DEF WInv, TypeOK
<1>5. ASSUME NEW r, Become(p, r),
             r.need = << >>, r.stored = << >>, r.fresh = << >>, r.next \in Nat \ {0},
             r.stale \in [Claim -> SUBSET StaleReason],
             r.drift \in [Claim -> SUBSET StaleReason],
             r.pc \in {"opened", "sampled", "loaded", "lookup"},
             r.contract \in Contract,
             r.pc \in {"loaded", "lookup"} => r.config \in Config,
             r.pc = "lookup" => r.contract_hash = contract /\ r.registry_hash = config,
             ~disturbed =>
               /\ r.contract = contract
               /\ r.pc # "opened" => r.sha = head /\ r.dirty = Dirty
               /\ r.pc \in {"loaded", "lookup"} => r.config = config
      PROVE  WInv'
  <2>1. run'[p] = r
    BY <1>5, BecomeFacts DEF IInv
  <2>2. InHand(p)' = {} /\ Elements(run'[p].need) = {} /\ IsSeq(run'[p].need)
    BY <1>5, <2>1, EmptyHanded
  <2>3. RunTyped(p)'
    BY <1>4, <1>5, <2>1, <2>2 DEF RunTyped, Early, At
  <2>4. ASSUME ~disturbed PROVE Synced(p)'
    BY <1>2, <1>5, <2>1, <2>2, <2>4 DEF Synced, Early, At, world, Dirty
  <2> QED BY <1>2, <1>3, <1>5, <2>3, <2>4, OneRunW DEF WInv
<1> USE <1>1 DEF RunField
<1>6. CASE LoadContract(p)
  <2> DEFINE r == [IdleRun EXCEPT !.pc = "opened", !.id = runs + 1, !.contract = contract]
  <2>1. Become(p, r)
    BY <1>6 DEF LoadContract
  <2>2. /\ r.need = << >> /\ r.stored = << >> /\ r.fresh = << >> /\ r.next \in Nat \ {0}
        /\ r.stale \in [Claim -> SUBSET StaleReason]
        /\ r.drift \in [Claim -> SUBSET StaleReason]
        /\ r.pc = "opened" /\ r.contract = contract
    BY DEF IdleRun
  <2> HIDE DEF r
  <2> QED BY <1>4, <1>5, <2>1, <2>2
<1>7. CASE SampleGit(p)
  <2> DEFINE r == [run[p] EXCEPT !.pc = "sampled", !.sha = head, !.dirty = Dirty]
  <2>1. Become(p, r) /\ run[p].pc = "opened"
    BY <1>7 DEF SampleGit, Local, At
  <2>2. /\ r.need = << >> /\ r.stored = << >> /\ r.fresh = << >> /\ r.next = run[p].next
        /\ r.stale = run[p].stale /\ r.drift = run[p].drift
        /\ r.pc = "sampled" /\ r.contract = run[p].contract /\ r.sha = head /\ r.dirty = Dirty
    BY <2>1 DEF EarlyOK, RunTyped, Early
  <2> HIDE DEF r
  <2>3. ~disturbed => run[p].contract = contract
    BY <2>1 DEF WInv, Synced
  <2> QED BY <1>5, <2>1, <2>2, <2>3 DEF RunTyped
<1>8. CASE LoadRegistry(p)
  <2> DEFINE r == [run[p] EXCEPT !.pc = "loaded", !.config = config]
  <2>1. Become(p, r) /\ run[p].pc = "sampled"
    BY <1>8 DEF LoadRegistry, Local, At
  <2>2. /\ r.need = << >> /\ r.stored = << >> /\ r.fresh = << >> /\ r.next = run[p].next
        /\ r.stale = run[p].stale /\ r.drift = run[p].drift
        /\ r.pc = "loaded" /\ r.contract = run[p].contract
        /\ r.sha = run[p].sha /\ r.dirty = run[p].dirty /\ r.config = config
    BY <2>1 DEF EarlyOK, RunTyped, Early
  <2> HIDE DEF r
  <2>3. ~disturbed => /\ run[p].contract = contract
                      /\ run[p].sha = head /\ run[p].dirty = Dirty
    BY <2>1 DEF WInv, Synced
  <2> QED BY <1>4, <1>5, <2>1, <2>2, <2>3 DEF RunTyped
<1>9. CASE HashContext(p)
  <2> DEFINE r == [run[p] EXCEPT !.pc = "lookup", !.contract_hash = contract,
                                 !.registry_hash = config, !.previous = baseline]
  <2>1. Become(p, r) /\ run[p].pc = "loaded"
    BY <1>9 DEF HashContext, Local, At
  <2>2. /\ r.need = << >> /\ r.stored = << >> /\ r.fresh = << >> /\ r.next = run[p].next
        /\ r.stale = run[p].stale /\ r.drift = run[p].drift
        /\ r.pc = "lookup" /\ r.contract = run[p].contract
        /\ r.sha = run[p].sha /\ r.dirty = run[p].dirty /\ r.config = run[p].config
        /\ r.contract_hash = contract /\ r.registry_hash = config
    BY <2>1 DEF EarlyOK, RunTyped, Early
  <2> HIDE DEF r
  <2>3. ~disturbed => /\ run[p].contract = contract /\ run[p].config = config
                      /\ run[p].sha = head /\ run[p].dirty = Dirty
    BY <2>1 DEF WInv, Synced
  <2> QED BY <1>5, <2>1, <2>2, <2>3 DEF RunTyped
<1> QED BY <1>6, <1>7, <1>8, <1>9

---------------------------------------------------------------------------
(* The cache lookup *)

\* The verification a run looks up belongs to its plan.
LEMMA InPlan ==
  ASSUME WInv, NEW p \in Proc, LookingUp(p)
  PROVE  /\ run[p].next \in DOMAIN Ir[run[p].contract].plan
         /\ Verification(p).claim \in Claim
         /\ run[p].config \in Config
<1>1. /\ run[p].contract \in Contract /\ run[p].config \in Config
      /\ run[p].next \in Nat \ {0} /\ run[p].next <= Len(Ir[run[p].contract].plan)
  BY DEF WInv, RunTyped, LookingUp, At, Plan
<1> DEFINE plan == Ir[run[p].contract].plan
<1>2. plan \in Seq({plan[i] : i \in DOMAIN plan}) /\ \A i \in DOMAIN plan : plan[i].claim \in Claim
  BY <1>1, PlansExist
<1>3. DOMAIN plan = 1..Len(plan) /\ Len(plan) \in Nat
  BY <1>2
<1>4. run[p].next \in DOMAIN plan
  BY <1>1, <1>3
<1> QED BY <1>1, <1>2, <1>4 DEF Verification, Plan

\* What the lookup knows of the file it found.
LEMMA FoundFile ==
  ASSUME NEW p \in Proc, NEW file \in evidence, Lookup(p, file),
         CacheOutcome(file, Context(p), now) \in {"Hit", "Stale"}
  PROVE  /\ file.claim = Verification(p).claim
         /\ file.fingerprint = Context(p).fingerprint
<1>1. file # NoHash /\ file.fingerprint = Context(p).fingerprint
  BY DEF CacheOutcome
<1>2. file \in Files(Verification(p).claim, Context(p).fingerprint)
  BY DEF Lookup
<1>3. file.claim = Verification(p).claim
  BY <1>1, <1>2 DEF Files
<1> QED BY <1>1, <1>3

\* A hit is of the present authorization, with the watched files as they are.
LEMMA HitIsCurrent ==
  ASSUME NEW p \in Proc, NEW file \in evidence, Lookup(p, file),
         CacheOutcome(file, Context(p), now) = "Hit",
         Sourced(file), file.state = ValidState
  PROVE  StillCurrent(file)
<1>1. /\ file.claim = Verification(p).claim
      /\ file.fingerprint = LookupFingerprint(Verification(p), Resolved(p), ActorOf[p])
  BY FoundFile DEF Context
<1>2. \A r \in StaleReason : ~Drifted(r, file, Context(p), now)
  BY DEF CacheOutcome, StaleReasons
<1>3. /\ file.binding_hash \in {NoHash, Granted(p)}
      /\ file.artifact_hash \in {NoHash, ArtifactHash(Resolved(p), tree)}
  <2>1. ~Drifted("authorization_changed", file, Context(p), now)
        /\ ~Drifted("subject_changed", file, Context(p), now)
    BY <1>2 DEF StaleReason
  <2> QED BY <2>1 DEF Drifted, Context
<1>4. file.binding_hash \in {NoHash, bindings[file.claim]}
  BY <1>1, <1>3 DEF Granted, Authorization
<1>5. ASSUME file.spec.files # NoHash
      PROVE  Watched[file.spec.files][file.tree] = Watched[file.spec.files][tree]
  <2>1. PICK ref, actor : file.fingerprint = SpecFingerprint(ref, file.spec, actor)
    BY DEF Sourced
  <2>2. Resolved(p) # NoHash
    BY <1>1, <2>1 DEF LookupFingerprint, SpecFingerprint
  <2>3. Resolved(p).files = file.spec.files
    BY <1>1, <2>1, <2>2 DEF LookupFingerprint, SpecFingerprint
  <2>4. ArtifactHash(Resolved(p), tree) = Watched[file.spec.files][tree]
    BY <1>5, <2>2, <2>3 DEF ArtifactHash
  <2>5. file.artifact_hash # NoHash /\ file.artifact_hash = ArtifactHash(file.spec, file.tree)
    BY <1>5 DEF Sourced
  <2>6. file.artifact_hash = Watched[file.spec.files][file.tree]
    BY <2>5 DEF ArtifactHash
  <2> QED BY <1>3, <2>4, <2>5, <2>6
<1> QED BY <1>4, <1>5 DEF StillCurrent

\* The job a lookup leaves behind.
LEMMA JobFacts ==
  ASSUME WInv, NEW p \in Proc, LookingUp(p), ~BindingMissing(p)
  PROVE  /\ JobTyped(Job(p))
         /\ ~disturbed => JobCurrent(Job(p))
<1> DEFINE v == Verification(p)
<1>1. /\ run[p].next \in DOMAIN Ir[run[p].contract].plan
      /\ v = Ir[run[p].contract].plan[run[p].next]
      /\ v.claim \in Claim /\ run[p].config \in Config
  BY InPlan DEF Verification, Plan
<1>2. /\ Job(p).claim = v.claim /\ Job(p).verification = v
      /\ Job(p).binding = Granted(p) /\ Job(p).spec = Resolved(p)
  BY DEF Job
<1>3. Granted(p) \in {NoHash, bindings[v.claim]}
  BY DEF Granted, Authorization
<1>4. Granted(p) \in Hash(Binding)
  BY <1>1, <1>3 DEF WInv, TypeOK, Hash
<1>5. SpecOrNone(Resolved(p))
  <2>1. CASE Base(p) = NoHash
    BY <2>1 DEF Resolved, WithSelector, IsTemplate, SpecOrNone
  <2>2. CASE Base(p) # NoHash
    BY <1>1, <2>2, RegistrySpec DEF Resolved, Base, SpecOrNone
  <2> QED BY <2>1, <2>2
<1>6. JobTyped(Job(p))
  BY <1>1, <1>2, <1>4, <1>5 DEF JobTyped
<1>7. ASSUME ~disturbed PROVE JobCurrent(Job(p))
  <2>1. run[p].contract = contract /\ run[p].config = config
    BY <1>7 DEF WInv, Synced, LookingUp, At
  <2>2. Base(p) = BaseSpec(RegistryOf(config), v.verifier_ref)
    BY <2>1 DEF Base
  <2>3. RunsUnder(v, config, Granted(p))
    BY <2>2 DEF RunsUnder, Granted, Authorization, BindingMissing
  <2>4. Resolved(p) = WithSelector(BaseSpec(RegistryOf(config), v.verifier_ref), Granted(p))
    BY <2>2 DEF Resolved
  <2> QED BY <1>1, <1>2, <1>3, <2>1, <2>3, <2>4 DEF JobCurrent
<1> QED BY <1>6, <1>7

\* Taking a proof from the cache.
LEMMA HitW ==
  ASSUME IInv, WInv, NEW p \in Proc, LookupHit(p)
  PROVE  WInv'
<1>1. PICK file \in evidence :
        /\ Lookup(p, file)
        /\ CacheOutcome(file, Context(p), now) = "Hit"
        /\ Local(p, [run[p] EXCEPT !.next = @ + 1, !.stored = Append(@, file)])
  BY DEF LookupHit
<1> DEFINE r == [run[p] EXCEPT !.next = @ + 1, !.stored = Append(@, file)]
<1>2. /\ run[p].pc = "lookup" /\ Become(p, r)
      /\ UNCHANGED <<world, evidence, drift, baseline, snapshot, lock>>
  BY <1>1 DEF Lookup, LookingUp, At, Local, disk
<1>3. RunOK(p) /\ RunTyped(p) /\ EvidenceOK(file)
  BY DEF IInv, WInv, TypeOK
<1>4. /\ SameSamples(run[p], r) /\ r.pc = "lookup" /\ r.next = run[p].next + 1
      /\ r.stored = Append(run[p].stored, file) /\ r.fresh = run[p].fresh
      /\ r.need = run[p].need /\ r.stale = run[p].stale /\ r.drift = run[p].drift
  BY <1>2, <1>3 DEF RunOK, RunField, SameSamples
<1> HIDE DEF r
<1>5. run'[p] = r
  BY <1>2, BecomeFacts DEF IInv
<1>6. InHand(p)' = InHand(p) \cup {file}
  <2>1. Elements(r.stored) = Elements(run[p].stored) \cup {file}
    BY <1>3, <1>4, AppendElements DEF RunOK
  <2> QED BY <1>4, <1>5, <2>1 DEF InHand
<1>7. TypeOK'
  BY <1>2, DiskTyped DEF WInv, TypeOK
<1>8. RunTyped(p)'
  BY <1>2, <1>3, <1>4, <1>5, <1>6 DEF RunTyped, SameSamples, Early, At
<1>9. ASSUME ~disturbed PROVE Synced(p)'
  <2>1. Sourced(file) /\ (file.state = ValidState => StillCurrent(file))
    BY <1>1, <1>9, HitIsCurrent DEF WInv
  <2> QED BY <1>2, <1>4, <1>5, <1>6, <1>9, <2>1
          DEF WInv, Synced, SameSamples, Early, At, world, Dirty, JobCurrent, StillCurrent
<1> QED BY <1>2, <1>7, <1>8, <1>9, OneRunW DEF WInv

\* A verification that has to be run: the run remembers the job, and the drift
\* if there was any.
LEMMA LeftToRun ==
  ASSUME IInv, WInv, NEW p \in Proc, LookupStale(p) \/ LookupMiss(p)
  PROVE  \E stale \in [Claim -> SUBSET StaleReason] :
           /\ LookingUp(p) /\ ~BindingMissing(p)
           /\ Local(p, [run[p] EXCEPT !.next = @ + 1, !.need = Append(@, Job(p)), !.stale = stale])
<1>1. RunOK(p) /\ RunTyped(p)
  BY DEF IInv, WInv
<1>2. CASE LookupMiss(p)
  <2>1. [run[p] EXCEPT !.next = @ + 1, !.need = Append(@, Job(p)), !.stale = run[p].stale]
          = [run[p] EXCEPT !.next = @ + 1, !.need = Append(@, Job(p))]
    BY <1>1 DEF RunOK, RunField
  <2> QED BY <1>1, <1>2, <2>1 DEF LookupMiss, Lookup, RunTyped
<1>3. CASE LookupStale(p)
  <2>1. PICK file \in evidence :
          /\ LookingUp(p) /\ ~BindingMissing(p)
          /\ Local(p, [run[p] EXCEPT !.next = @ + 1, !.need = Append(@, Job(p)),
                        !.stale[file.claim] = StaleReasons(file, Context(p), now)])
    BY <1>3 DEF LookupStale, Lookup
  <2> DEFINE stale == [run[p].stale EXCEPT ![file.claim] = StaleReasons(file, Context(p), now)]
  <2>2. StaleReasons(file, Context(p), now) \subseteq StaleReason
    BY DEF StaleReasons
  <2>3. stale \in [Claim -> SUBSET StaleReason]
    BY <1>1, <2>2 DEF RunTyped
  <2> QED BY <2>1, <2>3
<1> QED BY <1>2, <1>3

\* Leaving a verification to be run.
LEMMA NeededW ==
  ASSUME IInv, WInv, NEW p \in Proc, LookupStale(p) \/ LookupMiss(p)
  PROVE  WInv'
<1>1. RunOK(p) /\ RunTyped(p)
  BY DEF IInv, WInv
<1>2. PICK stale \in [Claim -> SUBSET StaleReason] :
        /\ LookingUp(p) /\ ~BindingMissing(p)
        /\ Local(p, [run[p] EXCEPT !.next = @ + 1, !.need = Append(@, Job(p)), !.stale = stale])
  BY LeftToRun
<1> DEFINE job == Job(p)
           r == [run[p] EXCEPT !.next = @ + 1, !.need = Append(@, job), !.stale = stale]
<1>3. /\ run[p].pc = "lookup" /\ Become(p, r)
      /\ UNCHANGED <<world, evidence, drift, baseline, snapshot, lock>>
  BY <1>2 DEF LookingUp, At, Local, disk
<1>4. JobTyped(job) /\ (~disturbed => JobCurrent(job))
  BY <1>2, JobFacts
<1> HIDE DEF job
<1>5. /\ SameSamples(run[p], r) /\ r.pc = "lookup" /\ r.next = run[p].next + 1
      /\ r.stored = run[p].stored /\ r.fresh = run[p].fresh
      /\ r.need = Append(run[p].need, job) /\ r.stale = stale /\ r.drift = run[p].drift
  BY <1>1, <1>3 DEF RunOK, RunField, SameSamples
<1> HIDE DEF r
<1>6. run'[p] = r
  BY <1>3, BecomeFacts DEF IInv
<1>7. IsSeq(r.need) /\ Elements(r.need) = Elements(run[p].need) \cup {job}
  BY <1>1, <1>5, AppendElements DEF RunTyped
<1>8. InHand(p)' = InHand(p)
  BY <1>5, <1>6 DEF InHand
<1>9. TypeOK'
  BY <1>3, DiskTyped DEF WInv, TypeOK
<1>10. RunTyped(p)'
  <2>1. \A j \in Elements(run'[p].need) : JobTyped(j)
    <3>1. \A j \in Elements(run[p].need) : JobTyped(j)
      BY <1>1 DEF RunTyped
    <3> QED BY <1>4, <1>6, <1>7, <3>1
  <2>2. IsSeq(run'[p].need) /\ run'[p].next \in Nat \ {0}
    <3>1. run[p].next \in Nat \ {0} /\ run'[p].next = run[p].next + 1
      BY <1>1, <1>5, <1>6 DEF RunTyped
    <3>2. IsSeq(run'[p].need)
      BY <1>6, <1>7
    <3> QED BY <3>1, <3>2
  <2>3. \A e \in InHand(p)' : EvidenceOK(e)'
    BY <1>1, <1>8 DEF RunTyped, EvidenceOK
  <2> QED BY <1>1, <1>2, <1>3, <1>5, <1>6, <2>1, <2>2, <2>3 DEF RunTyped, SameSamples, Early, At
<1>11. ASSUME ~disturbed PROVE Synced(p)'
  <2>1. Synced(p)
    BY <1>11 DEF WInv
  <2>2. \A j \in Elements(run'[p].need) : JobCurrent(j)'
    <3>1. \A j \in Elements(run'[p].need) : JobCurrent(j)
      BY <1>4, <1>5, <1>6, <1>7, <1>11, <2>1 DEF Synced
    <3> QED BY <1>3, <3>1 DEF JobCurrent, world
  <2>3. \A e \in InHand(p)' : Sourced(e) /\ (e.state = ValidState => StillCurrent(e)')
    BY <1>3, <1>8, <2>1 DEF Synced, StillCurrent, world
  <2> QED BY <1>3, <1>5, <1>6, <2>1, <2>2, <2>3
          DEF Synced, SameSamples, Early, At, world, Dirty
<1> QED BY <1>3, <1>9, <1>10, <1>11, OneRunW DEF WInv

---------------------------------------------------------------------------
(* Verifier runs *)

\* The job at the head of the queue.
LEMMA PendingJob ==
  ASSUME WInv, NEW p \in Proc, run[p].need # << >>
  PROVE  /\ IsSeq(Tail(run[p].need)) /\ Pending(p) \in Elements(run[p].need)
         /\ Elements(Tail(run[p].need)) \subseteq Elements(run[p].need)
         /\ JobTyped(Pending(p)) /\ (~disturbed => JobCurrent(Pending(p)))
<1>1. IsSeq(run[p].need) /\ \A job \in Elements(run[p].need) : JobTyped(job)
  BY DEF WInv, RunTyped
<1>2. ~disturbed => \A job \in Elements(run[p].need) : JobCurrent(job)
  BY DEF WInv, Synced
<1>3. /\ IsSeq(Tail(run[p].need)) /\ Head(run[p].need) \in Elements(run[p].need)
      /\ Elements(Tail(run[p].need)) \subseteq Elements(run[p].need)
  BY <1>1, TailElements
<1> QED BY <1>1, <1>2, <1>3 DEF Pending

\* The verifier runs on the files that are there.
LEMMA VerifierW ==
  ASSUME IInv, WInv, NEW p \in Proc, RunVerifier(p)
  PROVE  WInv'
<1>1. PICK passed \in {Passes(SpecToRun(p), tree), FALSE} :
        Local(p, [run[p] EXCEPT !.pc = "ran", !.outcome = [passed |-> passed, tree |-> tree]])
  BY DEF RunVerifier
<1> DEFINE o == [passed |-> passed, tree |-> tree]
           r == [run[p] EXCEPT !.pc = "ran", !.outcome = o]
<1>2. /\ run[p].pc = "run" /\ run[p].need # << >> /\ SpecToRun(p) # NoHash /\ Become(p, r)
      /\ UNCHANGED <<world, evidence, drift, baseline, snapshot, lock>>
  BY <1>1 DEF RunVerifier, Running, At, Local, disk
<1>3. RunOK(p) /\ RunTyped(p) /\ o.tree = tree /\ tree \in Tree
  BY DEF IInv, WInv, TypeOK
<1> HIDE DEF o
<1>4. /\ SameSamples(run[p], r) /\ r.pc = "ran" /\ r.next = run[p].next /\ r.outcome = o
      /\ r.stored = run[p].stored /\ r.fresh = run[p].fresh /\ r.need = run[p].need
      /\ r.stale = run[p].stale /\ r.drift = run[p].drift
  BY <1>3 DEF RunOK, RunField, SameSamples
<1> HIDE DEF r
<1>5. run'[p] = r
  BY <1>2, BecomeFacts DEF IInv
<1>6. InHand(p)' = InHand(p) /\ SpecToRun(p)' = SpecToRun(p)
  BY <1>4, <1>5 DEF InHand, SpecToRun, Pending, SameSamples
<1>7. TypeOK'
  BY <1>2, DiskTyped DEF WInv, TypeOK
<1>8. RunTyped(p)'
  BY <1>2, <1>3, <1>4, <1>5, <1>6 DEF RunTyped, SameSamples, Early
<1>9. ASSUME ~disturbed PROVE Synced(p)'
  BY <1>2, <1>3, <1>4, <1>5, <1>6, <1>9
     DEF WInv, Synced, SameSamples, Early, world, Dirty, JobCurrent, StillCurrent
<1> QED BY <1>2, <1>7, <1>8, <1>9, OneRunW DEF WInv

\* The spec of a run has a maximum age.
LEMMA RunningAge ==
  ASSUME WInv, NEW p \in Proc, At(p, "ran")
  PROVE  SpecToRun(p).max_age \in Nat
<1>1. run[p].need # << >> /\ SpecToRun(p) # NoHash /\ run[p].config \in Config
  BY DEF WInv, RunTyped, At
<1>2. SpecOrNone(Pending(p).spec)
  BY <1>1, PendingJob DEF JobTyped
<1>3. SpecOrNone(ResolveCommand(Pending(p).verification, RegistryOf(run[p].config)))
  BY <1>1, ResolvedAge
<1> QED BY <1>1, <1>2, <1>3 DEF SpecToRun, SpecOrNone

\* Evidence before the re-check, field by field.
LEMMA GatheredFields ==
  ASSUME NEW p \in Proc
  PROVE  LET g == Gathered(p)
             spec == SpecToRun(p)
         IN  /\ g.claim = Pending(p).claim /\ g.binding_hash = Pending(p).binding
             /\ g.commit_sha = head /\ g.workspace_dirty = Dirty
             /\ g.contract_hash = run[p].contract_hash /\ g.registry_hash = run[p].registry_hash
             /\ g.spec = spec /\ g.tree = run[p].outcome.tree
             /\ g.artifact_hash = ArtifactHash(spec, tree)
             /\ g.fingerprint = SpecFingerprint(Pending(p).verification.verifier_ref, spec, ActorOf[p])
             /\ g.expires_at = IF spec.max_age = 0 THEN NoHash ELSE now + spec.max_age
             /\ g.exit_code \in {0, 1}
             /\ g.state \in {ValidState, InvalidState}
             /\ g.state = ValidState => ~(spec.files # NoHash /\ ArtifactHash(spec, tree) = NoHash)
<1>1. Gathered(p).exit_code \in {0, 1}
  BY DEF Gathered
<1>2. /\ Gathered(p).state \in {ValidState, InvalidState}
      /\ Gathered(p).state = ValidState =>
           ~(SpecToRun(p).files # NoHash /\ ArtifactHash(SpecToRun(p), tree) = NoHash)
  BY DEF Gathered, ValidState, InvalidState
<1> QED BY <1>1, <1>2 DEF Gathered

\* The re-check changes nothing but the state, and only to Stale.
LEMMA RecheckedFields ==
  ASSUME NEW p \in Proc
  PROVE  LET g == Gathered(p)
             e == Rechecked(g, p)
         IN  /\ e.claim = g.claim /\ e.binding_hash = g.binding_hash
             /\ e.commit_sha = g.commit_sha /\ e.workspace_dirty = g.workspace_dirty
             /\ e.contract_hash = g.contract_hash /\ e.registry_hash = g.registry_hash
             /\ e.spec = g.spec /\ e.tree = g.tree /\ e.artifact_hash = g.artifact_hash
             /\ e.fingerprint = g.fingerprint /\ e.expires_at = g.expires_at
             /\ e.exit_code = g.exit_code /\ e.state \in {g.state, StaleState}
<1> DEFINE g == Gathered(p)
           s == [g EXCEPT !.state = StaleState]
<1>1. /\ s.claim = g.claim /\ s.binding_hash = g.binding_hash
      /\ s.commit_sha = g.commit_sha /\ s.workspace_dirty = g.workspace_dirty
      /\ s.contract_hash = g.contract_hash /\ s.registry_hash = g.registry_hash
      /\ s.spec = g.spec /\ s.tree = g.tree /\ s.artifact_hash = g.artifact_hash
      /\ s.fingerprint = g.fingerprint /\ s.expires_at = g.expires_at
      /\ s.exit_code = g.exit_code /\ s.state = StaleState
  BY DEF Gathered
<1>2. Rechecked(g, p) = s \/ Rechecked(g, p) = g
  BY DEF Rechecked
<1> HIDE DEF g, s
<1> QED BY <1>1, <1>2 DEF g

\* What the spec of a job in a workspace nobody disturbs comes from.
LEMMA RunsForJob ==
  ASSUME WInv, NEW p \in Proc, At(p, "ran"), ~disturbed,
         NEW v, RunsUnder(v, config, Pending(p).binding), Pending(p).verification = v,
         Pending(p).spec = WithSelector(BaseSpec(RegistryOf(config), v.verifier_ref),
                                        Pending(p).binding)
  PROVE  SpecToRun(p) = RunsFor(v, config, Pending(p).binding)
<1> DEFINE base == BaseSpec(RegistryOf(config), v.verifier_ref)
           b == Pending(p).binding
<1>1. run[p].config = config /\ config \in Config
  BY DEF WInv, TypeOK, Synced, At
<1>2. b \in Hash(Binding)
  BY PendingJob DEF WInv, RunTyped, JobTyped
<1>3. CASE base = NoHash
  <2>1. Pending(p).spec = NoHash
    BY <1>3 DEF WithSelector, IsTemplate
  <2> QED BY <1>1, <1>3, <2>1 DEF SpecToRun, RunsFor
<1>4. CASE base # NoHash
  <2>1. Pending(p).spec # NoHash
    BY <1>1, <1>2, <1>4, StaysSpec
  <2> QED BY <1>4, <2>1 DEF SpecToRun, RunsFor
<1> QED BY <1>3, <1>4

\* The evidence a run records is typed, and in a workspace nobody disturbs it is
\* of what the present contract, registry and authorization ask for.
LEMMA RecordedTyped ==
  ASSUME WInv, NEW p \in Proc, At(p, "ran")
  PROVE  EvidenceOK(Rechecked(Gathered(p), p))
<1> DEFINE e == Rechecked(Gathered(p), p)
<1>1. /\ Pending(p).claim \in Claim /\ Pending(p).binding \in Hash(Binding)
      /\ run[p].contract_hash \in Contract /\ run[p].registry_hash \in Config
      /\ run[p].outcome.tree \in Tree
  BY PendingJob DEF WInv, RunTyped, JobTyped, At, Early
<1>2. head \in Sha /\ Dirty \in BOOLEAN /\ now \in Nat
  BY DEF WInv, TypeOK, Dirty
<1>3. (IF SpecToRun(p).max_age = 0 THEN NoHash ELSE now + SpecToRun(p).max_age) \in Hash(Nat)
  BY <1>2, RunningAge DEF Hash
<1>4. /\ e.claim = Pending(p).claim /\ e.binding_hash = Pending(p).binding
      /\ e.commit_sha = head /\ e.workspace_dirty = Dirty
      /\ e.contract_hash = run[p].contract_hash /\ e.registry_hash = run[p].registry_hash
      /\ e.tree = run[p].outcome.tree
      /\ e.expires_at = IF SpecToRun(p).max_age = 0 THEN NoHash ELSE now + SpecToRun(p).max_age
      /\ e.exit_code \in {0, 1} /\ e.state \in {ValidState, InvalidState, StaleState}
  BY GatheredFields, RecheckedFields
<1> HIDE DEF e
<1> QED BY <1>1, <1>2, <1>3, <1>4 DEF EvidenceOK, EvidenceState, e

LEMMA RecordedSourced ==
  ASSUME WInv, NEW p \in Proc, At(p, "ran"), ~disturbed
  PROVE  LET e == Rechecked(Gathered(p), p)
         IN  Sourced(e) /\ (e.state = ValidState => StillCurrent(e))
<1> DEFINE e == Rechecked(Gathered(p), p)
           b == Pending(p).binding
<1>1. PICK i \in DOMAIN Ir[contract].plan :
        LET v == Ir[contract].plan[i]
        IN  /\ Pending(p).claim = v.claim /\ Pending(p).verification = v
            /\ RunsUnder(v, config, b) /\ b \in {NoHash, bindings[v.claim]}
            /\ Pending(p).spec
                 = WithSelector(BaseSpec(RegistryOf(config), v.verifier_ref), b)
  <2>1. JobCurrent(Pending(p))
    BY PendingJob DEF WInv, RunTyped, At
  <2> QED BY <2>1 DEF JobCurrent
<1> DEFINE v == Ir[contract].plan[i]
           spec == SpecToRun(p)
<1>2. /\ run[p].contract_hash = contract /\ run[p].registry_hash = config
      /\ run[p].outcome.tree = tree
  BY DEF WInv, Synced, At, Early
<1>3. spec = RunsFor(v, config, b)
  BY <1>1, RunsForJob
<1>4. /\ e.claim = v.claim /\ e.binding_hash = b
      /\ e.commit_sha = head /\ e.workspace_dirty = Dirty
      /\ e.contract_hash = contract /\ e.registry_hash = config
      /\ e.spec = spec /\ e.tree = tree /\ e.artifact_hash = ArtifactHash(spec, tree)
      /\ e.fingerprint = SpecFingerprint(v.verifier_ref, spec, ActorOf[p])
      /\ e.state = ValidState => ~(spec.files # NoHash /\ ArtifactHash(spec, tree) = NoHash)
  BY <1>1, <1>2, GatheredFields, RecheckedFields DEF ValidState, InvalidState, StaleState
<1>5. RunsUnder(v, config, b) /\ b \in {NoHash, bindings[v.claim]}
  BY <1>1
<1> HIDE DEF e, b, v, spec
<1>6. \E j \in DOMAIN Ir[e.contract_hash].plan :
        LET w == Ir[e.contract_hash].plan[j]
        IN  /\ e.claim = w.claim
            /\ RunsUnder(w, e.registry_hash, e.binding_hash)
            /\ e.spec = RunsFor(w, e.registry_hash, e.binding_hash)
            /\ \E q \in Proc : e.fingerprint = SpecFingerprint(w.verifier_ref, e.spec, ActorOf[q])
  <2>1. i \in DOMAIN Ir[e.contract_hash].plan /\ Ir[e.contract_hash].plan[i] = v
    BY <1>4 DEF v
  <2> QED BY <1>3, <1>4, <1>5, <2>1
<1>7. ~e.workspace_dirty => e.tree \in CleanAt[e.commit_sha]
  BY <1>4 DEF Dirty
<1>8. Sourced(e)
  BY <1>4, <1>6, <1>7 DEF Sourced
<1>9. StillCurrent(e)
  BY <1>4, <1>5 DEF StillCurrent
<1> QED BY <1>8, <1>9 DEF e

\* Recording fresh evidence.
LEMMA RecordW ==
  ASSUME IInv, WInv, NEW p \in Proc, RecordEvidence(p)
  PROVE  WInv'
<1> DEFINE e == Rechecked(Gathered(p), p)
           r == [run[p] EXCEPT !.pc = "run", !.outcome = NoHash, !.need = Tail(@),
                               !.fresh = Append(@, e)]
<1>1. /\ At(p, "ran") /\ run[p].pc = "ran" /\ Become(p, r)
      /\ UNCHANGED <<world, evidence, drift, baseline, snapshot, lock>>
  BY DEF RecordEvidence, At, Local, disk
<1>2. RunOK(p) /\ RunTyped(p) /\ run[p].need # << >>
  BY <1>1 DEF IInv, WInv, RunTyped
<1>3. EvidenceOK(e) /\ (~disturbed => Sourced(e) /\ (e.state = ValidState => StillCurrent(e)))
  BY <1>1, RecordedTyped, RecordedSourced
<1> HIDE DEF e
<1>4. /\ SameSamples(run[p], r) /\ r.pc = "run" /\ r.next = run[p].next
      /\ r.stored = run[p].stored /\ r.fresh = Append(run[p].fresh, e)
      /\ r.need = Tail(run[p].need) /\ r.stale = run[p].stale /\ r.drift = run[p].drift
  BY <1>2 DEF RunOK, RunField, SameSamples
<1> HIDE DEF r
<1>5. run'[p] = r
  BY <1>1, BecomeFacts DEF IInv
<1>6. /\ IsSeq(run'[p].need) /\ Elements(run'[p].need) \subseteq Elements(run[p].need)
  BY <1>2, <1>4, <1>5, PendingJob
<1>7. InHand(p)' = InHand(p) \cup {e}
  <2>1. Elements(r.fresh) = Elements(run[p].fresh) \cup {e}
    BY <1>2, <1>4, AppendElements DEF RunOK
  <2> QED BY <1>4, <1>5, <2>1 DEF InHand
<1>8. TypeOK'
  BY <1>1, DiskTyped DEF WInv, TypeOK
<1>9. RunTyped(p)'
  <2>1. \A f \in InHand(p)' : EvidenceOK(f)'
    BY <1>2, <1>3, <1>7 DEF RunTyped, EvidenceOK
  <2>2. \A j \in Elements(run'[p].need) : JobTyped(j)
    BY <1>2, <1>6 DEF RunTyped
  <2> QED BY <1>1, <1>2, <1>4, <1>5, <1>6, <2>1, <2>2 DEF RunTyped, SameSamples, Early, At
<1>10. ASSUME ~disturbed PROVE Synced(p)'
  <2>1. Synced(p)
    BY <1>10 DEF WInv
  <2>2. \A j \in Elements(run'[p].need) : JobCurrent(j)'
    BY <1>1, <1>6, <2>1 DEF Synced, JobCurrent, world
  <2>3. \A f \in InHand(p)' : Sourced(f) /\ (f.state = ValidState => StillCurrent(f)')
    BY <1>1, <1>3, <1>7, <1>10, <2>1 DEF Synced, StillCurrent, world
  <2> QED BY <1>1, <1>4, <1>5, <2>1, <2>2, <2>3
          DEF Synced, SameSamples, Early, At, world, Dirty
<1> QED BY <1>1, <1>8, <1>9, <1>10, OneRunW DEF WInv

---------------------------------------------------------------------------
(* The decision and the persist phase *)

\* The steps that only move a run on: the policy, the decision, the drift
\* record, and the persist phase but for the evidence.
LEMMA AdvanceW ==
  ASSUME IInv, WInv, NEW p \in Proc,
         \/ ResolvePolicy(p) \/ MakeDecision(p) \/ SaveDrift(p) \/ AcquireLock(p)
         \/ AppendJournal(p) \/ SaveLast(p) \/ WriteBaseline(p) \/ WriteSnapshot(p)
  PROVE  WInv'
<1>1. DOMAIN run[p] = RunField /\ RunTyped(p)
  BY DEF IInv, RunOK, WInv
<1>2. /\ drift \in [Claim -> SUBSET StaleReason]
      /\ baseline \in Hash(Config) /\ snapshot \in Hash(Config)
      /\ lock \in Proc \cup {NoHash, Orphan}
  BY DEF WInv, TypeOK
<1>3. ASSUME NEW label \in {"run", "decided", "acquire", "save", "journaled", "acknowledge",
                            "snapshot", "release"},
             NEW policy, NEW d \in [Claim -> SUBSET StaleReason], NEW result,
             run[p].pc \notin Early,
             Become(p, [run[p] EXCEPT !.pc = label, !.policy = policy, !.drift = d,
                                      !.result = result]),
             UNCHANGED <<world, evidence>>,
             drift' \in [Claim -> SUBSET StaleReason],
             baseline' \in Hash(Config), snapshot' \in Hash(Config),
             lock' \in Proc \cup {NoHash, Orphan}
      PROVE  WInv'
  <2> DEFINE r == [run[p] EXCEPT !.pc = label, !.policy = policy, !.drift = d,
                                 !.result = result]
  <2>1. /\ SameSamples(run[p], r) /\ r.pc = label /\ r.next = run[p].next
        /\ r.need = run[p].need /\ r.stale = run[p].stale /\ r.stored = run[p].stored
        /\ r.fresh = run[p].fresh /\ r.drift = d
    BY <1>1 DEF RunField, SameSamples
  <2>2. Become(p, r)
    BY <1>3
  <2> HIDE DEF r
  <2>3. label \notin Early \cup {"ran"}
    BY <1>3 DEF Early
  <2>4. TypeOK'
    BY <1>3, DiskTyped
  <2> QED BY <1>3, <2>1, <2>2, <2>3, <2>4, AdvanceStep
<1>4. run[p].registry_hash \in Config \/ run[p].pc \in Early
  BY <1>1 DEF RunTyped
<1>5. run[p].drift \in [Claim -> SUBSET StaleReason] /\ run[p].stale \in [Claim -> SUBSET StaleReason]
  BY <1>1 DEF RunTyped
<1> DEFINE Next0(label, policy, d, result) ==
             [run[p] EXCEPT !.pc = label, !.policy = policy, !.drift = d, !.result = result]
<1>6. ASSUME NEW label
      PROVE  /\ [run[p] EXCEPT !.pc = label]
                  = Next0(label, run[p].policy, run[p].drift, run[p].result)
             /\ \A policy : [run[p] EXCEPT !.pc = label, !.policy = policy]
                  = Next0(label, policy, run[p].drift, run[p].result)
             /\ \A d : [run[p] EXCEPT !.pc = label, !.drift = d]
                  = Next0(label, run[p].policy, d, run[p].result)
             /\ \A d, result : [run[p] EXCEPT !.pc = label, !.drift = d, !.result = result]
                  = Next0(label, run[p].policy, d, result)
  BY <1>1 DEF RunField
<1>7. CASE ResolvePolicy(p)
  <2>1. PICK policy \in Policies :
          At(p, "lookup") /\ Local(p, [run[p] EXCEPT !.pc = "run", !.policy = policy])
    BY <1>7 DEF ResolvePolicy
  <2>2. /\ Become(p, Next0("run", policy, run[p].drift, run[p].result))
        /\ run[p].pc \notin Early
        /\ UNCHANGED <<world, evidence, drift, baseline, snapshot, lock>>
    BY <1>6, <2>1 DEF Local, At, Early, disk
  <2> QED BY <1>2, <1>3, <1>5, <2>2
<1>8. CASE MakeDecision(p)
  <2>1. /\ Become(p, Next0("decided", run[p].policy, drift, Verdict(p)))
        /\ run[p].pc \notin Early
        /\ UNCHANGED <<world, evidence, drift, baseline, snapshot, lock>>
    <3>1. /\ At(p, "run")
          /\ Local(p, [run[p] EXCEPT !.pc = "decided", !.drift = drift, !.result = Verdict(p)])
      BY <1>8 DEF MakeDecision, Verdict
    <3> QED BY <1>6, <3>1 DEF Local, At, Early, disk
  <2> QED BY <1>2, <1>3, <2>1
<1>9. CASE SaveDrift(p)
  <2>1. DriftRecord(p) \in [Claim -> SUBSET StaleReason]
    BY <1>5 DEF DriftRecord
  <2>2. /\ Become(p, Next0("acquire", run[p].policy, drift', run[p].result))
        /\ drift' = DriftRecord(p) /\ run[p].pc \notin Early
        /\ UNCHANGED <<world, evidence, baseline, snapshot, lock>>
    BY <1>6, <1>9 DEF SaveDrift, At, Early
  <2> QED BY <1>2, <1>3, <2>1, <2>2
<1>10. CASE AcquireLock(p)
  <2>1. lock' = p
    BY <1>10 DEF AcquireLock, Lock!Acquire
  <2>2. /\ Become(p, Next0("save", run[p].policy, run[p].drift, run[p].result))
        /\ run[p].pc \notin Early
        /\ UNCHANGED <<world, evidence, drift, baseline, snapshot>>
    BY <1>6, <1>10 DEF AcquireLock, At, Early, disk
  <2> QED BY <1>2, <1>3, <1>5, <2>1, <2>2
<1>11. CASE AppendJournal(p)
  <2>1. /\ Become(p, Next0("journaled", run[p].policy, run[p].drift, run[p].result))
        /\ run[p].pc \notin Early
        /\ UNCHANGED <<world, evidence, drift, baseline, snapshot, lock>>
    BY <1>6, <1>11 DEF AppendJournal, At, Early
  <2> QED BY <1>2, <1>3, <1>5, <2>1
<1>12. CASE SaveLast(p)
  <2>1. /\ Become(p, Next0("acknowledge", run[p].policy, run[p].drift, run[p].result))
        /\ run[p].pc \notin Early
        /\ UNCHANGED <<world, evidence, drift, baseline, snapshot, lock>>
    BY <1>6, <1>12 DEF SaveLast, At, Early
  <2> QED BY <1>2, <1>3, <1>5, <2>1
<1>13. CASE WriteBaseline(p)
  <2>1. /\ Become(p, Next0("snapshot", run[p].policy, run[p].drift, run[p].result))
        /\ run[p].pc \notin Early /\ baseline' = run[p].registry_hash
        /\ UNCHANGED <<world, evidence, drift, snapshot, lock>>
    BY <1>6, <1>13 DEF WriteBaseline, At, Early
  <2>2. baseline' \in Hash(Config)
    BY <1>4, <2>1 DEF Hash
  <2> QED BY <1>2, <1>3, <1>5, <2>1, <2>2
<1>14. CASE WriteSnapshot(p)
  <2>1. /\ Become(p, Next0("release", run[p].policy, run[p].drift, run[p].result))
        /\ run[p].pc \notin Early /\ snapshot' = run[p].registry_hash
        /\ UNCHANGED <<world, evidence, drift, baseline, lock>>
    BY <1>6, <1>14 DEF WriteSnapshot, At, Early
  <2>2. snapshot' \in Hash(Config)
    BY <1>4, <2>1 DEF Hash
  <2> QED BY <1>2, <1>3, <1>5, <2>1, <2>2
<1> QED BY <1>7, <1>8, <1>9, <1>10, <1>11, <1>12, <1>13, <1>14

\* Saving evidence replaces the file of its claim and fingerprint.
LEMMA SaveW ==
  ASSUME IInv, WInv, NEW p \in Proc, SaveEvidence(p)
  PROVE  WInv'
<1> DEFINE e == Head(run[p].fresh)
           r == [run[p] EXCEPT !.fresh = Tail(@), !.stored = Append(@, e)]
<1>1. /\ run[p].pc = "save" /\ run[p].fresh # << >> /\ Become(p, r)
      /\ evidence' = Replaced(e)
      /\ UNCHANGED <<world, drift, baseline, snapshot, lock>>
  BY DEF SaveEvidence, At
<1>2. RunOK(p) /\ RunTyped(p)
  BY DEF IInv, WInv
<1>3. e \in Elements(run[p].fresh) /\ Elements(run[p].fresh) = Elements(Tail(run[p].fresh)) \cup {e}
  BY <1>1, <1>2, TailElements DEF RunOK
<1> HIDE DEF e
<1>4. Elements(Append(run[p].stored, e)) = Elements(run[p].stored) \cup {e}
  BY <1>2, AppendElements DEF RunOK
<1>5. /\ SameSamples(run[p], r) /\ r.pc = "save" /\ r.next = run[p].next
      /\ r.need = run[p].need /\ r.stale = run[p].stale /\ r.drift = run[p].drift
      /\ r.stored = Append(run[p].stored, e) /\ r.fresh = Tail(run[p].fresh)
  BY <1>1, <1>2 DEF RunOK, RunField, SameSamples
<1> HIDE DEF r
<1>6. run'[p] = r
  BY <1>1, BecomeFacts DEF IInv
<1>7. InHand(p)' = InHand(p) /\ e \in InHand(p)
  BY <1>3, <1>4, <1>5, <1>6 DEF InHand
<1>8. EvidenceOK(e) /\ (~disturbed => Sourced(e))
  BY <1>2, <1>7 DEF RunTyped, WInv, Synced
<1>9. evidence' = {f \in evidence : f.claim # e.claim \/ f.fingerprint # e.fingerprint} \cup {e}
  BY <1>1 DEF Replaced
<1>10. TypeOK'
  <2>1. \A f \in evidence' : EvidenceOK(f)'
    BY <1>8, <1>9 DEF WInv, TypeOK, EvidenceOK
  <2>2. \A f, g \in evidence' : f.claim = g.claim /\ f.fingerprint = g.fingerprint => f = g
    BY <1>9 DEF WInv, TypeOK
  <2> QED BY <1>1, <2>1, <2>2 DEF WInv, TypeOK, world
<1>11. RunTyped(p)'
  <2>1. \A f \in InHand(p)' : EvidenceOK(f)'
    BY <1>2, <1>7 DEF RunTyped, EvidenceOK
  <2> QED BY <1>1, <1>2, <1>5, <1>6, <2>1 DEF RunTyped, SameSamples, Early, At
<1>12. ASSUME ~disturbed PROVE Synced(p)'
  <2>1. Synced(p)
    BY <1>12 DEF WInv
  <2>2. \A j \in Elements(run'[p].need) : JobCurrent(j)'
    BY <1>1, <1>5, <1>6, <2>1 DEF Synced, JobCurrent, world
  <2>3. \A f \in InHand(p)' : Sourced(f) /\ (f.state = ValidState => StillCurrent(f)')
    BY <1>1, <1>7, <2>1 DEF Synced, StillCurrent, world
  <2> QED BY <1>1, <1>5, <1>6, <2>1, <2>2, <2>3
          DEF Synced, SameSamples, Early, At, world, Dirty
<1>13. ~disturbed => \A f \in evidence' : Sourced(f)
  BY <1>8, <1>9 DEF WInv
<1> QED BY <1>1, <1>10, <1>11, <1>12, <1>13, OneRunW

\* The ends of a run, and the lock of a dead process going away.
LEMMA IdleW ==
  ASSUME IInv, WInv, NEW p \in Proc,
         \/ LookupRefused(p) \/ UnknownVerifier(p) \/ GiveUp(p)
         \/ ReleaseLock(p) \/ PersistFails(p) \/ Crash(p)
  PROVE  WInv'
<1>1. Become(p, IdleRun) /\ UNCHANGED <<world, evidence, drift, baseline, snapshot>>
  BY DEF LookupRefused, UnknownVerifier, GiveUp, ReleaseLock, PersistFails, Crash,
         Abort, Local, disk
<1>2. lock' \in {lock, NoHash, Orphan}
  BY DEF LookupRefused, UnknownVerifier, GiveUp, ReleaseLock, PersistFails, Crash,
         Abort, Local, Lock!Release, Lock!Die
<1>3. TypeOK'
  BY <1>1, <1>2, DiskTyped DEF WInv, TypeOK
<1> QED BY <1>1, <1>3, ToIdleW

\* A step that touches neither run, nor cache, nor workspace.
LEMMA LockOnlyW ==
  ASSUME IInv, WInv,
         UNCHANGED <<world, run, evidence, drift, baseline, snapshot>>,
         lock' \in Proc \cup {NoHash, Orphan}
  PROVE  WInv'
<1>1. TypeOK'
  BY DiskTyped DEF WInv, TypeOK
<1>2. \A q \in Proc : RunTyped(q)'
  BY UntouchedTyped DEF WInv
<1>3. ASSUME ~disturbed PROVE \A q \in Proc : Synced(q)'
  BY <1>3, UntouchedSynced DEF WInv, world
<1> QED BY <1>1, <1>2, <1>3 DEF WInv, world

---------------------------------------------------------------------------
(* The theorems *)

\* The invariant holds in the initial state.
LEMMA InitW == Init => WInv
<1> SUFFICES ASSUME Init PROVE WInv
  OBVIOUS
<1>1. \A p \in Proc : run[p] = IdleRun
  BY DEF Init
<1>2. \A p \in Proc : RunTyped(p) /\ Synced(p)
  <2> SUFFICES ASSUME NEW p \in Proc PROVE RunTyped(p) /\ Synced(p)
    OBVIOUS
  <2>0. run[p] = IdleRun
    BY <1>1
  <2>1. /\ run[p].pc = "idle" /\ run[p].need = << >> /\ run[p].next = 1
        /\ run[p].stored = << >> /\ run[p].fresh = << >>
        /\ run[p].stale = [c \in Claim |-> {}] /\ run[p].drift = [c \in Claim |-> {}]
    BY <2>0 DEF IdleRun
  <2>2. InHand(p) = {} /\ Elements(run[p].need) = {} /\ IsSeq(run[p].need)
    BY <2>1, EmptyIsSeq DEF InHand, Elements
  <2> QED BY <2>1, <2>2 DEF RunTyped, Synced, Early, At
<1>3. TypeOK
  BY TreesExist DEF Init, TypeOK, Hash
<1> QED BY <1>2, <1>3 DEF WInv, Init

\* Every step preserves it.
LEMMA NextW == IInv /\ WInv /\ [Next]_vars => WInv'
<1> SUFFICES ASSUME IInv, WInv, [Next]_vars PROVE WInv'
  OBVIOUS
<1>1. CASE World
  BY <1>1, WorldW
<1>2. ASSUME NEW p \in Proc, LoadContract(p) PROVE WInv'
  BY <1>2, EarlyW
<1>3. ASSUME NEW p \in Proc, ReapLock(p) PROVE WInv'
  <2>1. lock' = NoHash /\ UNCHANGED <<world, run, evidence, drift, baseline, snapshot>>
    BY <1>3 DEF ReapLock, Lock!Reap, disk
  <2> QED BY <2>1, LockOnlyW
<1>4. ASSUME NEW p \in Proc, Step(p) PROVE WInv'
  BY <1>3, <1>4, EarlyW, HitW, NeededW, VerifierW, RecordW, AdvanceW, SaveW, IdleW DEF Step
<1>5. ASSUME NEW p \in Proc, PersistFails(p) \/ Crash(p) PROVE WInv'
  BY <1>5, IdleW
<1>6. CASE UNCHANGED vars
  <2>1. UNCHANGED <<world, run, evidence, drift, baseline, snapshot, lock>>
    BY <1>6 DEF vars, disk
  <2> QED BY <2>1, LockOnlyW DEF WInv, TypeOK
<1> QED BY <1>1, <1>2, <1>4, <1>5, <1>6 DEF Next

\* The invariant holds in every reachable state.
LEMMA AlwaysW == Spec => [](IInv /\ WInv)
<1>1. IInv /\ WInv /\ [Next]_vars => (IInv /\ WInv)'
  BY NextIInv, NextW
<1> QED BY InitIInv, InitW, <1>1, PTL DEF Spec

\* Whatever is interrupted, the next process finds on disk what it can read:
\* evidence of the present shape, one record per file, a drift record over the
\* claims, and the hash of a registry in each baseline.
THEOREM TypeCorrect == Spec => []TypeOK
  BY AlwaysW, PTL DEF WInv

\* The evidence and the verification an acceptance of a claim rests on.
LEMMA Acceptance ==
  ASSUME IInv, WInv, ~disturbed, NEW p \in Proc, Accepted(p), NEW c \in Demanded(p)
  PROVE  \E e \in InHand(p), i \in DOMAIN Plan(p) :
           LET v == Plan(p)[i]
               base == BaseSpec(RegistryOf(config), v.verifier_ref)
           IN  /\ Proof(e, c, p) /\ EvidenceOK(e)
               /\ e.commit_sha = head /\ e.workspace_dirty = Dirty
               /\ Sourced(e) /\ StillCurrent(e)
               /\ v.claim = c /\ e.spec = Required(v)
               /\ e.binding_hash = Authorization(bindings[c], v, base)
               /\ NeedsBinding(v, base) => Authorizes(e.binding_hash, v, base)
<1>1. RunOK(p) /\ RunTyped(p) /\ Synced(p)
  BY DEF IInv, WInv
<1>2. run[p].pc \notin Early
  BY <1>1 DEF RunOK, EarlyOK, Accepted, Decided
<1>3. PICK e \in InHand(p) : e.claim = c /\ e.state = ValidState
  BY <1>1 DEF RunOK, AcceptedOK
<1>4. Recorded(e) /\ InContextOf(e, p) /\ EvidenceOK(e) /\ Sourced(e) /\ StillCurrent(e)
  BY <1>1, <1>3 DEF RunOK, InHandOK, RunTyped, Synced
<1>5. Proof(e, c, p)
  BY <1>3, <1>4 DEF Proof, Recorded
<1>6. /\ run[p].contract = contract /\ run[p].sha = head /\ run[p].dirty = Dirty
      /\ run[p].contract_hash = contract /\ run[p].registry_hash = config
  BY <1>1, <1>2 DEF Synced, Early
<1>7. /\ e.contract_hash = contract /\ e.registry_hash = config
      /\ e.commit_sha = head /\ e.workspace_dirty = Dirty
  BY <1>4, <1>6 DEF InContextOf
<1>8. PICK i \in DOMAIN Ir[contract].plan :
        LET v == Ir[contract].plan[i]
        IN  /\ e.claim = v.claim
            /\ RunsUnder(v, config, e.binding_hash)
            /\ e.spec = RunsFor(v, config, e.binding_hash)
  BY <1>4, <1>7 DEF Sourced
<1> DEFINE v == Ir[contract].plan[i]
           base == BaseSpec(RegistryOf(config), v.verifier_ref)
<1>9. i \in DOMAIN Plan(p) /\ v = Plan(p)[i] /\ v.claim = c
  BY <1>3, <1>6, <1>8 DEF Plan
<1>10. e.binding_hash \in {NoHash, bindings[c]}
  BY <1>3, <1>4 DEF StillCurrent
<1>11. /\ e.claim = v.claim
       /\ RunsUnder(v, config, e.binding_hash)
       /\ e.spec = RunsFor(v, config, e.binding_hash)
  BY <1>8
<1> HIDE DEF v
<1>12. NeedsBinding(v, base) => Authorizes(e.binding_hash, v, base)
  BY <1>11 DEF RunsUnder
<1>13. e.binding_hash = Authorization(bindings[c], v, base)
  <2>1. CASE NeedsBinding(v, base)
    <3>1. e.binding_hash # NoHash
      BY <1>12, <2>1 DEF Authorizes
    <3> QED BY <1>10, <2>1, <3>1 DEF Authorization
  <2>2. CASE ~NeedsBinding(v, base)
    BY <1>11, <2>2 DEF RunsUnder, Authorization
  <2> QED BY <2>1, <2>2
<1>14. e.spec = Required(v)
  BY <1>9, <1>11, <1>13 DEF RunsFor, Required
<1> QED BY <1>4, <1>5, <1>7, <1>9, <1>12, <1>13, <1>14

\* No acceptance rests on evidence gathered without the present authorization.
LEMMA AuthorizedByInvariant == IInv /\ WInv => AcceptedIsAuthorized
<1> SUFFICES ASSUME IInv, WInv, ~disturbed, NEW p \in Proc, Accepted(p), NEW c \in Demanded(p)
             PROVE  \E i \in DOMAIN Gathering(p), j \in DOMAIN Plan(p) :
                      LET e == Gathering(p)[i]
                          v == Plan(p)[j]
                          spec == BaseSpec(RegistryOf(config), v.verifier_ref)
                      IN  /\ Proof(e, c, p) /\ v.claim = c
                          /\ NeedsBinding(v, spec) =>
                               /\ e.binding_hash = bindings[c]
                               /\ e.binding_hash.verifier_ref = v.verifier_ref
                               /\ e.binding_hash.requirement = v.requirement
  BY DEF AcceptedIsAuthorized
<1>1. PICK e \in InHand(p), j \in DOMAIN Plan(p) :
        LET v == Plan(p)[j]
            base == BaseSpec(RegistryOf(config), v.verifier_ref)
        IN  /\ Proof(e, c, p) /\ v.claim = c
            /\ e.binding_hash = Authorization(bindings[c], v, base)
            /\ NeedsBinding(v, base) => Authorizes(e.binding_hash, v, base)
  BY Acceptance
<1>2. e \in Elements(Gathering(p))
  BY ConcatElements DEF IInv, RunOK, Gathering, InHand
<1>3. PICK i \in DOMAIN Gathering(p) : e = Gathering(p)[i]
  BY <1>2 DEF Elements
<1> QED BY <1>1, <1>3 DEF Authorization, Authorizes

\* The verifier of an accepted claim passes on the files that are there.
LEMMA TrueByInvariant == IInv /\ WInv => AcceptedIsTrue
<1> SUFFICES ASSUME IInv, WInv, ~disturbed, NEW p \in Proc, Accepted(p), NEW c \in Demanded(p)
             PROVE  \E i \in DOMAIN Plan(p) :
                      /\ Plan(p)[i].claim = c
                      /\ LET spec == Required(Plan(p)[i]) IN
                           Passes(spec, tree) \/ (~GitTellsContent /\ ~WatchesItsSubject(spec))
  BY DEF AcceptedIsTrue
<1>1. PICK e \in InHand(p), i \in DOMAIN Plan(p) :
        /\ Proof(e, c, p) /\ EvidenceOK(e) /\ Sourced(e) /\ StillCurrent(e)
        /\ e.commit_sha = head /\ e.workspace_dirty = Dirty
        /\ Plan(p)[i].claim = c /\ e.spec = Required(Plan(p)[i])
  BY Acceptance
<1>2. Passes(e.spec, e.tree) /\ e.tree \in Tree /\ tree \in Tree
  BY <1>1 DEF Proof, EvidenceOK, WInv, TypeOK
<1>3. CASE GitTellsContent
  <2>1. ~Dirty
    BY <1>3 DEF GitTellsContent, Dirty
  <2>2. e.tree \in CleanAt[head]
    BY <1>1, <2>1 DEF Sourced
  <2>3. e.tree = tree
    BY <1>3, <2>2 DEF GitTellsContent
  <2> QED BY <1>1, <1>2, <2>3
<1>4. CASE WatchesItsSubject(e.spec)
  <2>1. Watched[e.spec.files][e.tree] = Watched[e.spec.files][tree]
    BY <1>1, <1>4 DEF StillCurrent, WatchesItsSubject
  <2>2. Passes(e.spec, tree)
    BY <1>2, <1>4, <2>1 DEF WatchesItsSubject
  <2> QED BY <1>1, <2>2
<1>5. CASE ~GitTellsContent /\ ~WatchesItsSubject(e.spec)
  BY <1>1, <1>5
<1> QED BY <1>3, <1>4, <1>5

\* In a workspace nobody edits under a running `uni verify`, an acceptance
\* rests, for every demanded claim, on evidence gathered under the present
\* authorization of the claim: for any number of processes, any cache content
\* left by earlier contracts, registries and bindings, and any crash.
THEOREM AcceptedOnlyIfAuthorized == Spec => []AcceptedIsAuthorized
  BY AlwaysW, AuthorizedByInvariant, PTL

\* No false acceptance: in such a workspace the verifier that the present
\* contract, registry and authorization ask for passes on the files that are
\* there, for every demanded claim, unless it does not watch what it checks in
\* a workspace whose content git does not tell: changes that are not committed,
\* files that are not tracked, no repository or no git.
THEOREM AcceptedOnlyIfTrue == Spec => []AcceptedIsTrue
  BY AlwaysW, TrueByInvariant, PTL

---------------------------------------------------------------------------
(* Drift, one run after the other *)

\* What a decided run has read of stale.json is what is still there.
DInv == \A p \in Proc : At(p, "decided") => run[p].drift = drift

\* A run gets to "decided" by deciding; every other step leaves there, or
\* touches neither the run nor the drift on disk.
LEMMA DecidedStep ==
  ASSUME IInv, [Next]_vars, NEW q \in Proc, At(q, "decided")'
  PROVE  \/ MakeDecision(q)
         \/ run' = run /\ drift' = drift
         \/ \E p \in Proc : p # q /\ (LoadContract(p) \/ Step(p) \/ PersistFails(p) \/ Crash(p))
<1>0. /\ DOMAIN run = Proc /\ DOMAIN run[q] = RunField /\ IdleRun.pc = "idle"
      /\ DOMAIN IdleRun = RunField
  BY IdleFields DEF IInv, RunOK
<1>1. CASE World \/ UNCHANGED vars
  BY <1>1 DEF World, Edit, EditFiles, Commit, Checkout, EditContract, EditConfig, Bind, Tick,
              disk, vars
<1>2. ASSUME NEW r, Become(q, r), r.pc # "decided" PROVE FALSE
  BY <1>0, <1>2, BecomeFacts DEF At
<1> USE <1>0 DEF RunField
<1>3. ~LoadContract(q) /\ ~PersistFails(q) /\ ~Crash(q)
  <2>1. CASE LoadContract(q)
    <3> DEFINE r == [IdleRun EXCEPT !.pc = "opened", !.id = runs + 1, !.contract = contract]
    <3>1. Become(q, r) /\ r.pc = "opened"
      BY <2>1 DEF LoadContract
    <3> QED BY <1>2, <3>1
  <2>2. CASE PersistFails(q) \/ Crash(q)
    BY <1>2, <2>2 DEF PersistFails, Crash
  <2> QED BY <2>1, <2>2
<1>4. CASE Step(q)
  <2>1. CASE SampleGit(q) \/ LoadRegistry(q) \/ HashContext(q)
    <3>1. CASE SampleGit(q)
      BY <1>0, <3>1 DEF SampleGit, Local, Become, At
    <3>2. CASE LoadRegistry(q)
      BY <1>0, <3>2 DEF LoadRegistry, Local, Become, At
    <3>3. CASE HashContext(q)
      BY <1>0, <3>3 DEF HashContext, Local, Become, At
    <3> QED BY <2>1, <3>1, <3>2, <3>3
  <2>2. CASE LookupRefused(q) \/ UnknownVerifier(q) \/ GiveUp(q) \/ ReleaseLock(q)
    BY <1>2, <2>2 DEF LookupRefused, UnknownVerifier, GiveUp, Abort, Local, ReleaseLock
  <2>3. CASE LookupHit(q) \/ LookupStale(q) \/ LookupMiss(q)
    <3>1. PICK r : Become(q, r) /\ r.pc = run[q].pc /\ run[q].pc = "lookup"
      BY <2>3 DEF LookupHit, LookupStale, LookupMiss, Lookup, LookingUp, At, Local
    <3> QED BY <1>2, <3>1
  <2>4. CASE ResolvePolicy(q) \/ RunVerifier(q) \/ RecordEvidence(q) \/ SaveDrift(q)
    <3>1. CASE ResolvePolicy(q)
      BY <1>0, <3>1 DEF ResolvePolicy, Local, Become, At
    <3>2. CASE RunVerifier(q)
      BY <1>0, <3>2 DEF RunVerifier, Local, Become, At
    <3>3. CASE RecordEvidence(q)
      BY <1>0, <3>3 DEF RecordEvidence, Local, Become, At
    <3>4. CASE SaveDrift(q)
      BY <1>0, <3>4 DEF SaveDrift, Become, At
    <3> QED BY <2>4, <3>1, <3>2, <3>3, <3>4
  <2>5. CASE \/ AcquireLock(q) \/ SaveEvidence(q) \/ AppendJournal(q) \/ SaveLast(q)
             \/ WriteBaseline(q) \/ WriteSnapshot(q)
    BY <2>5, Acquires, Saves, Journals, Publishes, Acknowledges, Snapshots DEF Onward, At
  <2>6. CASE ReapLock(q)
    BY <2>6 DEF ReapLock, disk
  <2> QED BY <1>4, <2>1, <2>2, <2>3, <2>4, <2>5, <2>6 DEF Step
<1> QED BY <1>1, <1>3, <1>4 DEF Next

\* The drift of the only process is the one on disk until it writes its own.
LEMMA NextDInv ==
  ASSUME \A p, q \in Proc : p = q
  PROVE  IInv /\ DInv /\ [Next]_vars => DInv'
<1> SUFFICES ASSUME IInv, DInv, [Next]_vars, NEW q \in Proc, At(q, "decided")'
             PROVE  run'[q].drift = drift'
  BY DEF DInv, At
<1>1. CASE MakeDecision(q)
  <2> DEFINE r == [run[q] EXCEPT !.pc = "decided", !.drift = drift, !.result = Verdict(q)]
  <2>1. Become(q, r) /\ drift' = drift /\ DOMAIN run[q] = RunField
    BY <1>1 DEF MakeDecision, Verdict, Local, disk, IInv, RunOK
  <2>2. r.drift = drift
    BY <2>1 DEF RunField
  <2> QED BY <2>1, <2>2, BecomeFacts DEF IInv
<1>2. CASE run' = run /\ drift' = drift
  BY <1>2 DEF DInv, At
<1> QED BY <1>1, <1>2, DecidedStep

\* Only a run that has decided writes the drift record, and it drops a claim
\* only if it has just verified it.
LEMMA DriftStep ==
  ASSUME IInv, DInv, [Next]_vars, drift' # drift,
         NEW c \in Claim, drift[c] # {}, drift'[c] = {}
  PROVE  \E p \in Proc : At(p, "decided") /\ At(p, "acquire")' /\ c \in Renewed(p)
<1>1. PICK p \in Proc : SaveDrift(p)
  <2>1. ~World /\ ~UNCHANGED vars
    BY DEF World, Edit, EditFiles, Commit, Checkout, EditContract, EditConfig, Bind, Tick,
           vars, disk
  <2>2. PICK p \in Proc : LoadContract(p) \/ Step(p) \/ PersistFails(p) \/ Crash(p)
    BY <2>1 DEF Next
  <2>3. SaveDrift(p)
    BY <2>2 DEF Step, LoadContract, SampleGit, LoadRegistry, HashContext, LookupRefused,
                LookupHit, LookupStale, LookupMiss, ResolvePolicy, UnknownVerifier, RunVerifier,
                RecordEvidence, MakeDecision, AcquireLock, ReapLock, GiveUp, SaveEvidence,
                AppendJournal, SaveLast, WriteBaseline, WriteSnapshot, ReleaseLock,
                PersistFails, Crash, Abort, Local, disk
  <2> QED BY <2>3
<1> DEFINE r == [run[p] EXCEPT !.pc = "acquire", !.drift = drift']
<1>2. At(p, "decided") /\ drift' = DriftRecord(p) /\ Become(p, r)
  BY <1>1 DEF SaveDrift
<1>3. r.pc = "acquire" /\ DOMAIN run[p] = RunField
  BY DEF IInv, RunOK, RunField
<1>4. At(p, "acquire")'
  BY <1>2, <1>3, BecomeFacts DEF At, IInv
<1>5. run[p].drift = drift
  BY <1>2 DEF DInv
<1>6. c \in Renewed(p)
  BY <1>2, <1>5 DEF DriftRecord
<1> QED BY <1>2, <1>4, <1>6

\* As long as runs follow one another, stale.json forgets the drift of a claim
\* only in a run that has just verified the claim: no decision, no failure of a
\* later run and no crash in between loses it.  (Two at once may both read the
\* record before either writes it.)
THEOREM DriftIsKept ==
  ASSUME \A p, q \in Proc : p = q
  PROVE  Spec => DriftRemembered
<1>1. Init => DInv
  BY IdleFields DEF Init, DInv, At
<1>2. IInv /\ DInv /\ [Next]_vars => DInv'
  BY NextDInv
<1>3. IInv /\ DInv /\ [Next]_vars =>
        [\A c \in Claim : drift[c] # {} /\ drift'[c] = {} =>
           \E p \in Proc : At(p, "decided") /\ At(p, "acquire")' /\ c \in Renewed(p)]_drift
  BY DriftStep
<1> QED BY <1>1, <1>2, <1>3, Invariance, PTL DEF Spec, DriftRemembered

---------------------------------------------------------------------------
(***************************************************************************)
(* The decision on disk and the evidence on disk, one run after the other. *)
(*                                                                         *)
(* A slot is what a verification has to itself in the cache, as far as the *)
(* contract shows: its claim, its verifier and, while no registry has an   *)
(* entry named "shell", its inline command.                                *)
(***************************************************************************)

NoShellEntry == \A g \in Config : "shell" \notin DOMAIN RegistryOf(g)

Slot(claim, ref, cmd) ==
  <<claim, ref, IF ref = "shell" /\ NoShellEntry THEN cmd ELSE NoHash>>

SlotOf(v) == Slot(v.claim, v.verifier_ref, v.inline_shell)

SlotOfProof(e) == Slot(e.claim, e.fingerprint[1], e.fingerprint[2])

\* No contract has a claim verified twice by the same verifier or inline command.
ProvedOnce ==
  \A k \in Contract : \A i, j \in DOMAIN Ir[k].plan :
    SlotOf(Ir[k].plan[i]) = SlotOf(Ir[k].plan[j]) => i = j

---------------------------------------------------------------------------
(* The inductive invariant *)

\* The fingerprint of a proof is one of a spec, not of an unresolved command.
OfSpec(e) == Len(e.fingerprint) = 6

JobSlotted(job) ==
  /\ job.claim = job.verification.claim
  /\ job.verification.verifier_ref = "shell" /\ NoShellEntry => job.spec = NoHash

StoredSlots(p) == {SlotOfProof(e) : e \in Elements(run[p].stored)}
FreshSlots(p)  == {SlotOfProof(e) : e \in Elements(run[p].fresh)}
NeedSlots(p)   == {SlotOf(job.verification) : job \in Elements(run[p].need)}

ApartProofs(s) ==
  \A i, j \in DOMAIN s : SlotOfProof(s[i]) = SlotOfProof(s[j]) => i = j

ApartJobs(s) ==
  \A i, j \in DOMAIN s : SlotOf(s[i].verification) = SlotOf(s[j].verification) => i = j

\* Whatever a run has taken, made or still has to make has a slot to itself.
Apart(p) ==
  /\ ApartProofs(run[p].fresh) /\ ApartJobs(run[p].need)
  /\ StoredSlots(p) \cap FreshSlots(p) = {}
  /\ StoredSlots(p) \cap NeedSlots(p) = {}
  /\ FreshSlots(p) \cap NeedSlots(p) = {}
  /\ At(p, "lookup") =>
       /\ run[p].fresh = << >>
       /\ \A i \in DOMAIN Plan(p) :
            i >= run[p].next => SlotOf(Plan(p)[i]) \notin StoredSlots(p) \cup NeedSlots(p)

HandOK(p) ==
  /\ \A e \in Elements(run[p].stored) : e \in evidence
  /\ \A e \in Elements(run[p].fresh) : OfSpec(e)
  /\ \A job \in Elements(run[p].need) : JobSlotted(job)
  /\ Apart(p)

HInv ==
  /\ \A e \in evidence : OfSpec(e)
  /\ \A p \in Proc : HandOK(p)

\* The claims of a decision have their proofs in hand; from the journal record
\* on they are all saved.
ClaimsOK(p) ==
  /\ run[p].pc \in {"decided", "acquire"} \cup Persisting =>
       \A c \in Renewed(p) : \E e \in InHand(p) : e.claim = c /\ e.state = ValidState
  /\ run[p].pc \in Persisting \ {"save"} => run[p].fresh = << >>

\* What last.json says is on disk, but while a run rewrites evidence that it has
\* not decided about on disk yet.
Backed ==
  last # NoHash =>
    \A c \in DOMAIN last.claims : last.claims[c] = "Valid" =>
      \E e \in evidence : e.claim = c /\ e.state = ValidState /\ e.commit_sha = last.commit

BInv ==
  /\ \A p \in Proc : ClaimsOK(p)
  /\ crashes = 0 /\ (\A p \in Proc : run[p].pc \notin {"save", "journaled"}) => Backed

---------------------------------------------------------------------------
(* Slots in sequences *)

\* A proof in a new slot leaves the proofs of a sequence apart.
LEMMA AppendApartProofs ==
  ASSUME NEW s, IsSeq(s), ApartProofs(s), NEW e,
         \A f \in Elements(s) : SlotOfProof(f) # SlotOfProof(e)
  PROVE  ApartProofs(Append(s, e))
<1> DEFINE S == Elements(s) \cup {e}
<1>1. s \in Seq(S) /\ e \in S
  BY DEF IsSeq
<1> HIDE DEF S
<1>2. /\ DOMAIN s = 1..Len(s) /\ Len(s) \in Nat
      /\ DOMAIN Append(s, e) = 1..(Len(s) + 1)
      /\ Append(s, e)[Len(s) + 1] = e
      /\ \A i \in 1..Len(s) : Append(s, e)[i] = s[i]
  BY <1>1
<1>3. \A i \in 1..Len(s) : SlotOfProof(s[i]) # SlotOfProof(e)
  BY <1>2 DEF Elements
<1>4. \A i, j \in 1..Len(s) : SlotOfProof(s[i]) = SlotOfProof(s[j]) => i = j
  BY <1>2 DEF ApartProofs
<1> SUFFICES ASSUME NEW i \in 1..(Len(s) + 1), NEW j \in 1..(Len(s) + 1),
                    SlotOfProof(Append(s, e)[i]) = SlotOfProof(Append(s, e)[j])
             PROVE  i = j
  BY <1>2 DEF ApartProofs
<1>5. CASE i \in 1..Len(s) /\ j \in 1..Len(s)
  BY <1>2, <1>4, <1>5
<1>6. CASE i = Len(s) + 1 /\ j \in 1..Len(s)
  BY <1>2, <1>3, <1>6
<1>7. CASE j = Len(s) + 1 /\ i \in 1..Len(s)
  BY <1>2, <1>3, <1>7
<1> QED BY <1>2, <1>5, <1>6, <1>7

\* The same of jobs.
LEMMA AppendApartJobs ==
  ASSUME NEW s, IsSeq(s), ApartJobs(s), NEW e,
         \A f \in Elements(s) : SlotOf(f.verification) # SlotOf(e.verification)
  PROVE  ApartJobs(Append(s, e))
<1> DEFINE S == Elements(s) \cup {e}
<1>1. s \in Seq(S) /\ e \in S
  BY DEF IsSeq
<1> HIDE DEF S
<1>2. /\ DOMAIN s = 1..Len(s) /\ Len(s) \in Nat
      /\ DOMAIN Append(s, e) = 1..(Len(s) + 1)
      /\ Append(s, e)[Len(s) + 1] = e
      /\ \A i \in 1..Len(s) : Append(s, e)[i] = s[i]
  BY <1>1
<1>3. \A i \in 1..Len(s) : SlotOf(s[i].verification) # SlotOf(e.verification)
  BY <1>2 DEF Elements
<1>4. \A i, j \in 1..Len(s) :
        SlotOf(s[i].verification) = SlotOf(s[j].verification) => i = j
  BY <1>2 DEF ApartJobs
<1> SUFFICES ASSUME NEW i \in 1..(Len(s) + 1), NEW j \in 1..(Len(s) + 1),
                    SlotOf(Append(s, e)[i].verification) = SlotOf(Append(s, e)[j].verification)
             PROVE  i = j
  BY <1>2 DEF ApartJobs
<1>5. CASE i \in 1..Len(s) /\ j \in 1..Len(s)
  BY <1>2, <1>4, <1>5
<1>6. CASE i = Len(s) + 1 /\ j \in 1..Len(s)
  BY <1>2, <1>3, <1>6
<1>7. CASE j = Len(s) + 1 /\ i \in 1..Len(s)
  BY <1>2, <1>3, <1>7
<1> QED BY <1>2, <1>5, <1>6, <1>7

\* Among proofs that are apart the head has its slot to itself.
LEMMA TailApartProofs ==
  ASSUME NEW s, IsSeq(s), s # << >>, ApartProofs(s)
  PROVE  /\ ApartProofs(Tail(s))
         /\ \A f \in Elements(Tail(s)) : SlotOfProof(f) # SlotOfProof(Head(s))
<1> DEFINE S == Elements(s)
<1>1. s \in Seq(S)
  BY DEF IsSeq
<1> HIDE DEF S
<1>2. /\ DOMAIN s = 1..Len(s) /\ Len(s) \in Nat /\ Len(s) >= 1
      /\ DOMAIN Tail(s) = 1..(Len(s) - 1)
      /\ Head(s) = s[1]
      /\ \A i \in 1..(Len(s) - 1) : i + 1 \in 1..Len(s) /\ Tail(s)[i] = s[i + 1]
  BY <1>1
<1>3. \A i, j \in 1..Len(s) : SlotOfProof(s[i]) = SlotOfProof(s[j]) => i = j
  BY <1>2 DEF ApartProofs
<1>4. ASSUME NEW i \in 1..(Len(s) - 1), NEW j \in 1..(Len(s) - 1),
             SlotOfProof(Tail(s)[i]) = SlotOfProof(Tail(s)[j])
      PROVE  i = j
  <2>1. i + 1 = j + 1
    BY <1>2, <1>3, <1>4
  <2> QED BY <2>1
<1>5. ASSUME NEW i \in 1..(Len(s) - 1)
      PROVE  SlotOfProof(Tail(s)[i]) # SlotOfProof(Head(s))
  <2>1. i + 1 # 1 /\ 1 \in 1..Len(s)
    BY <1>2
  <2> QED BY <1>2, <1>3, <2>1
<1> QED BY <1>2, <1>4, <1>5 DEF ApartProofs, Elements

\* The same of jobs.
LEMMA TailApartJobs ==
  ASSUME NEW s, IsSeq(s), s # << >>, ApartJobs(s)
  PROVE  /\ ApartJobs(Tail(s))
         /\ \A f \in Elements(Tail(s)) : SlotOf(f.verification) # SlotOf(Head(s).verification)
<1> DEFINE S == Elements(s)
<1>1. s \in Seq(S)
  BY DEF IsSeq
<1> HIDE DEF S
<1>2. /\ DOMAIN s = 1..Len(s) /\ Len(s) \in Nat /\ Len(s) >= 1
      /\ DOMAIN Tail(s) = 1..(Len(s) - 1)
      /\ Head(s) = s[1]
      /\ \A i \in 1..(Len(s) - 1) : i + 1 \in 1..Len(s) /\ Tail(s)[i] = s[i + 1]
  BY <1>1
<1>3. \A i, j \in 1..Len(s) :
        SlotOf(s[i].verification) = SlotOf(s[j].verification) => i = j
  BY <1>2 DEF ApartJobs
<1>4. ASSUME NEW i \in 1..(Len(s) - 1), NEW j \in 1..(Len(s) - 1),
             SlotOf(Tail(s)[i].verification) = SlotOf(Tail(s)[j].verification)
      PROVE  i = j
  <2>1. i + 1 = j + 1
    BY <1>2, <1>3, <1>4
  <2> QED BY <2>1
<1>5. ASSUME NEW i \in 1..(Len(s) - 1)
      PROVE  SlotOf(Tail(s)[i].verification) # SlotOf(Head(s).verification)
  <2>1. i + 1 # 1 /\ 1 \in 1..Len(s)
    BY <1>2
  <2> QED BY <1>2, <1>3, <2>1
<1> QED BY <1>2, <1>4, <1>5 DEF ApartJobs, Elements

\* Nothing is in the slots of nothing.
LEMMA NothingApart ==
  /\ ApartProofs(<< >>) /\ ApartJobs(<< >>) /\ Elements(<< >>) = {}
  BY DEF ApartProofs, ApartJobs, Elements

---------------------------------------------------------------------------
(* Slots of the cache *)

\* What the cache knows a resolved verification by is of a spec, and so is
\* never in the slot of an inline command.
LEMMA HitSlot ==
  ASSUME NEW p \in Proc, run[p].config \in Config, NEW file \in evidence, OfSpec(file),
         Lookup(p, file), CacheOutcome(file, Context(p), now) = "Hit"
  PROVE  SlotOfProof(file) = SlotOf(Verification(p))
<1> DEFINE v == Verification(p)
<1>1. /\ file.claim = v.claim
      /\ file.fingerprint = LookupFingerprint(v, Resolved(p), ActorOf[p])
  BY FoundFile DEF Context
<1>2. Resolved(p) # NoHash
  <2>1. Len(<<"inline", v.verifier_ref, ActorOf[p]>>) = 3
    OBVIOUS
  <2> QED BY <1>1, <2>1 DEF OfSpec, LookupFingerprint
<1>3. file.fingerprint[1] = v.verifier_ref
  BY <1>1, <1>2 DEF LookupFingerprint, SpecFingerprint
<1>4. ~(v.verifier_ref = "shell" /\ NoShellEntry)
  <2> SUFFICES ASSUME v.verifier_ref = "shell", NoShellEntry PROVE FALSE
    OBVIOUS
  <2>1. Base(p) = NoHash
    BY DEF NoShellEntry, Base, BaseSpec
  <2> QED BY <1>2, <2>1 DEF Resolved, WithSelector, IsTemplate
<1> QED BY <1>1, <1>3, <1>4 DEF SlotOfProof, SlotOf, Slot

\* A job keeps the slot of the verification it was made for.
LEMMA JobSlot ==
  ASSUME NEW p \in Proc, run[p].config \in Config
  PROVE  JobSlotted(Job(p)) /\ Job(p).verification = Verification(p)
<1>1. /\ Job(p).claim = Verification(p).claim /\ Job(p).verification = Verification(p)
      /\ Job(p).spec = Resolved(p)
  BY DEF Job
<1>2. ASSUME Verification(p).verifier_ref = "shell", NoShellEntry PROVE Resolved(p) = NoHash
  <2>1. Base(p) = NoHash
    BY <1>2 DEF NoShellEntry, Base, BaseSpec
  <2> QED BY <2>1 DEF Resolved, WithSelector, IsTemplate
<1> QED BY <1>1, <1>2 DEF JobSlotted

\* The evidence of a job is recorded in the slot of its verification.
LEMMA RecordedSlot ==
  ASSUME NEW p \in Proc, JobSlotted(Pending(p)), SpecToRun(p) # NoHash
  PROVE  LET e == Rechecked(Gathered(p), p)
         IN  OfSpec(e) /\ SlotOfProof(e) = SlotOf(Pending(p).verification)
<1> DEFINE e == Rechecked(Gathered(p), p)
           v == Pending(p).verification
<1>1. /\ e.claim = Pending(p).claim
      /\ e.fingerprint = SpecFingerprint(v.verifier_ref, SpecToRun(p), ActorOf[p])
  BY GatheredFields, RecheckedFields
<1> HIDE DEF e
<1>2. /\ Len(e.fingerprint) = 6 /\ e.fingerprint[1] = v.verifier_ref
      /\ e.fingerprint[2] = SpecToRun(p).run
  BY <1>1 DEF SpecFingerprint
<1>3. ASSUME v.verifier_ref = "shell", NoShellEntry PROVE SpecToRun(p).run = v.inline_shell
  <2>1. SpecToRun(p) = ResolveCommand(v, RegistryOf(run[p].config))
    BY <1>3 DEF JobSlotted, SpecToRun
  <2>2. SpecToRun(p) = ShellSpec(v.inline_shell)
    BY <1>3, <2>1 DEF ResolveCommand
  <2> QED BY <2>2 DEF ShellSpec
<1>4. SlotOfProof(e) = SlotOf(v)
  BY <1>1, <1>2, <1>3 DEF SlotOfProof, SlotOf, Slot, JobSlotted
<1> QED BY <1>2, <1>4 DEF OfSpec, e

---------------------------------------------------------------------------
(* Every step keeps what a run has in hand apart *)

\* The run of the only process and the cache.
LEMMA OnlyHand ==
  ASSUME \A p, q \in Proc : p = q, NEW p \in Proc, HandOK(p)', \A e \in evidence' : OfSpec(e)
  PROVE  HInv'
<1>1. \A q \in Proc : HandOK(q)'
  BY Zenon
<1> QED BY <1>1 DEF HInv

\* A run and a cache nobody touches.
LEMMA UntouchedHand == HInv /\ run' = run /\ evidence' = evidence => HInv'
  BY DEF HInv, HandOK, Apart, StoredSlots, FreshSlots, NeedSlots, At, Plan

\* A run with nothing in hand.
LEMMA NothingInHand ==
  ASSUME NEW p \in Proc, run'[p].stored = << >>, run'[p].fresh = << >>, run'[p].need = << >>
  PROVE  HandOK(p)'
<1>1. StoredSlots(p)' = {} /\ FreshSlots(p)' = {} /\ NeedSlots(p)' = {}
  BY NothingApart DEF StoredSlots, FreshSlots, NeedSlots
<1>2. Apart(p)'
  BY <1>1, NothingApart DEF Apart
<1> QED BY <1>2, NothingApart DEF HandOK

\* A step after the lookups that leaves alone what the run has in hand.
LEMMA HandStays ==
  ASSUME NEW p \in Proc, HandOK(p), evidence' = evidence,
         run'[p].stored = run[p].stored, run'[p].fresh = run[p].fresh,
         run'[p].need = run[p].need, run'[p].pc # "lookup"
  PROVE  HandOK(p)'
  BY DEF HandOK, Apart, StoredSlots, FreshSlots, NeedSlots, At

\* The slot of the verification that is looked up is free, and it is not the
\* slot of one that is still to be looked up.
LEMMA NextSlot ==
  ASSUME ProvedOnce, WInv, NEW p \in Proc, HandOK(p), LookingUp(p)
  PROVE  /\ SlotOf(Verification(p)) \notin StoredSlots(p) \cup NeedSlots(p)
         /\ \A i \in DOMAIN Plan(p) : i >= run[p].next + 1 =>
              /\ SlotOf(Plan(p)[i]) # SlotOf(Verification(p))
              /\ SlotOf(Plan(p)[i]) \notin StoredSlots(p) \cup NeedSlots(p)
<1>1. /\ run[p].contract \in Contract
      /\ run[p].next \in DOMAIN Plan(p) /\ run[p].next \in Nat
  BY InPlan DEF WInv, RunTyped, LookingUp, At, Plan
<1>2. \A i \in DOMAIN Plan(p) : i \in Nat
  <2> DEFINE plan == Ir[run[p].contract].plan
  <2>1. plan \in Seq({plan[i] : i \in DOMAIN plan})
    BY <1>1, PlansExist
  <2>2. DOMAIN plan = 1..Len(plan) /\ Len(plan) \in Nat
    BY <2>1
  <2> QED BY <2>2 DEF Plan
<1>3. \A i, j \in DOMAIN Plan(p) : SlotOf(Plan(p)[i]) = SlotOf(Plan(p)[j]) => i = j
  BY <1>1 DEF ProvedOnce, Plan
<1>4. \A i \in DOMAIN Plan(p) :
        i >= run[p].next => SlotOf(Plan(p)[i]) \notin StoredSlots(p) \cup NeedSlots(p)
  BY DEF HandOK, Apart, LookingUp
<1>5. \A i \in DOMAIN Plan(p) : i >= run[p].next + 1 => i >= run[p].next /\ i # run[p].next
  BY <1>1, <1>2
<1>6. run[p].next >= run[p].next
  BY <1>1
<1> QED BY <1>1, <1>3, <1>4, <1>5, <1>6 DEF Verification

\* A hit is in the slot of its verification.
LEMMA HitH ==
  ASSUME \A p, q \in Proc : p = q, ProvedOnce, IInv, WInv, HInv, NEW p \in Proc, LookupHit(p)
  PROVE  HInv'
<1>1. PICK file \in evidence :
        /\ Lookup(p, file)
        /\ CacheOutcome(file, Context(p), now) = "Hit"
        /\ Local(p, [run[p] EXCEPT !.next = @ + 1, !.stored = Append(@, file)])
  BY DEF LookupHit
<1> DEFINE r == [run[p] EXCEPT !.next = @ + 1, !.stored = Append(@, file)]
<1>2. LookingUp(p) /\ Become(p, r) /\ evidence' = evidence
  BY <1>1 DEF Lookup, Local, disk
<1>3. RunOK(p) /\ HandOK(p) /\ OfSpec(file) /\ run[p].config \in Config
  BY <1>2, InPlan DEF IInv, HInv
<1>4. /\ r.stored = Append(run[p].stored, file) /\ r.fresh = run[p].fresh
      /\ r.need = run[p].need /\ r.contract = run[p].contract
      /\ r.next = run[p].next + 1 /\ r.pc = run[p].pc
  BY <1>3 DEF RunOK, RunField
<1> HIDE DEF r
<1>5. run'[p] = r
  BY <1>2, BecomeFacts DEF IInv
<1> DEFINE slot == SlotOf(Verification(p))
<1>6. SlotOfProof(file) = slot
  BY <1>1, <1>3, HitSlot
<1>7. /\ slot \notin StoredSlots(p) \cup NeedSlots(p)
      /\ \A i \in DOMAIN Plan(p) : i >= run[p].next + 1 =>
           SlotOf(Plan(p)[i]) # slot /\ SlotOf(Plan(p)[i]) \notin StoredSlots(p) \cup NeedSlots(p)
  BY <1>2, <1>3, NextSlot
<1> HIDE DEF slot
<1>8. Elements(r.stored) = Elements(run[p].stored) \cup {file}
  BY <1>3, <1>4, AppendElements DEF RunOK
<1>9. /\ StoredSlots(p)' = StoredSlots(p) \cup {slot}
      /\ FreshSlots(p)' = FreshSlots(p) /\ NeedSlots(p)' = NeedSlots(p)
  BY <1>4, <1>5, <1>6, <1>8 DEF StoredSlots, FreshSlots, NeedSlots
<1>10. run[p].fresh = << >> /\ FreshSlots(p) = {}
  BY <1>2, <1>3, NothingApart DEF HandOK, Apart, LookingUp, FreshSlots
<1>11. Plan(p)' = Plan(p)
  BY <1>4, <1>5 DEF Plan
<1>12. Apart(p)'
  BY <1>3, <1>4, <1>5, <1>7, <1>9, <1>10, <1>11 DEF HandOK, Apart
<1>13. HandOK(p)'
  BY <1>2, <1>3, <1>4, <1>5, <1>8, <1>12 DEF HandOK
<1> QED BY <1>2, <1>13, OnlyHand DEF HInv

\* A verification that is left to be run keeps its slot.
LEMMA NeededH ==
  ASSUME \A p, q \in Proc : p = q, ProvedOnce, IInv, WInv, HInv, NEW p \in Proc,
         LookupStale(p) \/ LookupMiss(p)
  PROVE  HInv'
<1>1. PICK stale \in [Claim -> SUBSET StaleReason] :
        /\ LookingUp(p) /\ ~BindingMissing(p)
        /\ Local(p, [run[p] EXCEPT !.next = @ + 1, !.need = Append(@, Job(p)), !.stale = stale])
  BY LeftToRun
<1> DEFINE job == Job(p)
           r == [run[p] EXCEPT !.next = @ + 1, !.need = Append(@, job), !.stale = stale]
<1>2. LookingUp(p) /\ Become(p, r) /\ evidence' = evidence
  BY <1>1 DEF Local, disk
<1>3. RunOK(p) /\ RunTyped(p) /\ HandOK(p) /\ run[p].config \in Config
  BY <1>2, InPlan DEF IInv, WInv, HInv
<1> DEFINE slot == SlotOf(Verification(p))
<1>4. JobSlotted(job) /\ SlotOf(job.verification) = slot
  BY <1>3, JobSlot
<1> HIDE DEF job
<1>5. /\ r.stored = run[p].stored /\ r.fresh = run[p].fresh
      /\ r.need = Append(run[p].need, job) /\ r.contract = run[p].contract
      /\ r.next = run[p].next + 1 /\ r.pc = run[p].pc
  BY <1>3 DEF RunOK, RunField
<1> HIDE DEF r
<1>6. run'[p] = r
  BY <1>2, BecomeFacts DEF IInv
<1>7. /\ slot \notin StoredSlots(p) \cup NeedSlots(p)
      /\ \A i \in DOMAIN Plan(p) : i >= run[p].next + 1 =>
           SlotOf(Plan(p)[i]) # slot /\ SlotOf(Plan(p)[i]) \notin StoredSlots(p) \cup NeedSlots(p)
  BY <1>2, <1>3, NextSlot
<1> HIDE DEF slot
<1>8. Elements(r.need) = Elements(run[p].need) \cup {job}
  BY <1>3, <1>5, AppendElements DEF RunTyped
<1>9. /\ StoredSlots(p)' = StoredSlots(p) /\ FreshSlots(p)' = FreshSlots(p)
      /\ NeedSlots(p)' = NeedSlots(p) \cup {slot}
  BY <1>4, <1>5, <1>6, <1>8 DEF StoredSlots, FreshSlots, NeedSlots
<1>10. run[p].fresh = << >> /\ FreshSlots(p) = {}
  BY <1>2, <1>3, NothingApart DEF HandOK, Apart, LookingUp, FreshSlots
<1>11. Plan(p)' = Plan(p)
  BY <1>5, <1>6 DEF Plan
<1>12. ApartJobs(r.need)
  <2>1. \A f \in Elements(run[p].need) : SlotOf(f.verification) # SlotOf(job.verification)
    BY <1>4, <1>7 DEF NeedSlots
  <2> QED BY <1>3, <1>5, <2>1, AppendApartJobs DEF RunTyped, HandOK, Apart
<1>13. Apart(p)'
  BY <1>3, <1>5, <1>6, <1>7, <1>9, <1>10, <1>11, <1>12 DEF HandOK, Apart
<1>14. HandOK(p)'
  BY <1>2, <1>3, <1>4, <1>5, <1>6, <1>8, <1>13 DEF HandOK
<1> QED BY <1>2, <1>14, OnlyHand DEF HInv

\* What a verifier proves is recorded in the slot of its job.
LEMMA RecordH ==
  ASSUME \A p, q \in Proc : p = q, IInv, WInv, HInv, NEW p \in Proc, RecordEvidence(p)
  PROVE  HInv'
<1> DEFINE e == Rechecked(Gathered(p), p)
           r == [run[p] EXCEPT !.pc = "run", !.outcome = NoHash, !.need = Tail(@),
                               !.fresh = Append(@, e)]
<1>1. At(p, "ran") /\ Become(p, r) /\ evidence' = evidence
  BY DEF RecordEvidence, Local, disk
<1>2. RunOK(p) /\ RunTyped(p) /\ HandOK(p)
  BY DEF IInv, WInv, HInv
<1>3. run[p].need # << >> /\ SpecToRun(p) # NoHash
  BY <1>1, <1>2 DEF RunTyped
<1>4. /\ IsSeq(Tail(run[p].need)) /\ Pending(p) \in Elements(run[p].need)
      /\ Elements(run[p].need) = Elements(Tail(run[p].need)) \cup {Pending(p)}
  BY <1>2, <1>3, TailElements DEF RunTyped, Pending
<1>5. /\ ApartJobs(Tail(run[p].need))
      /\ \A f \in Elements(Tail(run[p].need)) :
           SlotOf(f.verification) # SlotOf(Pending(p).verification)
  BY <1>2, <1>3, TailApartJobs DEF RunTyped, HandOK, Apart, Pending
<1> DEFINE slot == SlotOf(Pending(p).verification)
<1>6. OfSpec(e) /\ SlotOfProof(e) = slot
  BY <1>2, <1>3, <1>4, RecordedSlot DEF HandOK
<1> HIDE DEF e
<1>7. /\ r.stored = run[p].stored /\ r.fresh = Append(run[p].fresh, e)
      /\ r.need = Tail(run[p].need) /\ r.pc = "run"
  BY <1>2 DEF RunOK, RunField
<1> HIDE DEF r
<1>8. run'[p] = r
  BY <1>1, BecomeFacts DEF IInv
<1>9. Elements(r.fresh) = Elements(run[p].fresh) \cup {e}
  BY <1>2, <1>7, AppendElements DEF RunOK
<1>10. slot \in NeedSlots(p)
  BY <1>4 DEF NeedSlots
<1>11. NeedSlots(p)' = NeedSlots(p) \ {slot}
  BY <1>4, <1>5, <1>7, <1>8 DEF NeedSlots
<1> HIDE DEF slot
<1>12. StoredSlots(p)' = StoredSlots(p) /\ FreshSlots(p)' = FreshSlots(p) \cup {slot}
  BY <1>6, <1>7, <1>8, <1>9 DEF StoredSlots, FreshSlots
<1>13. ApartProofs(r.fresh)
  <2>1. \A f \in Elements(run[p].fresh) : SlotOfProof(f) # SlotOfProof(e)
    BY <1>2, <1>6, <1>10 DEF HandOK, Apart, FreshSlots
  <2> QED BY <1>2, <1>7, <2>1, AppendApartProofs DEF RunOK, HandOK, Apart
<1>14. Apart(p)'
  BY <1>2, <1>5, <1>7, <1>8, <1>10, <1>11, <1>12, <1>13 DEF HandOK, Apart, At
<1>15. HandOK(p)'
  BY <1>1, <1>2, <1>4, <1>6, <1>7, <1>8, <1>9, <1>14 DEF HandOK
<1> QED BY <1>1, <1>15, OnlyHand DEF HInv

\* Saving evidence replaces no proof that the run has in hand.
LEMMA SaveH ==
  ASSUME \A p, q \in Proc : p = q, IInv, HInv, NEW p \in Proc, SaveEvidence(p)
  PROVE  HInv'
<1> DEFINE e == Head(run[p].fresh)
           r == [run[p] EXCEPT !.fresh = Tail(@), !.stored = Append(@, e)]
<1>1. /\ At(p, "save") /\ run[p].fresh # << >> /\ Become(p, r) /\ evidence' = Replaced(e)
  BY DEF SaveEvidence
<1>2. RunOK(p) /\ HandOK(p)
  BY DEF IInv, HInv
<1>3. /\ e \in Elements(run[p].fresh)
      /\ Elements(run[p].fresh) = Elements(Tail(run[p].fresh)) \cup {e}
  BY <1>1, <1>2, TailElements DEF RunOK
<1>4. /\ ApartProofs(Tail(run[p].fresh))
      /\ \A f \in Elements(Tail(run[p].fresh)) : SlotOfProof(f) # SlotOfProof(e)
  BY <1>1, <1>2, TailApartProofs DEF RunOK, HandOK, Apart
<1> HIDE DEF e
<1>5. Elements(Append(run[p].stored, e)) = Elements(run[p].stored) \cup {e}
  BY <1>2, AppendElements DEF RunOK
<1>6. /\ r.stored = Append(run[p].stored, e) /\ r.fresh = Tail(run[p].fresh)
      /\ r.need = run[p].need /\ r.pc = run[p].pc
  BY <1>2 DEF RunOK, RunField
<1> HIDE DEF r
<1>7. run'[p] = r
  BY <1>1, BecomeFacts DEF IInv
<1> DEFINE slot == SlotOfProof(e)
<1>8. slot \in FreshSlots(p)
  BY <1>3 DEF FreshSlots
<1>9. /\ StoredSlots(p)' = StoredSlots(p) \cup {slot}
      /\ FreshSlots(p)' = FreshSlots(p) \ {slot} /\ NeedSlots(p)' = NeedSlots(p)
  BY <1>3, <1>4, <1>5, <1>6, <1>7 DEF StoredSlots, FreshSlots, NeedSlots
<1>10. \A f \in Elements(run[p].stored) : f \in evidence'
  <2> SUFFICES ASSUME NEW f \in Elements(run[p].stored) PROVE f \in evidence'
    OBVIOUS
  <2>1. f \in evidence
    BY <1>2 DEF HandOK
  <2>2. SlotOfProof(f) # SlotOfProof(e)
    BY <1>2, <1>8 DEF HandOK, Apart, StoredSlots
  <2>3. f.claim # e.claim \/ f.fingerprint # e.fingerprint
    BY <2>2 DEF SlotOfProof
  <2> QED BY <1>1, <2>1, <2>3 DEF Replaced
<1> HIDE DEF slot
<1>11. e \in evidence' /\ \A f \in evidence' : f \in evidence \/ f = e
  BY <1>1 DEF Replaced
<1>12. OfSpec(e) /\ \A f \in evidence' : OfSpec(f)
  BY <1>2, <1>3, <1>11 DEF HandOK, HInv
<1>13. Apart(p)'
  BY <1>1, <1>2, <1>4, <1>6, <1>7, <1>8, <1>9 DEF HandOK, Apart, At
<1>14. HandOK(p)'
  BY <1>2, <1>3, <1>5, <1>6, <1>7, <1>10, <1>11, <1>13 DEF HandOK
<1> QED BY <1>12, <1>14, OnlyHand

\* A run before its first lookup still has nothing in hand after its next step.
LEMMA EarlyH ==
  ASSUME IInv, WInv, NEW p \in Proc,
         LoadContract(p) \/ SampleGit(p) \/ LoadRegistry(p) \/ HashContext(p)
  PROVE  HandOK(p)' /\ evidence' = evidence
<1>1. RunOK(p) /\ RunTyped(p) /\ DOMAIN run = Proc
  BY DEF IInv, WInv
<1>2. evidence' = evidence
  BY DEF LoadContract, SampleGit, LoadRegistry, HashContext, Local, disk
<1>3. run'[p].stored = << >> /\ run'[p].fresh = << >> /\ run'[p].need = << >>
  <2> USE <1>1 DEF RunOK, RunTyped, EarlyOK, Early, RunField, At, Become, Local
  <2>1. CASE LoadContract(p)
    BY <2>1 DEF LoadContract, IdleRun
  <2>2. CASE SampleGit(p)
    BY <2>2 DEF SampleGit
  <2>3. CASE LoadRegistry(p)
    BY <2>3 DEF LoadRegistry
  <2>4. CASE HashContext(p)
    BY <2>4 DEF HashContext
  <2> QED BY <2>1, <2>2, <2>3, <2>4
<1> QED BY <1>2, <1>3, NothingInHand

\* The steps after the lookups that neither gather nor save evidence: where each
\* starts, and what each leaves alone.
LEMMA AdvanceFields ==
  ASSUME IInv, NEW p \in Proc,
         \/ ResolvePolicy(p) \/ RunVerifier(p) \/ MakeDecision(p) \/ SaveDrift(p)
         \/ AcquireLock(p) \/ AppendJournal(p) \/ SaveLast(p)
         \/ WriteBaseline(p) \/ WriteSnapshot(p)
  PROVE  /\ evidence' = evidence
         /\ run'[p].stored = run[p].stored /\ run'[p].fresh = run[p].fresh
         /\ run'[p].need = run[p].need
         /\ run'[p].pc \in {"run", "ran", "decided", "acquire"} \cup Persisting
         /\ \/ run'[p].pc \in {"run", "ran"}
            \/ MakeDecision(p) /\ run'[p].result = Verdict(p)
            \/ /\ run'[p].result = run[p].result
               /\ run[p].pc \in {"decided", "acquire"} \cup Persisting
         /\ \/ run'[p].pc \notin Persisting \ {"save"}
            \/ run[p].fresh = << >>
            \/ run[p].pc \in Persisting \ {"save"}
<1>1. DOMAIN run[p] = RunField /\ DOMAIN run = Proc
  BY DEF IInv, RunOK
<1> USE <1>1 DEF RunField, At, Become, Local, Persisting, disk
<1>2. CASE ResolvePolicy(p)
  <2>1. evidence' = evidence
    BY <1>2 DEF ResolvePolicy
  <2>2. PICK policy \in Policies : Become(p, [run[p] EXCEPT !.pc = "run", !.policy = policy])
    BY <1>2 DEF ResolvePolicy
  <2>3. run'[p] = [run[p] EXCEPT !.pc = "run", !.policy = policy]
    BY <2>2
  <2> QED BY <2>1, <2>3
<1>3. CASE RunVerifier(p)
  BY <1>3 DEF RunVerifier
<1>4. CASE MakeDecision(p)
  BY <1>4 DEF MakeDecision, Verdict
<1>5. CASE SaveDrift(p)
  BY <1>5 DEF SaveDrift
<1>6. CASE AcquireLock(p)
  BY <1>6 DEF AcquireLock
<1>7. CASE AppendJournal(p)
  BY <1>7 DEF AppendJournal
<1>8. CASE SaveLast(p)
  BY <1>8 DEF SaveLast
<1>9. CASE WriteBaseline(p)
  BY <1>9 DEF WriteBaseline
<1>10. CASE WriteSnapshot(p)
  BY <1>10 DEF WriteSnapshot
<1> QED BY <1>2, <1>3, <1>4, <1>5, <1>6, <1>7, <1>8, <1>9, <1>10

\* The ends of a run, however it ends.
LEMMA EndFields ==
  ASSUME IInv, NEW p \in Proc,
         \/ LookupRefused(p) \/ UnknownVerifier(p) \/ GiveUp(p)
         \/ ReleaseLock(p) \/ PersistFails(p) \/ Crash(p)
  PROVE  evidence' = evidence /\ run'[p] = IdleRun
<1>1. Become(p, IdleRun) /\ evidence' = evidence
  BY DEF LookupRefused, UnknownVerifier, GiveUp, ReleaseLock, PersistFails, Crash,
         Abort, Local, disk
<1> QED BY <1>1, BecomeFacts DEF IInv

\* Every step of the only process keeps what it has in hand in slots of its own.
LEMMA NextHInv ==
  ASSUME \A p, q \in Proc : p = q, ProvedOnce
  PROVE  IInv /\ WInv /\ HInv /\ [Next]_vars => HInv'
<1> SUFFICES ASSUME IInv, WInv, HInv, [Next]_vars PROVE HInv'
  OBVIOUS
<1>1. CASE World \/ UNCHANGED vars
  <2>1. run' = run /\ evidence' = evidence
    BY <1>1 DEF World, Edit, EditFiles, Commit, Checkout, EditContract, EditConfig, Bind, Tick,
                disk, vars
  <2> QED BY <2>1, UntouchedHand
<1>2. ASSUME NEW p \in Proc, HandOK(p)', evidence' = evidence PROVE HInv'
  BY <1>2, OnlyHand DEF HInv
<1>3. ASSUME NEW p \in Proc,
             LoadContract(p) \/ SampleGit(p) \/ LoadRegistry(p) \/ HashContext(p)
      PROVE  HInv'
  BY <1>2, <1>3, EarlyH
<1>4. ASSUME NEW p \in Proc,
             \/ LookupRefused(p) \/ UnknownVerifier(p) \/ GiveUp(p)
             \/ ReleaseLock(p) \/ PersistFails(p) \/ Crash(p)
      PROVE  HInv'
  <2>1. evidence' = evidence /\ run'[p] = IdleRun
    BY <1>4, EndFields
  <2>2. HandOK(p)'
    BY <2>1, NothingInHand DEF IdleRun
  <2> QED BY <1>2, <2>1, <2>2
<1>5. ASSUME NEW p \in Proc,
             \/ ResolvePolicy(p) \/ RunVerifier(p) \/ MakeDecision(p) \/ SaveDrift(p)
             \/ AcquireLock(p) \/ AppendJournal(p) \/ SaveLast(p)
             \/ WriteBaseline(p) \/ WriteSnapshot(p)
      PROVE  HInv'
  <2>1. /\ evidence' = evidence
        /\ run'[p].stored = run[p].stored /\ run'[p].fresh = run[p].fresh
        /\ run'[p].need = run[p].need /\ run'[p].pc # "lookup"
    BY <1>5, AdvanceFields DEF Persisting
  <2> QED BY <1>2, <2>1, HandStays DEF HInv
<1>6. ASSUME NEW p \in Proc, ReapLock(p) PROVE HInv'
  BY <1>6, UntouchedHand DEF ReapLock, disk
<1>7. ASSUME NEW p \in Proc, Step(p) PROVE HInv'
  BY <1>3, <1>4, <1>5, <1>6, <1>7, HitH, NeededH, RecordH, SaveH DEF Step
<1> QED BY <1>1, <1>3, <1>4, <1>7 DEF Next

\* Nobody has anything in hand, and nothing is saved, in the initial state.
LEMMA InitHInv == Init => HInv
<1> SUFFICES ASSUME Init PROVE HInv
  OBVIOUS
<1>1. \A p \in Proc : /\ run[p].stored = << >> /\ run[p].fresh = << >>
                      /\ run[p].need = << >> /\ run[p].pc = "idle"
  BY DEF Init, IdleRun
<1>2. ASSUME NEW p \in Proc PROVE HandOK(p)
  <2>1. StoredSlots(p) = {} /\ FreshSlots(p) = {} /\ NeedSlots(p) = {}
    BY <1>1, NothingApart DEF StoredSlots, FreshSlots, NeedSlots
  <2>2. Apart(p)
    BY <1>1, <2>1, NothingApart DEF Apart
  <2> QED BY <1>1, <2>2, NothingApart DEF HandOK
<1> QED BY <1>2 DEF Init, HInv

---------------------------------------------------------------------------
(* From the evidence in hand to the decision on disk *)

\* A claim a decision calls Valid has Valid evidence among what was gathered.
LEMMA RenewedHasProof ==
  ASSUME NEW p \in Proc, RunOK(p), NEW c \in ClaimsIn(Verdict(p), "Valid")
  PROVE  \E e \in InHand(p) : e.claim = c /\ e.state = ValidState
<1> DEFINE evs == Gathering(p)
           ir == Ir[run[p].contract]
           applied == ApplyPolicy(Evaluate(ir, evs), run[p].policy)
<1>1. Verdict(p).claims = [d \in ir.claims |-> ClaimState(d, evs)]
  <2>1. applied.claims = [d \in ir.claims |-> ClaimState(d, evs)]
    BY ApplyPolicyFields DEF Evaluate
  <2>2. [applied EXCEPT !.decision = "Escalated"].claims = applied.claims
    BY DEF ApplyPolicy, Evaluate
  <2>3. \/ Verdict(p) = applied
        \/ Verdict(p) = [applied EXCEPT !.decision = "Escalated"]
    BY DEF Verdict, Decide, EscalateUnrenewed
  <2> HIDE DEF applied
  <2> QED BY <2>1, <2>2, <2>3
<1>2. Elements(evs) = InHand(p)
  BY ConcatElements DEF RunOK, Gathering, InHand
<1> HIDE DEF evs, ir
<1>3. ClaimState(c, evs) = "Valid"
  BY <1>1 DEF ClaimsIn
<1>4. Proved(c, evs)
  BY <1>3 DEF ClaimState
<1>5. PICK i \in DOMAIN evs : evs[i].claim = c /\ evs[i].state = "Valid"
  BY <1>4, ProvedHasProof
<1>6. evs[i] \in InHand(p)
  BY <1>2 DEF Elements
<1> QED BY <1>5, <1>6 DEF ValidState

\* Saving evidence keeps in hand what was in hand, and writes none of last.json.
LEMMA SaveFields ==
  ASSUME IInv, NEW p \in Proc, SaveEvidence(p)
  PROVE  /\ InHand(p)' = InHand(p) /\ run'[p].result = run[p].result
         /\ run[p].pc = "save" /\ run'[p].pc = "save"
<1> DEFINE e == Head(run[p].fresh)
           r == [run[p] EXCEPT !.fresh = Tail(@), !.stored = Append(@, e)]
<1>1. run[p].pc = "save" /\ run[p].fresh # << >> /\ Become(p, r)
  BY DEF SaveEvidence, At
<1>2. RunOK(p)
  BY DEF IInv
<1>3. Elements(run[p].fresh) = Elements(Tail(run[p].fresh)) \cup {e}
  BY <1>1, <1>2, TailElements DEF RunOK
<1> HIDE DEF e
<1>4. Elements(Append(run[p].stored, e)) = Elements(run[p].stored) \cup {e}
  BY <1>2, AppendElements DEF RunOK
<1>5. /\ r.stored = Append(run[p].stored, e) /\ r.fresh = Tail(run[p].fresh)
      /\ r.result = run[p].result /\ r.pc = run[p].pc
  BY <1>2 DEF RunOK, RunField
<1> HIDE DEF r
<1>6. run'[p] = r
  BY <1>1, BecomeFacts DEF IInv
<1> QED BY <1>1, <1>3, <1>4, <1>5, <1>6 DEF InHand

\* A decision keeps the proofs of its claims in hand to the end of the run.
LEMMA NextClaims ==
  ASSUME IInv, NEW p \in Proc, ClaimsOK(p), Step(p) \/ PersistFails(p) \/ Crash(p) \/ LoadContract(p)
  PROVE  ClaimsOK(p)'
<1>0. RunOK(p) /\ DOMAIN run = Proc /\ DOMAIN run[p] = RunField /\ IdleRun.pc = "idle"
      /\ DOMAIN IdleRun = RunField
  BY IdleFields DEF IInv, RunOK
<1>1. ASSUME run'[p].pc \notin {"decided", "acquire"} \cup Persisting PROVE ClaimsOK(p)'
  BY <1>1 DEF ClaimsOK
<1>2. CASE \/ LoadContract(p) \/ SampleGit(p) \/ LoadRegistry(p) \/ HashContext(p)
           \/ LookupHit(p) \/ LookupStale(p) \/ LookupMiss(p) \/ RecordEvidence(p)
  <2> USE <1>0 DEF RunField, Local, Become, At
  <2>1. run'[p].pc \in {"opened", "sampled", "loaded", "lookup", "run"}
    <3>1. CASE LoadContract(p)
      BY <3>1 DEF LoadContract
    <3>2. CASE SampleGit(p)
      BY <3>2 DEF SampleGit
    <3>3. CASE LoadRegistry(p)
      BY <3>3 DEF LoadRegistry
    <3>4. CASE HashContext(p)
      BY <3>4 DEF HashContext
    <3>5. CASE LookupHit(p)
      BY <3>5 DEF LookupHit, Lookup, LookingUp
    <3>6. CASE LookupStale(p)
      BY <3>6 DEF LookupStale, Lookup, LookingUp
    <3>7. CASE LookupMiss(p)
      BY <3>7 DEF LookupMiss, Lookup, LookingUp
    <3>8. CASE RecordEvidence(p)
      BY <3>8 DEF RecordEvidence
    <3> QED BY <1>2, <3>1, <3>2, <3>3, <3>4, <3>5, <3>6, <3>7, <3>8
  <2> QED BY <1>1, <2>1 DEF Persisting
<1>3. CASE \/ LookupRefused(p) \/ UnknownVerifier(p) \/ GiveUp(p)
           \/ ReleaseLock(p) \/ PersistFails(p) \/ Crash(p)
  BY <1>0, <1>1, <1>3, EndFields DEF Persisting
<1>4. CASE SaveEvidence(p)
  BY <1>4, SaveFields DEF ClaimsOK, Renewed, Persisting
<1>5. CASE ReapLock(p)
  BY <1>5 DEF ReapLock, ClaimsOK, Renewed, InHand
<1>6. CASE \/ ResolvePolicy(p) \/ RunVerifier(p) \/ MakeDecision(p) \/ SaveDrift(p)
           \/ AcquireLock(p) \/ AppendJournal(p) \/ SaveLast(p)
           \/ WriteBaseline(p) \/ WriteSnapshot(p)
  <2>1. /\ run'[p].stored = run[p].stored /\ run'[p].fresh = run[p].fresh
        /\ \/ run'[p].pc \in {"run", "ran"}
           \/ MakeDecision(p) /\ run'[p].result = Verdict(p)
           \/ /\ run'[p].result = run[p].result
              /\ run[p].pc \in {"decided", "acquire"} \cup Persisting
        /\ \/ run'[p].pc \notin Persisting \ {"save"}
           \/ run[p].fresh = << >>
           \/ run[p].pc \in Persisting \ {"save"}
    BY <1>6, AdvanceFields
  <2>2. InHand(p)' = InHand(p)
    BY <2>1 DEF InHand
  <2>3. run'[p].pc \in Persisting \ {"save"} => run'[p].fresh = << >>
    BY <2>1 DEF ClaimsOK
  <2>4. CASE run'[p].pc \in {"run", "ran"}
    BY <1>1, <2>4 DEF Persisting
  <2>5. CASE MakeDecision(p) /\ run'[p].result = Verdict(p)
    <3>1. Renewed(p)' = ClaimsIn(Verdict(p), "Valid")
      BY <2>5 DEF Renewed, ClaimsIn
    <3> QED BY <1>0, <2>2, <2>3, <3>1, RenewedHasProof DEF ClaimsOK
  <2>6. CASE /\ run'[p].result = run[p].result
             /\ run[p].pc \in {"decided", "acquire"} \cup Persisting
    <3>1. Renewed(p)' = Renewed(p)
      BY <2>6 DEF Renewed
    <3> QED BY <2>2, <2>3, <2>6, <3>1 DEF ClaimsOK
  <2> QED BY <2>1, <2>4, <2>5, <2>6
<1> QED BY <1>2, <1>3, <1>4, <1>5, <1>6 DEF Step

\* Writing last.json: every claim it calls Valid has its proof on disk.
LEMMA PublishBacked ==
  ASSUME IInv, HInv, NEW p \in Proc, ClaimsOK(p), SaveLast(p)
  PROVE  Backed'
<1>1. /\ run[p].pc = "journaled" /\ evidence' = evidence
      /\ last'.commit = run[p].sha /\ last'.claims = run[p].result.claims
  BY DEF SaveLast, At
<1>2. RunOK(p) /\ HandOK(p)
  BY DEF IInv, HInv
<1>3. SUFFICES ASSUME NEW c \in DOMAIN last'.claims, last'.claims[c] = "Valid"
               PROVE  \E e \in evidence' : /\ e.claim = c /\ e.state = ValidState
                                           /\ e.commit_sha = last'.commit
  BY DEF Backed
<1>4. c \in Renewed(p)
  BY <1>1, <1>3 DEF Renewed, ClaimsIn
<1>5. PICK e \in InHand(p) : e.claim = c /\ e.state = ValidState
  BY <1>1, <1>4 DEF ClaimsOK, Persisting
<1>6. e.commit_sha = run[p].sha
  BY <1>2, <1>5 DEF RunOK, InHandOK, InContextOf
<1>7. e \in evidence
  <2>1. run[p].fresh = << >>
    BY <1>1 DEF ClaimsOK, Persisting
  <2>2. e \in Elements(run[p].stored)
    BY <2>1, NothingApart DEF InHand
  <2> QED BY <1>2, <2>2 DEF HandOK
<1> QED BY <1>1, <1>5, <1>6, <1>7

\* A step that writes neither evidence nor last.json.
LEMMA BackedStays ==
  ASSUME Backed, evidence' = evidence, last' = last
  PROVE  Backed'
  BY DEF Backed

\* Steps outside the persist phase write no evidence.
LEMMA OutsideWritesNone ==
  ASSUME NEW p \in Proc,
         \/ World \/ LoadContract(p) \/ SampleGit(p) \/ LoadRegistry(p) \/ HashContext(p)
         \/ LookupRefused(p) \/ LookupHit(p) \/ LookupStale(p) \/ LookupMiss(p)
         \/ ResolvePolicy(p) \/ UnknownVerifier(p) \/ RunVerifier(p) \/ RecordEvidence(p)
         \/ MakeDecision(p) \/ SaveDrift(p) \/ GiveUp(p)
  PROVE  evidence' = evidence
  BY DEF World, Edit, EditFiles, Commit, Checkout, EditContract, EditConfig, Bind, Tick,
         LoadContract, SampleGit, LoadRegistry, HashContext, LookupRefused, LookupHit,
         LookupStale, LookupMiss, ResolvePolicy, UnknownVerifier, RunVerifier, RecordEvidence,
         MakeDecision, SaveDrift, GiveUp, Abort, Local, disk

Rewriting == {"save", "journaled"}

\* From the first file a run rewrites to its last.json the decision on disk may
\* be behind the evidence; at every other moment it is not.
LEMMA NextBacked ==
  ASSUME IInv, HInv, TInv, BInv, [Next]_vars, crashes' = 0,
         \A p \in Proc : run'[p].pc \notin Rewriting
  PROVE  Backed'
<1>0. /\ DOMAIN run = Proc /\ crashes \in Nat
      /\ (crashes = 0 /\ \A p \in Proc : run[p].pc \notin Rewriting) => Backed
  BY DEF IInv, TInv, BInv, Rewriting
<1> USE DEF Rewriting
<1>1. ASSUME Outside, evidence' = evidence PROVE Backed'
  <2>1. \A p \in Proc : run[p].pc \notin Rewriting
    BY <1>1 DEF Outside, Persisting
  <2>2. crashes = 0 /\ last' = last
    BY <1>1 DEF Outside
  <2> QED BY <1>0, <1>1, <2>1, <2>2, BackedStays
<1>2. CASE World \/ UNCHANGED vars
  <2>1. Outside /\ evidence' = evidence
    BY <1>0, <1>2 DEF Outside, World, Edit, EditFiles, Commit, Checkout, EditContract,
         EditConfig, Bind, Tick, disk, vars
  <2> QED BY <1>1, <2>1
<1>3. ASSUME NEW p \in Proc, LoadContract(p) PROVE Backed'
  BY <1>1, <1>3, OutsideSteps, OutsideWritesNone
<1>4. ASSUME NEW p \in Proc, PersistFails(p) \/ Crash(p) PROVE Backed'
  <2>1. crashes' = crashes + 1
    BY <1>4 DEF PersistFails, Crash
  <2> QED BY <1>0, <2>1
<1>5. ASSUME NEW p \in Proc, ReapLock(p) PROVE Backed'
  BY <1>0, <1>1, <1>5 DEF ReapLock, Outside, disk
<1>6. ASSUME NEW p \in Proc, AcquireLock(p) \/ SaveEvidence(p) \/ AppendJournal(p) PROVE Backed'
  <2>1. run'[p].pc \in Rewriting
    BY <1>6, Acquires, Saves, Journals DEF Onward
  <2> QED BY <2>1
<1>7. ASSUME NEW p \in Proc, SaveLast(p) PROVE Backed'
  BY <1>7, PublishBacked DEF BInv
<1>8. ASSUME NEW p \in Proc, WriteBaseline(p) \/ WriteSnapshot(p) \/ ReleaseLock(p)
      PROVE  Backed'
  <2>1. run[p].pc \notin Rewriting /\ UNCHANGED <<evidence, last, crashes>>
    BY <1>8 DEF WriteBaseline, WriteSnapshot, ReleaseLock, At, disk
  <2>2. \A q \in Proc : q # p => run'[q] = run[q]
    BY <1>0, <1>8, BecomeFacts DEF WriteBaseline, WriteSnapshot, ReleaseLock
  <2>3. \A q \in Proc : run[q].pc \notin Rewriting
    BY <2>1, <2>2
  <2> QED BY <1>0, <2>1, <2>3, BackedStays
<1>9. ASSUME NEW p \in Proc, Step(p) PROVE Backed'
  BY <1>1, <1>5, <1>6, <1>7, <1>8, <1>9, OutsideSteps, OutsideWritesNone DEF Step
<1> QED BY <1>2, <1>3, <1>4, <1>9 DEF Next

\* Every step of the only process keeps the decision on disk backed.
LEMMA NextBInv ==
  ASSUME \A p, q \in Proc : p = q
  PROVE  IInv /\ HInv /\ TInv /\ BInv /\ [Next]_vars => BInv'
<1> SUFFICES ASSUME IInv, HInv, TInv, BInv, [Next]_vars PROVE BInv'
  OBVIOUS
<1>1. ASSUME NEW q \in Proc PROVE ClaimsOK(q)'
  <2>1. CASE World \/ UNCHANGED vars
    <3>1. run' = run
      BY <2>1 DEF World, Edit, EditFiles, Commit, Checkout, EditContract, EditConfig, Bind,
                  Tick, vars
    <3> QED BY <3>1 DEF BInv, ClaimsOK, Renewed, InHand
  <2>2. ASSUME NEW p \in Proc, LoadContract(p) \/ Step(p) \/ PersistFails(p) \/ Crash(p)
        PROVE  ClaimsOK(q)'
    <3>1. LoadContract(q) \/ Step(q) \/ PersistFails(q) \/ Crash(q)
      BY <2>2, Zenon
    <3> QED BY <3>1, NextClaims DEF BInv
  <2> QED BY <2>1, <2>2 DEF Next
<1>2. crashes' = 0 /\ (\A p \in Proc : run'[p].pc \notin {"save", "journaled"}) => Backed'
  BY NextBacked DEF Rewriting
<1> QED BY <1>1, <1>2 DEF BInv

\* Nothing is decided in the initial state.
LEMMA InitBInv == Init => BInv
<1> SUFFICES ASSUME Init PROVE BInv
  OBVIOUS
<1>1. \A p \in Proc : run[p].pc = "idle"
  BY IdleFields DEF Init
<1> QED BY <1>1 DEF Init, BInv, ClaimsOK, Backed, Persisting

\* As long as runs follow one another and none is cut short, each claim that
\* last.json calls Valid has Valid evidence on disk for the commit it names, for
\* every contract that has no claim verified twice by the same command: however
\* the workspace, the contract, the registry and the bindings move between the
\* lookup of a proof, the verifier runs and the persist phase.  (Of two runs at
\* once one may overwrite the proof the other has found; of two verifications in
\* one slot the second overwrites the first.)
THEOREM LastIsBacked ==
  ASSUME \A p, q \in Proc : p = q, ProvedOnce
  PROVE  Spec => []LastBackedByEvidence
<1>1. TInv /\ BInv => LastBackedByEvidence
  <2> SUFFICES ASSUME TInv, BInv, lock = NoHash, crashes = 0 PROVE Backed
    BY DEF LastBackedByEvidence, Backed
  <2>1. \A p \in Proc : run[p].pc \notin {"save", "journaled"}
    BY OwnersDistinct DEF TInv, Undisturbed, LockOK, Persisting
  <2> QED BY <2>1 DEF BInv
<1>2. IInv /\ WInv /\ HInv /\ [Next]_vars => HInv'
  BY NextHInv
<1>3. IInv /\ HInv /\ TInv /\ BInv /\ [Next]_vars => BInv'
  BY NextBInv
<1> QED BY <1>1, <1>2, <1>3, InitHInv, InitBInv, InitTInv, NextTInv, InitJInv, NextJInv,
           InitW, NextW, Invariance, PTL DEF Spec

=============================================================================
