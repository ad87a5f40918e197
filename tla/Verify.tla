------------------------------- MODULE Verify -------------------------------
(***************************************************************************)
(* `uni verify`: concurrent runs of cmd_verify over one `.uni` directory,  *)
(* in a workspace that people and tools keep changing.                     *)
(*                                                                         *)
(* A run reads the contract, git, the registry and the cache, runs the     *)
(* verifiers whose proof is missing or stale, decides, and then persists   *)
(* evidence, journal, decision and registry baseline one file after the    *)
(* other under `.uni/.lock`.  Every read and every write of something      *)
(* another process may touch is an action of its own.                      *)
(***************************************************************************)
EXTENDS Naturals, Sequences, FiniteSets, Decision, Registry

CONSTANTS
  Proc,          \* `uni verify` processes
  Claim, Sha, Tree, Contract, Config, Binding,
  CleanAt,       \* [Sha -> the trees git calls clean at this commit]
  Ir,            \* [Contract -> compiled contract]
  Verifiers,     \* [Config -> [verifiers] table of a config.toml, or NoHash]
  Policies,      \* policies the run may resolve
  ActorOf,       \* [Proc -> verifier actor]
  PlatformOf,    \* [Proc -> os-arch]
  MaxRuns, MaxEdits, MaxCrashes, MaxTime   \* bounds

\* A digest is never the empty string, a platform string never is either.
ASSUME HashesExist == NoHash \notin Contract \cup Config
ASSUME PlatformsExist == \A p \in Proc : PlatformOf[p] # NoHash

VARIABLES
  head, tree,          \* what git calls HEAD, the files of the workspace
  contract, config,    \* the text of the contract and of .uni/config.toml
  bindings,            \* .uni/bindings.toml
  now,                 \* the clock, in units of max_age_hours
  evidence,            \* .uni/evidence/: the records of the files, one per key
  drift,               \* .uni/decisions/stale.json
  last,                \* .uni/decisions/last.json
  baseline, snapshot,  \* .uni/.registry.hash, .uni/.registry.snapshot.toml
  journal,             \* .uni/events.jsonl: the runs' journal records
  lock,                \* .uni/.lock: its owner
  run,                 \* the local state of each process
  disturbed,           \* history: the workspace changed while a run was active
  runs, edits, crashes \* counters for the bounds

world == <<head, tree, contract, config, bindings, now, edits, disturbed>>
disk  == <<evidence, drift, last, baseline, snapshot, journal>>
vars  == <<world, disk, lock, run, runs, crashes>>

Orphan == "orphan"      \* the owner of a lock whose process died

\* A free or an orphaned lock is not the lock of a process.
ASSUME OwnersDistinct == NoHash # Orphan /\ Proc \cap {NoHash, Orphan} = {}

At(p, label) == run[p].pc = label

\* In the persist phase, between AcquireLock and ReleaseLock.
Holding(p) == run[p].pc \in {"save", "journaled", "acknowledge", "snapshot", "release"}

\* The lock file, as DirLock.tla shows it to behave.
Lock == INSTANCE ExclusiveLock
          WITH owner <- lock, holding <- {p \in Proc : Holding(p)}, Free <- NoHash

(***************************************************************************)
(* git_info.  Untracked files do not count, so several trees are clean at  *)
(* a commit.  Where git cannot answer, being absent or outside of a        *)
(* repository, the commit is a constant and nothing is ever dirty: one     *)
(* more element of Sha, at which every tree is clean.                      *)
(***************************************************************************)
Dirty == tree \notin CleanAt[head]

IdleRun ==
  [pc |-> "idle", id |-> 0, contract |-> NoHash, config |-> NoHash,
   sha |-> NoHash, dirty |-> FALSE, contract_hash |-> NoHash,
   registry_hash |-> NoHash, previous |-> NoHash, next |-> 1,
   stored |-> << >>, stale |-> [c \in Claim |-> {}], need |-> << >>,
   policy |-> NoHash, outcome |-> NoHash, fresh |-> << >>,
   drift |-> [c \in Claim |-> {}], result |-> NoHash]

Init ==
  /\ head \in Sha /\ tree \in CleanAt[head]
  /\ contract \in Contract /\ config \in Config
  /\ bindings = [c \in Claim |-> NoHash]
  /\ now = 0
  /\ evidence = {} /\ drift = [c \in Claim |-> {}] /\ last = NoHash
  /\ baseline = NoHash /\ snapshot = NoHash /\ journal = {}
  /\ lock = NoHash
  /\ run = [p \in Proc |-> IdleRun]
  /\ disturbed = FALSE
  /\ runs = 0 /\ edits = 0 /\ crashes = 0

---------------------------------------------------------------------------
(* The workspace: edits, commits, checkouts, re-authorizations, time.      *)

Edit ==
  /\ edits < MaxEdits
  /\ edits' = edits + 1
  /\ disturbed' = (disturbed \/ \E p \in Proc : ~At(p, "idle"))
  /\ UNCHANGED <<disk, lock, run, runs, crashes>>

EditFiles ==
  Edit /\ tree' \in Tree \ {tree} /\ UNCHANGED <<head, contract, config, bindings, now>>

\* Also a repository, or git itself, that comes or goes.
Commit ==
  /\ Edit
  /\ head' \in {s \in Sha \ {head} : tree \in CleanAt[s]}
  /\ UNCHANGED <<tree, contract, config, bindings, now>>

Checkout ==
  /\ Edit
  /\ head' \in Sha \ {head} /\ tree' \in CleanAt[head']
  /\ UNCHANGED <<contract, config, bindings, now>>

EditContract ==
  Edit /\ contract' \in Contract \ {contract} /\ UNCHANGED <<head, tree, config, bindings, now>>

EditConfig ==
  Edit /\ config' \in Config \ {config} /\ UNCHANGED <<head, tree, contract, bindings, now>>

Bind ==
  /\ Edit
  /\ \E c \in Claim, b \in Binding : bindings' = [bindings EXCEPT ![c] = b]
  /\ UNCHANGED <<head, tree, contract, config, now>>

Tick ==
  Edit /\ now < MaxTime /\ now' = now + 1 /\ UNCHANGED <<head, tree, contract, config, bindings>>

World == EditFiles \/ Commit \/ Checkout \/ EditContract \/ EditConfig \/ Bind \/ Tick

---------------------------------------------------------------------------
(* One run.  Local(p, r) is a step that only changes the process.          *)

Become(p, r) == run' = [run EXCEPT ![p] = r]

Local(p, r) == Become(p, r) /\ UNCHANGED <<world, disk, lock, runs, crashes>>

\* An error before the persist phase: the process exits and nothing is written.
Abort(p) == Local(p, IdleRun)

LoadContract(p) ==
  /\ At(p, "idle")
  /\ runs < MaxRuns
  /\ runs' = runs + 1
  /\ Become(p, [IdleRun EXCEPT !.pc = "opened", !.id = runs + 1, !.contract = contract])
  /\ UNCHANGED <<world, disk, lock, crashes>>

SampleGit(p) ==
  /\ At(p, "opened")
  /\ Local(p, [run[p] EXCEPT !.pc = "sampled", !.sha = head, !.dirty = Dirty])

LoadRegistry(p) ==
  /\ At(p, "sampled")
  /\ Local(p, [run[p] EXCEPT !.pc = "loaded", !.config = config])

\* Mutant of HashContext: the registry is compared with the one just loaded.
HashContextForgetful(p) ==
  /\ At(p, "loaded")
  /\ Local(p, [run[p] EXCEPT !.pc = "lookup", !.contract_hash = contract,
                             !.registry_hash = config, !.previous = run[p].config])

\* The contract and the registry are read again, this time to be hashed.
HashContext(p) ==
  /\ At(p, "loaded")
  /\ Local(p, [run[p] EXCEPT !.pc = "lookup", !.contract_hash = contract,
                             !.registry_hash = config, !.previous = baseline])

TrustBoundaryChanged(p) == run[p].previous \notin {NoHash, run[p].registry_hash}

---------------------------------------------------------------------------
(* Cache lookup, one verification of the contract at a time.               *)

RegistryOf(hash) == Registered(Verifiers[hash])

\* The IR of a contract has a plan over its claims; an entry of a registry is a
\* record with every field of a spec, and never the absent one.
ASSUME PlansExist ==
  \A k \in Contract :
    LET plan == Ir[k].plan
    IN  /\ plan \in Seq({plan[i] : i \in DOMAIN plan})
        /\ \A i \in DOMAIN plan : plan[i].claim \in Claim
ASSUME SpecsExist ==
  \A g \in Config : \A ref \in DOMAIN RegistryOf(g) :
    LET spec == RegistryOf(g)[ref]
    IN  /\ DOMAIN spec = DOMAIN ShellSpec(NoHash) /\ spec.max_age \in Nat
        /\ spec # NoHash
        /\ \A b \in Binding : WithSelector(spec, b) # NoHash
ASSUME TreesExist == \A s \in Sha : CleanAt[s] \subseteq Tree

Plan(p) == Ir[run[p].contract].plan

Verification(p) == Plan(p)[run[p].next]

Base(p) == BaseSpec(RegistryOf(run[p].config), Verification(p).verifier_ref)

Granted(p) == Authorization(bindings[Verification(p).claim], Verification(p), Base(p))

Resolved(p) == WithSelector(Base(p), Granted(p))

Context(p) ==
  [fingerprint |-> LookupFingerprint(Verification(p), Resolved(p), ActorOf[p]),
   commit_sha |-> run[p].sha, workspace_dirty |-> run[p].dirty,
   artifact_hash |-> ArtifactHash(Resolved(p), tree),
   contract_hash |-> run[p].contract_hash, registry_hash |-> run[p].registry_hash,
   platform |-> PlatformOf[p], binding_hash |-> Granted(p)]

\* The file at evidence_path(claim, fingerprint), or NoHash.
Files(claim, fingerprint) ==
  LET found == {e \in evidence : e.claim = claim /\ e.fingerprint = fingerprint}
  IN  IF found = {} THEN {NoHash} ELSE found

Job(p) ==
  [claim |-> Verification(p).claim, verification |-> Verification(p),
   binding |-> Granted(p), spec |-> Resolved(p)]

LookingUp(p) == At(p, "lookup") /\ run[p].next <= Len(Plan(p))

BindingMissing(p) ==
  /\ NeedsBinding(Verification(p), Base(p))
  /\ ~Authorizes(bindings[Verification(p).claim], Verification(p), Base(p))

LookupRefused(p) == LookingUp(p) /\ BindingMissing(p) /\ Abort(p)

Lookup(p, file) ==
  /\ LookingUp(p)
  /\ ~BindingMissing(p)
  /\ file \in Files(Verification(p).claim, Context(p).fingerprint)

LookupHit(p) ==
  \E file \in evidence :
    /\ Lookup(p, file)
    /\ CacheOutcome(file, Context(p), now) = "Hit"
    /\ Local(p, [run[p] EXCEPT !.next = @ + 1, !.stored = Append(@, file)])

LookupStale(p) ==
  \E file \in evidence :
    /\ Lookup(p, file)
    /\ CacheOutcome(file, Context(p), now) = "Stale"
    /\ Local(p, [run[p] EXCEPT !.next = @ + 1, !.need = Append(@, Job(p)),
                  !.stale[file.claim] = StaleReasons(file, Context(p), now)])

LookupMiss(p) ==
  \E file \in evidence \cup {NoHash} :
    /\ Lookup(p, file)
    /\ CacheOutcome(file, Context(p), now) = "Miss"
    /\ Local(p, [run[p] EXCEPT !.next = @ + 1, !.need = Append(@, Job(p))])

ResolvePolicy(p) ==
  /\ At(p, "lookup") /\ run[p].next > Len(Plan(p))
  /\ \E policy \in Policies : Local(p, [run[p] EXCEPT !.pc = "run", !.policy = policy])

---------------------------------------------------------------------------
(* Verifier runs, outside the lock.  The verifier looks at the files first; *)
(* git and the watched files are sampled once it has returned.             *)

Pending(p) == Head(run[p].need)

SpecToRun(p) ==
  IF Pending(p).spec # NoHash THEN Pending(p).spec
  ELSE ResolveCommand(Pending(p).verification, RegistryOf(run[p].config))

Running(p) == At(p, "run") /\ run[p].need # << >>

UnknownVerifier(p) == Running(p) /\ SpecToRun(p) = NoHash /\ Abort(p)

\* A verifier that hangs is killed at its timeout and counts as failing.
RunVerifier(p) ==
  /\ Running(p)
  /\ SpecToRun(p) # NoHash
  /\ \E passed \in {Passes(SpecToRun(p), tree), FALSE} :
       Local(p, [run[p] EXCEPT !.pc = "ran", !.outcome = [passed |-> passed, tree |-> tree]])

\* The evidence of the verifier that just returned; `spec` and `tree` are
\* history: what really ran, and the files it really saw.
Gathered(p) ==
  LET spec == SpecToRun(p)
      uncovered == spec.files # NoHash /\ ArtifactHash(spec, tree) = NoHash
  IN [claim |-> Pending(p).claim,
      fingerprint |-> SpecFingerprint(Pending(p).verification.verifier_ref, spec, ActorOf[p]),
      commit_sha |-> head, workspace_dirty |-> Dirty,
      artifact_hash |-> ArtifactHash(spec, tree),
      contract_hash |-> run[p].contract_hash, registry_hash |-> run[p].registry_hash,
      platform |-> PlatformOf[p], binding_hash |-> Pending(p).binding,
      expires_at |-> IF spec.max_age = 0 THEN NoHash ELSE now + spec.max_age,
      state |-> IF run[p].outcome.passed /\ ~uncovered THEN ValidState ELSE InvalidState,
      exit_code |-> IF run[p].outcome.passed THEN 0 ELSE 1,
      spec |-> spec, tree |-> run[p].outcome.tree]

\* Mutant of Rechecked: no re-check after the verifier ran.
RecheckedNever(ev, p) == ev

\* The context must not have moved since the run sampled it.
Rechecked(ev, p) ==
  IF IsStale(ev, run[p].sha, run[p].dirty) THEN [ev EXCEPT !.state = StaleState] ELSE ev

RecordEvidence(p) ==
  /\ At(p, "ran")
  /\ Local(p, [run[p] EXCEPT !.pc = "run", !.outcome = NoHash, !.need = Tail(@),
                             !.fresh = Append(@, Rechecked(Gathered(p), p))])

---------------------------------------------------------------------------
(* Decision and drift record, still outside the lock.                      *)

Gathering(p) == run[p].stored \o run[p].fresh

StaleIds(p) == {c \in Claim : run[p].stale[c] # {}}

\* Decide, then read stale.json.
MakeDecision(p) ==
  /\ At(p, "run") /\ run[p].need = << >>
  /\ Local(p, [run[p] EXCEPT !.pc = "decided", !.drift = drift,
                !.result = Decide(Ir[run[p].contract], Gathering(p), run[p].policy, StaleIds(p))])

Renewed(p) == ClaimsIn(run[p].result, "Valid")

\* Mutant of DriftRecord: the drift of this run only.
DriftRecordForgetful(p) ==
  [c \in Claim |-> IF c \in Renewed(p) THEN {} ELSE run[p].stale[c]]

DriftRecord(p) ==
  [c \in Claim |-> IF c \in Renewed(p) THEN {}
                   ELSE IF run[p].stale[c] # {} THEN run[p].stale[c]
                   ELSE run[p].drift[c]]

SaveDrift(p) ==
  /\ At(p, "decided")
  /\ drift' = DriftRecord(p)
  /\ Become(p, [run[p] EXCEPT !.pc = "acquire", !.drift = drift'])
  /\ UNCHANGED <<world, evidence, last, baseline, snapshot, journal, lock, runs, crashes>>

---------------------------------------------------------------------------
(* The persist phase.                                                      *)

\* Mutant of AcquireLock: the file is opened with create, not create_new.
AcquireHeldLock(p) ==
  /\ At(p, "acquire")
  /\ lock' = p
  /\ Become(p, [run[p] EXCEPT !.pc = "save"])
  /\ UNCHANGED <<world, disk, runs, crashes>>

AcquireLock(p) ==
  /\ At(p, "acquire")
  /\ Become(p, [run[p] EXCEPT !.pc = "save"])
  /\ Lock!Acquire(p)
  /\ UNCHANGED <<world, disk, runs, crashes>>

\* A lock older than ten minutes: the lock of a process that died.
ReapLock(p) ==
  /\ At(p, "acquire")
  /\ UNCHANGED <<world, disk, run, runs, crashes>>
  /\ Lock!Reap

\* "another uni process holds .lock": the retries are used up.
GiveUp(p) == At(p, "acquire") /\ lock # NoHash /\ Abort(p)

\* Mutants of Replaced: a new file for every proof, and a failed write that
\* goes unnoticed.
AddedBeside(ev) == evidence \cup {ev}
NotWritten(ev) == evidence

Replaced(ev) ==
  {e \in evidence : e.claim # ev.claim \/ e.fingerprint # ev.fingerprint} \cup {ev}

SaveEvidence(p) ==
  /\ At(p, "save") /\ run[p].fresh # << >>
  /\ evidence' = Replaced(Head(run[p].fresh))
  /\ Become(p, [run[p] EXCEPT !.fresh = Tail(@), !.stored = Append(@, Head(run[p].fresh))])
  /\ UNCHANGED <<world, drift, last, baseline, snapshot, journal, lock, runs, crashes>>

AppendJournal(p) ==
  /\ At(p, "save") /\ run[p].fresh = << >>
  /\ journal' = journal \cup
       {[id |-> run[p].id, decision |-> run[p].result.decision,
         registry |-> run[p].registry_hash,
         registryChanged |-> IF TrustBoundaryChanged(p) THEN run[p].previous ELSE NoHash]}
  /\ Become(p, [run[p] EXCEPT !.pc = "journaled"])
  /\ UNCHANGED <<world, evidence, drift, last, baseline, snapshot, lock, runs, crashes>>

\* Mutant of SaveLast: the decision is published without its journal record.
SaveLastAtOnce(p) ==
  /\ At(p, "save") /\ run[p].fresh = << >>
  /\ last' = [id |-> run[p].id, commit |-> run[p].sha, stale |-> run[p].drift,
              decision |-> run[p].result.decision, claims |-> run[p].result.claims]
  /\ Become(p, [run[p] EXCEPT !.pc = "acknowledge"])
  /\ UNCHANGED <<world, evidence, drift, baseline, snapshot, journal, lock, runs, crashes>>

SaveLast(p) ==
  /\ At(p, "journaled")
  /\ last' = [id |-> run[p].id, commit |-> run[p].sha, stale |-> run[p].drift,
              decision |-> run[p].result.decision, claims |-> run[p].result.claims]
  /\ Become(p, [run[p] EXCEPT !.pc = "acknowledge"])
  /\ UNCHANGED <<world, evidence, drift, baseline, snapshot, journal, lock, runs, crashes>>

WriteBaseline(p) ==
  /\ At(p, "acknowledge")
  /\ baseline' = run[p].registry_hash
  /\ Become(p, [run[p] EXCEPT !.pc = "snapshot"])
  /\ UNCHANGED <<world, evidence, drift, last, snapshot, journal, lock, runs, crashes>>

WriteSnapshot(p) ==
  /\ At(p, "snapshot")
  /\ snapshot' = run[p].registry_hash
  /\ Become(p, [run[p] EXCEPT !.pc = "release"])
  /\ UNCHANGED <<world, evidence, drift, last, baseline, journal, lock, runs, crashes>>

ReleaseLock(p) ==
  /\ At(p, "release")
  /\ Become(p, IdleRun)
  /\ Lock!Release(p)
  /\ UNCHANGED <<world, disk, runs, crashes>>

\* A write fails: the error returns and dropping the guard removes the lock.
PersistFails(p) ==
  /\ Holding(p) /\ ~At(p, "release")
  /\ crashes < MaxCrashes
  /\ crashes' = crashes + 1
  /\ Become(p, IdleRun)
  /\ Lock!Release(p)
  /\ UNCHANGED <<world, disk, runs>>

\* The process is killed: a lock it holds stays behind.
Crash(p) ==
  /\ ~At(p, "idle")
  /\ crashes < MaxCrashes
  /\ crashes' = crashes + 1
  /\ Become(p, IdleRun)
  /\ IF Holding(p) THEN Lock!Die(p) ELSE UNCHANGED lock
  /\ UNCHANGED <<world, disk, runs>>

Step(p) ==
  \/ SampleGit(p) \/ LoadRegistry(p) \/ HashContext(p)
  \/ LookupRefused(p) \/ LookupHit(p) \/ LookupStale(p) \/ LookupMiss(p)
  \/ ResolvePolicy(p) \/ UnknownVerifier(p) \/ RunVerifier(p) \/ RecordEvidence(p)
  \/ MakeDecision(p) \/ SaveDrift(p) \/ AcquireLock(p) \/ ReapLock(p) \/ GiveUp(p)
  \/ SaveEvidence(p) \/ AppendJournal(p) \/ SaveLast(p)
  \/ WriteBaseline(p) \/ WriteSnapshot(p) \/ ReleaseLock(p)

Next ==
  \/ World
  \/ \E p \in Proc : LoadContract(p) \/ Step(p) \/ PersistFails(p) \/ Crash(p)

Spec == Init /\ [][Next]_vars
=============================================================================
