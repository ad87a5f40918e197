-------------------------- MODULE VerifyProperties --------------------------
(***************************************************************************)
(* What `uni verify` promises, stated over the runs of Verify.tla.         *)
(***************************************************************************)
EXTENDS Verify

---------------------------------------------------------------------------
(* Types *)

Hash(S) == S \cup {NoHash}

EvidenceOK(e) ==
  /\ e.claim \in Claim
  /\ e.commit_sha \in Sha /\ e.workspace_dirty \in BOOLEAN
  /\ e.contract_hash \in Contract /\ e.registry_hash \in Config
  /\ e.expires_at \in Hash(Nat) /\ e.binding_hash \in Hash(Binding)
  /\ e.state \in EvidenceState /\ e.exit_code \in {0, 1}
  /\ e.tree \in Tree

\* The persistent state has the shape the next `uni` process can read back,
\* whatever was interrupted before.
TypeOK ==
  /\ head \in Sha /\ tree \in Tree /\ contract \in Contract /\ config \in Config
  /\ bindings \in [Claim -> Hash(Binding)]
  /\ now \in Nat
  /\ \A e \in evidence : EvidenceOK(e)
  /\ drift \in [Claim -> SUBSET StaleReason]
  /\ baseline \in Hash(Config) /\ snapshot \in Hash(Config)
  /\ lock \in Proc \cup {NoHash, Orphan}
  /\ \A e1, e2 \in evidence :
       e1.claim = e2.claim /\ e1.fingerprint = e2.fingerprint => e1 = e2

---------------------------------------------------------------------------
(* Acceptance *)

Decided(p) == run[p].result # NoHash

Accepted(p) == Decided(p) /\ run[p].result.decision = "Accepted"

\* The claims a contract cannot be accepted without.
Demanded(p) ==
  Ir[run[p].contract].claims \cap (Ir[run[p].contract].required \cup Ir[run[p].contract].critical)

InContextOf(e, p) ==
  /\ e.commit_sha = run[p].sha /\ e.workspace_dirty = run[p].dirty
  /\ e.contract_hash = run[p].contract_hash
  /\ e.registry_hash = run[p].registry_hash
  /\ e.platform = PlatformOf[p]

Proof(e, c, p) ==
  /\ e.claim = c /\ e.state = ValidState
  /\ InContextOf(e, p)
  /\ Passes(e.spec, e.tree)

\* "A decision is never silently reused across a binding break": however the
\* workspace moves under the run, it accepts only if every demanded claim has
\* evidence of a verifier that really passed, recorded in the very commit,
\* dirty state, contract, registry and platform the run decided about.
AcceptedCovered ==
  \A p \in Proc : Accepted(p) =>
    \A c \in Demanded(p) : \E i \in DOMAIN Gathering(p) : Proof(Gathering(p)[i], c, p)

\* What resolving verification v under the present registry would run.
Required(v) ==
  LET base == BaseSpec(RegistryOf(config), v.verifier_ref)
  IN  IF base = NoHash THEN ResolveCommand(v, RegistryOf(config))
      ELSE WithSelector(base, Authorization(bindings[v.claim], v, base))

\* The watched files tell apart every two trees the check tells apart.
WatchesItsSubject(spec) ==
  /\ spec.files # NoHash
  /\ \A t, u \in Tree : Watched[spec.files][t] = Watched[spec.files][u] =>
                          (Passes(spec, t) <=> Passes(spec, u))

\* The commit and the dirty flag leave one content possible.
GitTellsContent == CleanAt[head] = {tree}

\* No false acceptance: as long as nobody edits while a run is active, a run
\* that accepts does so because each demanded claim's verifier passes on the
\* files that are there.  The one exception is a verifier that does not watch
\* what it checks, in a workspace whose content git does not tell: changes not
\* committed, files not tracked, no repository or no git at all.
AcceptedIsTrue ==
  ~disturbed => \A p \in Proc : Accepted(p) =>
    \A c \in Demanded(p) : \E i \in DOMAIN Plan(p) :
      /\ Plan(p)[i].claim = c
      /\ LET spec == Required(Plan(p)[i]) IN
           Passes(spec, tree) \/ (~GitTellsContent /\ ~WatchesItsSubject(spec))

\* "A verification with a requirement executes only under a matching
\* authorized binding": no acceptance rests on evidence that was gathered
\* before the present authorization of its claim, or without one.
AcceptedIsAuthorized ==
  ~disturbed => \A p \in Proc : Accepted(p) =>
    \A c \in Demanded(p) : \E i \in DOMAIN Gathering(p), j \in DOMAIN Plan(p) :
      LET e == Gathering(p)[i]
          v == Plan(p)[j]
          spec == BaseSpec(RegistryOf(config), v.verifier_ref)
      IN  /\ Proof(e, c, p) /\ v.claim = c
          /\ NeedsBinding(v, spec) =>
               /\ e.binding_hash = bindings[c]
               /\ e.binding_hash.verifier_ref = v.verifier_ref
               /\ e.binding_hash.requirement = v.requirement

\* "Any CRITICAL claim has Invalid evidence: REJECTED", or escalated where a
\* policy turns a critical rejection into an escalation.
CriticalInvalidRejects ==
  \A p \in Proc : Decided(p) =>
    \A c \in Ir[run[p].contract].critical :
      InState(c, Gathering(p), InvalidState) # {} =>
        run[p].result.decision \in {"Rejected", "Escalated"}

---------------------------------------------------------------------------
(* Persistence *)

\* Whatever crash or I/O error interrupts a persist phase, nothing a reader
\* takes as decided or acknowledged is without its journal record.
JournaledBeforePublished ==
  /\ last # NoHash => \E j \in journal : j.id = last.id /\ j.decision = last.decision
  /\ baseline # NoHash => \E j \in journal : j.registry = baseline

\* "A changed registry names the diff": the trust-boundary baseline moves
\* from one registry to another only in a run that recorded RegistryChanged
\* for exactly that change.
BaselineChangeNamed ==
  [][baseline # NoHash /\ baseline' # baseline =>
       \E j \in journal : j.registryChanged = baseline /\ j.registry = baseline']_baseline

\* "Concurrent verifies can never interleave each other's state": between two
\* persist phases that no crash cut short, last.json, the journal, the
\* registry baseline and the snapshot its diff is computed from are those of
\* one and the same run.
PersistedTogether ==
  lock = NoHash /\ crashes = 0 /\ last # NoHash =>
    \E j \in journal : /\ j.id = last.id /\ j.decision = last.decision
                       /\ j.registry = baseline /\ snapshot = baseline

\* The decision on disk and the evidence on disk belong together: each claim
\* last.json calls Valid has Valid evidence for the commit last.json names.
LastBackedByEvidence ==
  lock = NoHash /\ crashes = 0 /\ last # NoHash =>
    \A c \in DOMAIN last.claims : last.claims[c] = "Valid" =>
      \E e \in evidence : /\ e.claim = c /\ e.state = ValidState
                          /\ e.commit_sha = last.commit

\* "The drift is remembered until the claim is proved again": a claim leaves
\* stale.json only when the run that writes it has just verified the claim.
DriftRemembered ==
  [][\A c \in Claim : drift[c] # {} /\ drift'[c] = {} =>
       \E p \in Proc : At(p, "decided") /\ At(p, "acquire")' /\ c \in Renewed(p)]_drift
=============================================================================
