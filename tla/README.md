# UNI in TLA+

A specification of `uni` (crates/): what a contract means once it is parsed,
what `uni verify` accepts and what it reuses from its evidence cache, who it
attributes a proof to, what the commands leave on disk when several processes
run over one workspace that people and tools keep changing, and what a bundle
exported from there is worth. TLC checks small instances, TLAPS proves the
results that must hold for all of them.

All paths below are relative to `crates/` unless they name `docs/` or
`constitution.md`.

## The system

`uni` is a command-line program without a server: every component is a library
the command calls, and everything shared is a file under `.uni/`.

| component | source | state | operations | hard part |
|---|---|---|---|---|
| `uni verify` | `uni-cli/src/cmd/verify.rs` | the run's locals; `stale.json`, `last.json`, `.registry.hash`, `.registry.snapshot.toml` | `cmd_verify` | reads several files that change under it, writes several files a kill may cut short |
| evidence cache | `uni-evidence/src/lib.rs` | one file per (claim, fingerprint) | `load_valid_for_claim`, `is_stale`, `save_json` | deciding that a proof still covers the workspace |
| git sampling | same | – | `git_info` | sampled before the lookups and after each verifier |
| persist lock | same | `.uni/.lock` | `acquire_lock_with`, `Drop` | no owner recorded, ageing, reaping, kills |
| registry, verifiers | `uni-verify/src/lib.rs` | `.uni/config.toml` | `load_registry`, `resolve_command`, `with_selector`, `run_spec` | read twice per run; templates; fingerprints that leave fields out |
| shell runner | same, and `cmd_run` | a child, its pipe, a deadline | `run_shell` | output read only after the exit; processes the shell leaves behind |
| bindings | `uni-evidence/src/binding.rs`, `uni-cli/src/cmd/authorize.rs` | `.uni/bindings.toml` | `authorize`, `authorize_from_file`, `load_all` | unlocked rewrite; old proofs must age |
| decision engine | `uni-decision/src/lib.rs` | – | `evaluate`, `apply_policy`, `load_policies` | several proofs per claim; three layers that overrule each other |
| assurance scale | same | – | `independence`, `assurance_for` | mixed reused and fresh proofs |
| identity tokens | `uni-verify/src/identity.rs` | pinned key files | `load_identities`, `verify_token` | several issuers, rotated keys, tokens without a `kid` or an `aud` |
| event journal | `uni-cli/src/events.rs` | `events.jsonl`, archives | `append`, `rotate_if_needed`, `prune_archives`, `read_all_including_archives` | rotation against unlocked appends and readers |
| `uni run` | `uni-cli/src/cmd/verify.rs` | – | `cmd_run` | whatever the executor does, the verification follows |
| bundle | `uni-cli/src/bundle.rs` | the transport file | export, verify | read without the lock, checked offline |
| contract language | `uni-parser/src/lib.rs` | the parser's locals | `parse` | one line decides by prefixes, words and what is pending |
| contract IR, preflight | `uni-ir/src/lib.rs`, `uni-cli/src/cmd/contract.rs`, `brief.rs` | – | `compile`, `cmd_lint`, `build` | lint repeats by hand what verify decides |
| the other commands | `uni-cli/src/cmd`, `main.rs` | – | init, report, explain, handoff, pack, speckit | display and text |

How they interact. `cmd_verify` reads the contract, samples git, loads the
registry, hashes contract and registry from a second read, and then, one
verification at a time, checks the binding, resolves the verifier and asks the
cache. What is missing or stale is run, outside any lock. The evidence goes
through the decision engine and the policies; `stale.json` is read and written;
and only then the lock is taken, and evidence, journal, `last.json` and the
registry baseline are written one after the other. `bind` rewrites
`bindings.toml`; people edit the contract, the registry and the files, commit
and check out, while all of this goes on. `bind`, `run`, `report` and `verify` append to
the journal, all but `verify` without a lock; `uni events` and `uni bundle
export` read what the others write, without a lock either. `lint` and `brief`
look at the contract, the registry and the bindings before anything runs.

What makes each component correct:

- *verify*: it accepts only on proofs of the context it decided about; a drift
  is remembered; a registry change is named; a reader never sees a decision
  without its journal record, whatever was interrupted.
- *cache*: a reused proof covers the present context and was a proof.
- *lock*: one holder; a dead holder's lock goes away, a live one's does not;
  nobody waits forever.
- *decision*: no acceptance without proof of each demanded claim, whatever the
  policies and the order of the evidence; policies only tighten or escalate.
- *assurance*: the weakest proof sets the level.
- *identity*: an actor is `verified` only by a key its issuer pins.
- *bindings*: the last authorization is in force, and what is in force is
  recorded.
- *journal*: the recent window survives rotation, a line is a record, a reader
  sees what was there.
- *shell runner*: a pass means exit 0 in time, with nobody writing any more; the
  command ends.
- *contract*: it holds what is written, no rule is silently without effect, and
  a clean preflight is followed by no refusal.
- *bundle*: an honest one passes, a changed one does not, the pieces are of one
  run.

`PROJECT.json` lists the components with their status and, under `hazards`,
every place of the code where one of these is at risk.

## The modules

| module | models | state and actions |
|---|---|---|
| `Evidence` | the cache (`Evidence`, `StaleReason`, `is_stale`, `load_valid_for_claim`) | operators on an evidence record and a verification context |
| `Registry` | `load_registry`, `require_binding`, templates, `resolve_command`, fingerprints, what a verifier observes | operators |
| `Decision` | `evaluate`, `apply_policy`, `load_policies`, the escalation of `cmd_verify`, the assurance scale | operators |
| `Identity` | `load_identities`, `verify_token`, the choice of the actor | operators |
| `ExclusiveLock` | what the lock promises | `owner`, `holding`; Acquire, Release, Die, Reap |
| `DirLock` | the lock file | one action per step of `acquire_lock_with` and `Drop`, time, kills |
| `Verify` | `cmd_verify` of any number of processes, and the workspace | one action per read or write another process may interfere with |
| `VerifyProperties` | – | what `Verify` is checked against |
| `Acts` | `BindingEntry`, `BindingFile`, `Event`: what an authorization leaves in both files | sets of records, shared by `Bindings` and `Journal` |
| `Bindings` | `bindings.toml`, the files of older repositories | `toml`, `act`; read, write, an edit that breaks the file |
| `Journal` | the journal, its archives, its reader | `files`, `live`, `archive`, `append`, `view`; one action per system call |
| `Authorize` | `cmd_bind`, the record of `cmd_run`, `cmd_events`, `cmd_doctor` | `Bindings` and `Journal` composed, with kills and failing writes |
| `Shell` | `run_shell` and the processes of a command | `parent`, `proc`, `pipe`; spawn, write, fork, exit, wait, kill, drain |
| `UniRun` | `cmd_run`: executor, then verifiers | `at`, `outcome` over `Shell` |
| `Parser` | `parse` | the parser's locals; one action per rule, the end of the source |
| `Contract` | `compile`, `cmd_lint`, `brief::build` | `ir`, `report` over `Parser` |
| `ContractProperties` | – | what `Contract` is checked against: the grammar said of the source as a whole |
| `Bundle` | export and verify of bundles, the writers beside them | the files, `verify`, `export`, `bundle`; one action per read or write |
| `MCVerify`, `MCDecision`, `MCAuthorize`, `MCContract`, `MCBundle` | – | instances for TLC; `MCDecision` adds one proof or policy file at a time |
| `DirLockProofs`, `DecisionProofs`, `MCDecisionProofs`, `VerifyProofs`, `ContractProofs`, `UniRunProofs`, `AuthorizeProofs`, `BundleProofs` | – | theorems |

`Verify` extends `Decision` and `Registry` (which extends `Evidence`) and uses
the lock through `ExclusiveLock`, its variables replaced by `lock` and the set
of runs in the persist phase. `DirLock` has the abstract lock's behaviour as a
property (`ActsAsExclusiveLock`), so the two levels of the lock meet in one
module. `Contract` extends `Parser` and uses the very operators of `Registry`
with which `Verify` refuses a claim: that is what `LintForetells` compares.
`MCDecision` puts `Identity` before `Decision`, as `cmd_verify` does.

### How the model reads

- A hash is the value hashed: two hashes are equal exactly when the texts are.
  `NoHash` is the empty hash, the absent option and the missing file. The
  fingerprint is the tuple of the fields `spec_fingerprint` formats, so what it
  leaves out (kind, expected hashes, timeout, maximum age) is left out here.
- All files of the workspace are one value, `tree`. `CleanAt` gives, for each
  commit, the trees `git_info` calls clean there: more than one, because
  untracked files do not count, and all of them where there is no git or no
  repository, which is a commit of its own (the code then has a constant). A single
  git command that fails once, between others that succeed, is not modelled.
  `Watched[files][tree]` is the content hash a verifier's globs see,
  `PassesOn[check]` the trees on which a check passes.
- A verifier sees the tree of one moment (`RunVerifier`); the commit, the dirty
  flag and the watched files that go on its evidence are sampled later
  (`RecordEvidence`), after anybody may have edited.
- An evidence record carries, beyond the fields of the code, `spec` and `tree`:
  what really ran and what it really saw. Nothing reads them but properties.
  `disturbed`, in `DirLock` `owner` and `raced`, are history in the same way.
- Some reads that follow each other at once are one step, so that nobody edits
  between them: a lookup reads binding, watched files and the evidence file;
  `HashContext` reads and hashes contract and registry (the registry's other
  read, by `LoadRegistry`, is a step of its own); `RecordEvidence` samples
  commit, dirty flag and watched files; the decision is made and `stale.json`
  read in one step.
- A line of a contract is a record of what its rule reads; `dir` is the rule its
  first letters select and `word` whether these letters are a whole word, as the
  code asks the one in most rules and the other where a goal ends. The parser's
  order of rules is the guards of `Rule`, `Prose` and `Forbidden`.
- A file of the journal goes on existing when its name goes away, so names point
  into the sequence of all files. `writeln!` is two writes: text and newline.
  Looking at the size, taking the second for the archive's name and renaming are
  three steps; the reader lists the archives, then opens one after the other. Its
  test whether a file exists and the opening are one step. An
  error of a system call in `append` (`events.rs:51`, `75`, `124`, `127`) ends the
  command where a kill at the same point would, and is `Kill`; the error of a
  rename that lost the race is `RenameFails`.
- The lock file can always be removed: that `remove_file` may fail
  (`uni-evidence/src/lib.rs:209`, `227`, the code ignores it) is not modelled.
  A holder whose removal fails is, to the others, one that died.
- A binding is the number of the act that stamped it. `history.flags` of
  `Authorize` name what went wrong: `overlapped` (two acts between reading and
  writing `bindings.toml`), `mangled` (the file was broken by hand), `torn` (a
  writer came into a line another one had open), `crossed` (a rename while
  another process was past its size check), `collided` (two rotations in one
  second), `passed` (while a reader is on its way, a rotation, or the pruning of
  an archive it has listed and not opened yet). The properties
  say that these are the only ways to lose something.
- A process of a command is running, exited or killed; it may hold the pipe
  without being waited for. `late` remembers that a deadline was reached.
- A verification of `Bundle` is a claim and a verifier: a claim may have several
  or none. Its proof is in a file named for the claim and the fingerprint, and
  the fingerprint depends on verifier, registry and a setting (the actor, the
  selectors authorized), so that several proofs of one claim lie side by side. It
  is written to a temporary file first, which is listed and exported like any
  other, and which stays when the verify is killed.
- A record of a bundle carries the hash of its body, which is the body; the
  header's hash is of the fields the code hashes. A change on the way removes,
  repeats or exchanges records, rewrites a body, a kind or a field of the header.
- `ReapLock` and `GiveUp` stand for the retry loop of the lock; `DirLock` has
  the loop itself.
- An error (`?`) before the persist phase ends the run and writes nothing
  (`Abort`); an I/O error in it releases the lock (`PersistFails`); a kill
  leaves the lock behind (`Crash`).

## The runs

Every run but `dirlock` and `dirlock_mutex` sets `CHECK_DEADLOCK FALSE`: when
the bounds on runs, commands, edits and lines are used up, or the command has
ended, there is nothing left to do. The lock file has no such end: `dirlock`
checks that no state is stuck.

| run | instance | shows |
|---|---|---|
| `verify_solo` | 1 process, contracts k1, k2, k4 and k6, 2 registries, a commit and no repository (where no tree is ever dirty, as with untracked files), 3 trees, 5 ways to be bound (none, 2 verifiers, 2 selectors, 2 requirements), 3 runs, 2 edits, clock 0..1; 2.1 M states | `TypeOK`, `AcceptedCovered`, `AcceptedIsTrue`, `AcceptedIsAuthorized`, `LastBackedByEvidence`, `BaselineChangeNamed`, `DriftRemembered` (alone) |
| `verify_concurrent` | 2 processes, contract k3, 3 registries (one does not parse), 1 commit, 2 trees, 2 runs, 2 edits, 1 kill or failing write, and `SYMMETRY` over the two processes, which nothing tells apart (the run checks invariants only); 966 k states | `AcceptedCovered`, `JournaledBeforePublished`, `PersistedTogether` |
| `decision` | 2 contracts, 12 tokens and 3 ways to write `--actor`, up to 3 proofs, up to 2 policy files; 496 k states | `AcceptedMeansProved`, `MoreEvidenceNeverUnaccepts`, `PoliciesNeverWeaken`, `AddedPolicyNeverRelaxes`, `AssuranceIsWeakestLink`, `VerifiedMeansSigned` |
| `dirlock` | 3 processes, 2 retries, reaping after 1 tick, holds of up to 1 tick, 1 kill; 83 k states | `TypeOK`, `ExclusiveUnlessRaced`, `OnlyOrphansReaped`, `ActsAsExclusiveLock`, `AcquireReturns`, `OrphansGoAway` |
| `authorize` | 2 processes (`SYMMETRY`, invariants only), 2 claims, one with an older file, 3 commands, the second of which may be about the other claim or both, rotation of every file with an event, 1 archive kept, 2 seconds, 1 fault; 3.6 M states | `TypeOK`, `RecordedActsHappened`, `LastAuthorizationStands`, `WindowKept`, `RecordsReadable`, `ReaderSeesAll` |
| `uni_run` | the executor and 1 verifier, a shell and one process it may start, a pipe of 1 block, 1 block of output from each process, a deadline of 1 tick; 497 k states | `TypeOK`, `PassMeansExitedInTime`, `NobodyWritesLater`, `Returns` |
| `contract` | sources of up to 5 lines of 24 kinds, the first the header, a comment and a `USING` more than once; 3 registries, 4 tables of bindings; 385 k states | `TypeOK`, `ClaimsAsWritten`, `ObligationsAsWritten`, `NothingInert`, `LintForetells` |
| `bundle` | 3 contracts (two of one intent; one verifies its claim twice, one leaves a claim unverified), 2 verifiers, 2 registries, 2 settings, 6 evidence files and their temporary ones, 2 runs of verify, 1 edit, 1 change on the way; 4.7 M states | `HonestExportPasses`, `PiecesBelongTogether`, `HashedPartsSealed` |
| `verify_critical` | | violates `CriticalInvalidRejects` |
| `verify_lost_drift` | | violates `DriftRemembered` (two processes) |
| `dirlock_mutex` | | violates `Mutex` |
| `authorize_unjournaled` | | violates `EveryBindJournaled` |

Why the bounds are enough. One run of verify leaves a proof, an edit makes it
drift, a second run sees that, a third lives with what the second left: three
runs and two edits (one may fall into a run) reach every combination of a proof
and its reuse. A third tree is needed for two different dirty states of one
commit; outside a repository all three count as clean, which is also what git
says of two trees that differ in an untracked file. An authorization matters
when it changes after a proof: one edit binds, a run proves, the second edit
binds again, to another selector, verifier or requirement, and a run looks at
the old proof; in k6 the selector runs nothing, so that only the binding's own
hash tells the old proof from a new one. A claim is bound only while the
contract has a requirement or a template for it (`BindsWhatIsRead`): nothing
reads a binding otherwise. Two processes with one run each already interleave
all reads and writes; with one edit before and one between them they decide
differently. In the lock, three processes are the least that break it: two that
judge the same orphan and one that creates in between. The engine looks at the
first Valid, the first and the critical Invalid proof of a claim: three proofs
put each of them in each order. With `MaxBytes = 0` a file with one event is
full, so that every append after the first finds a full journal: the second and
the third of three commands rotate one after the other, or together, where one
rename fails, or in the same second; the second rotation prunes, with a reader
at any point of its way; and two acts overlap in `bindings.toml`, tear a line
and cross a rotation. One may write two events at once, and a fault may cut one
of them short. The parser remembers at most one pending `VERIFY`, one pending
`FORBID`, one `USING` line and one goal: a header and four lines open any of
these, put something between and close it, and two claims or two verifications
still fit. One descendant is enough for every way to hold the pipe after the
shell is gone, and the blocks of two processes overfill a pipe of one. The
bundle needs one run before and one during the export, and an edit between
them, to leave proofs of another contract or registry behind; two settings give
two proofs of one claim by one verifier under the same contract and registry.
Once a bundle is made nothing it says depends on the workspace, so the run
drops the workspace's steps from there on (`OnlyTheBundle`).

The runs are small because each is one question, and what they leave out of a
question is elsewhere: the policies of both runs of `Verify` are the defaults
and `verify_concurrent` has no clock, while `AcceptedOnlyIfCovered` is proved
for any policies and times and the policy layer has the `decision` run; the
safety properties of `authorize` and `bundle` are proved for any number of
commands, edits and files.

### What the violations say

Each is a sentence of the documentation or of a comment that the code does not
keep; `PROJECT.json` quotes it under `findings`.

1. *Any critical Invalid is rejected* (`verify_critical`). A passing proof beside
   it hides it.
2. *The drift is remembered* (`verify_lost_drift`). The rewrite of `stale.json` is
   not under the lock.
3. *Exclusive lock* (`dirlock_mutex`). Two reapers of one orphan, ten minutes
   after a kill.
4. *Every bind is journaled* (`authorize_unjournaled`). The binding is written
   first; of two processes that rotate at once one gets an error from the rename
   and records nothing.

### Divergences without a run

Met while modelling; the model has what the code does.

- Evidence the re-check after a run marks Stale is saved that way, and
  `load_valid_for_claim` turns only Invalid into a miss
  (`uni-evidence/src/lib.rs:516`): the next run reuses it, and the claim stays
  Stale until the context moves, although lines 428-429 and
  `docs/verification.md:4-5` say that stale evidence is gathered again. It is
  never accepted (`AcceptedCovered`).
- "A changed registry names the diff", but two runs that begin on the same
  baseline both compute their diff from it (`cmd/verify.rs:213-222`, outside the
  lock): the second moves the baseline from the registry of the first, and its
  record names an older one. `BaselineChangeNamed` is checked and proved for
  runs that follow one another.
- `config.toml` is read twice in one run (`cmd/verify.rs:201`, `:207`). An edit
  between the two lets a proof of the old registry be reused under the hash of
  the new one, where it changes what the fingerprint leaves out
  (`uni-verify/src/lib.rs:381-390`); `cmd/verify.rs:211` and `constitution.md:12`
  rule that out.
- `docs/decisions.md:25-26` and `uni-decision/src/lib.rs:203` say that the later
  policy file's booleans win; `load_policies` lets one `true` of an escalation
  win (line 232), and only `reject_on_invalid` follows the comment.
  `AddedPolicyNeverRelaxes` leaves aside a file that takes an escalation back.
- A token without `aud` is accepted although its issuer's audiences are pinned,
  and the subject may be empty (`uni-verify/src/identity.rs:198-200` requires that
  `exp`, `iss` and `sub` are there), against lines 29-30 and
  `docs/verification.md:69-71`. `VerifiedMeansSigned` says what the code asks for:
  a pinned audience or none at all.
- Two writers without the lock may put two records on one line, which a reader
  skips (`events.rs:127`, `:167`), against `events.rs:2`; and a rotation that
  crosses another one, or falls into the same second, may put a fresh file in the
  place of the archive just made, against `events.rs:29-31`. `RecordsReadable`
  and `WindowKept` have these as their exceptions.
- The time and the tool in a bundle's header, the kind of a record and the order
  of the records are under no hash (`bundle.rs:157-171`, `:252-257`): changing one
  of them is not seen, against `docs/evidence.md:108-109`. The record count is not
  hashed either, but the records are counted. `HashedPartsSealed` says what is
  sealed.
- `uni verify` decides on a claim without a `VERIFY` (which only lint refuses,
  `docs/claims.md:34`) as it does on any other; `uni bundle verify` then fails the
  honest export, because the decision cites a claim without evidence
  (`bundle.rs:346-352`). Evidence left over from another contract or registry
  makes one fail too, and so may the temporary file of a verify that was killed
  (`bundle.rs:101` lists every file). `HonestExportPasses` says that there is no
  further reason.
- A verify that was killed before its decision leaves proofs beside an older
  decision, and the bundle is consistent: only the claims are compared.
  `PiecesBelongTogether` names the case.
- A rejection for `min_verified_ratio` is overruled by `escalate_on_stale`
  (`cmd/verify.rs:474`), against `uni-decision/src/lib.rs:129` and
  `docs/decisions.md:35`. It is never an acceptance (`AcceptedMeansProved`).
- The timeout is "always enforced natively" (`uni-verify/src/lib.rs:551-553`),
  but a process the shell left behind with the pipe open keeps
  `wait_with_output` waiting after the kill. `Returns` has the condition
  (`LetGo`) under which the command ends.
- A bare `FORBID` takes the next line no earlier rule reads for its text,
  a reserved `REJECT WHEN` or a `VERIFY` too, against
  `docs/specification.md:22-24`. At the end of the source it is dropped, as is a
  `VERIFY` that got no `USING` or was followed by another `VERIFY`.
- Goal text ends at a word of the vocabulary, but headers and `USING` are told
  by prefix: prose that begins with VERSIONS, INTENTION or USINGS is read as a
  header or refused.
- `uni lint` says nothing of unknown verifiers while the registry is empty;
  `uni verify` then refuses. `LintForetells` names the exception.

### Fairness

Two modules have liveness properties.

`DirLock`: `FairSpec` assumes weak fairness of the clock and of each process's
next step in the loop: the loop blocks on nothing but a sleep of 50 ms and file
system calls, so a process that is not killed takes its next step. Starting, and
being killed, are not fair. Holding the lock ends within `MaxHold` ticks, as the
persist phase is a handful of small writes; the assumption `HoldersAreQuick`
says that it is shorter than `STALE_AFTER`.

`UniRun`: weak fairness of the waiting process's own next step (it polls or
reads, nothing else holds it) and of its clock. What the commands do is not
fair: a shell may never exit, and one that fills its pipe cannot. `Returns`
shows that the deadline takes care of both, provided that no process but the
shell keeps the pipe for ever: the code reads to the end of the pipe, so this
condition is its own.

## What is proved

For every value of the constants, from the named assumptions only.

- **`DirLockProofs`** (`OwnersDistinct`, `RetriesNat`, `TimesNat`,
  `HoldersAreQuick`): `TypeCorrect`, `Exclusive`, `ReapsOrphans`,
  `Refinement`. The invariant adds to the types that a process in the loop has
  an iteration left, and, until two processes race, that the file is the
  holder's and no older than the hold, and that at most one process is about to
  reap, an orphan. A file older than `STALE_AFTER` is then older than any hold,
  so it is nobody's. `HoldersAreQuick` is used there and nowhere else.
- **`DecisionProofs`** (no assumption): `AcceptedByTruthTable` and
  `AcceptedHasProof`, through the three layers from the last to the first.
  `AcceptanceStays`: one proof more never takes an acceptance away. The engine
  looks for the *first* Valid proof of a claim, and the first stays the first when
  a sequence grows (`ProvedStays`), so that the truth table and the ratio stay on
  the right side. `RefusalStays`: under a policy that is at least as strict
  (`AsStrict`, setting by setting) a rejection or an escalation stays one of
  the two.
- **`MCDecisionProofs`** (no assumption): every property of the `decision` run,
  for every sequence of proofs and policy files, however long:
  `AcceptanceNeedsProof`, `PoliciesOnlyTighten`, `WeakestLinkDecides`,
  `AcceptanceOnceProved`, `PoliciesOnlyAdd`, `HighestNeedsSignatures`; and
  `VerifiedByPinnedIssuer` for any registry of issuers. The contracts, tokens,
  issuers and policy files are those of `MCDecision`. `AcceptanceOnceProved`
  leaves aside an Invalid proof of a critical claim (the run `verify_critical`)
  and `PoliciesOnlyAdd` a file that revokes an escalation: there the documentation
  asks for something else than the code does. `PoliciesOnlyAdd` needs that merging
  one more file makes a policy that is at least as strict
  (`MergeTightens`), whatever the order of the files, which is where the rules of
  `load_policies` for each setting count. `HighestNeedsSignatures` remembers
  (`Gathered`) that each proof was made by a run whose actor `ActorOf` settled,
  and takes `VerifyToken` apart: with a `kid` there is one key of that name, and
  without it only a key set of one key is taken (`KeyOfOne`, `KeyOfTwo`). A token
  of an issuer whose audiences are pinned names one of them, or none at all
  (`Aimed`); `VerifiedByPinnedIssuer` says the same of any issuer.
- **`ContractProofs`** (`ParserAssumption`, `ContractAssumption`,
  `PropertiesAssumption`: what each rule reads in a line): every property of the
  `contract` run, for every language of lines, sources of any length, every
  registry and table of bindings. For `PreflightForetells`, that is
  `Spec => []LintForetells`, the invariant `CInv` says of the
  parser that claims and verifications are records of what lines hold and that an
  inline shell verification has its command (`RuleKeeps`, rule by rule), of the
  compiled contract that its ids are distinct and its verifications are the
  parser's, and of a report without findings that it was made of this contract.
  `Unflagged` then takes a verification none of the findings names and shows that
  neither `require_binding` nor `resolve_command` refuses it.
  - `ContractTyped` (`TypeOK`), `ClaimsOfTheSource` (`ClaimsAsWritten`),
    `ObligationsOfTheSource` (`ObligationsAsWritten`) and `NothingInertRead`
    (`NothingInert`). The properties say what a line means by the lines around
    it, the parser keeps a few variables. `SourceOK` says of each variable which
    fact of the lines read so far it remembers: `in_goal` that the next line may be
    prose (`GoalOK`), `pending_forbid` that a bare FORBID lacks its text
    (`ForbidOK`), the pending VERIFY the last one that waits (`PendingOK`),
    `last_using_line` the last line that completes (`LastOK`), and the condition
    the clauses of the one ACCEPT WHEN that may go on (`AcceptOK`); then the
    claims and verifications are those of the lines. The proof goes by the line
    just read (`h`): what the earlier lines said stands (`LinesStay`, `SaysStays`),
    the last line says what the rule that reads it takes it for (`LastLine`,
    `SaysLast`), and it comes after all others of its kind (`Counting`), so that
    the k-th claim is that of the k-th declaring line.
- **`VerifyProofs`** (`HashesExist`, `PlatformsExist`, `OwnersDistinct`,
  `PlansExist`, `SpecsExist`, `TreesExist`): every property of the runs
  `verify_solo` and `verify_concurrent`, for any contracts, registries, policies
  and bindings, and for any number of processes but in the three theorems that
  say otherwise. The last four assumptions say that a model value is not also a
  process, that a contract's plan is over its claims, that a registry's entry has
  the fields of a spec, and that what git calls clean is a tree.
  - `AcceptedOnlyIfCovered`, that is `Spec => []AcceptedCovered`. `IInv`
    says of every process that what it has in hand is recorded with every hash
    whose absence would hide a drift (`load_valid_for_claim` skips empty hashes),
    is Valid only if its verifier passed, and, when Valid, is of the run's own
    context; and of the cache that it holds only such records. The two ways into
    a run's hand are a hit (no reason to be stale, so the same context) and a
    fresh proof (the re-check after the run). `AcceptedHasProof` does the rest.
    The theorem needs no lock: it holds whatever is on disk.
  - `JournalFirst` (`JournaledBeforePublished`): `JInv` says that a process
    past the journal has its record there, so that each of the later writes is
    of a record. No lock is needed, and any write may fail.
  - `OneRunOnDisk` (`PersistedTogether`): `TInv` says, until a run dies or
    fails in the persist phase, that whoever publishes holds the lock
    (`LockOK`), what a publishing run has written so far (`PublishedOK`), and that
    while nobody publishes decision, journal, baseline and snapshot are of one
    run (`Together`).
  - `MovesAreNamed` (`BaselineChangeNamed`), with the hypothesis that there is
    one process: two that sample the baseline at once break it (see
    "Divergences" above). `PInv`: until a run moves the baseline, the one it sampled
    is the one on disk.
  - `TypeCorrect`, `AcceptedOnlyIfAuthorized` and `AcceptedOnlyIfTrue`. `WInv`
    adds to the types that, as long as nobody edited under a run, each run's
    contract, commit, dirty flag and registry are the present ones (`Synced`), each
    job still to do is of the present authorization (`JobCurrent`), each evidence
    record, in hand or on disk, was gathered by what the registry it names runs
    for a verification of the contract it names (`Sourced`), and the binding and
    the watched files of a Valid one in hand are the present ones (`StillCurrent`). A
    reused proof is then worth as much as a new one: its watched hash, or its
    commit in a clean workspace, ties it to a tree on which the check passes as
    it does on the present one. The one exception is in the property: a verifier
    that does not watch what it checks, where commit and dirty flag leave more than
    one content possible (`GitTellsContent`).
  - `PersistsUnderLock`: the runs implement `ExclusiveLock`, whoever dies or fails
    while holding it, and at most one of them is in the persist phase.
    `DirLockProofs` has the other half of the chain, from the lock file up to
    `ExclusiveLock`.
  - `DriftIsKept` (`DriftRemembered`), for one process: the run `verify_lost_drift`
    shows two that lose a drift. `DInv`: what a decided run has merged into is
    still what `stale.json` holds.
  - `LastIsBacked` (`LastBackedByEvidence`), under two hypotheses: there is one
    process, and no contract has a claim verified twice by the same verifier or
    inline command (`ProvedOnce`; inline commands count as different as long as
    no registry has an entry named `shell`, whose fingerprint the lookup would
    take for all of them). Two such verifications write one evidence file, and
    the second, if it times out, replaces by an Invalid proof the Valid one the
    decision rests on; and a run that reused a proof may publish its decision
    after another process has rewritten that proof. TLC finds both, so
    neither hypothesis can go. `HInv` says that what a run took from the cache is
    still in its file, and that what it took, made and still has to make are in
    different files (`Apart`): the fingerprint of a proof keeps the slot of its
    verification apart from all others (`SlotOfProof`), whatever the registry and
    the bindings put in it. So no proof a run saves replaces one it reuses or
    made. `BInv` says that a decision has a proof in hand for each claim it calls
    Valid, that from the journal record on all of them are saved, and that
    `last.json` is backed whenever no run is between its first evidence file and
    its own `last.json`.
- **`UniRunProofs`** (`ShellAssumption`, `UniRunAssumption`): `TypeCorrect`,
  `PassesInTime`, `WritersGone`, for any number of verifications, any capacity of
  the pipe, any amount of output and any timeout. The invariant says of each run
  that before it starts its pipe is empty and it has no processes, that exit
  code 0 is the code of a process that exited by itself, and that, when
  `run_shell` has returned, the shell is gone, nobody holds the pipe and the code
  is the one `CodeOf` gives; and, across the runs, that those
  before `at` are over and those after it have not begun.
- **`AuthorizeProofs`** (`ActsAssumption`, `JournalAssumption`,
  `AuthorizeAssumption`): `TypeCorrect`, `NothingInvented`, that is
  `Spec => []RecordedActsHappened`, and `LastActCounts`, that is
  `Spec => []LastAuthorizationStands`, for any number of processes and any
  interleaving. The invariant adds that every event a process holds or a file
  contains is of an authorization made, also after a torn line was completed by
  the next append; and that, until two rewrites overlapped or the file was
  broken, a process about to write `bindings.toml` has read its present content.
  That a batch of records has a next one (`NextEvent`) is the least-number
  principle.
  - `NoLineLost` (`RecordsReadable`) and `ReaderComplete` (`ReaderSeesAll`):
    `LineInv` says whose event stands in an unfinished line: that of a process
    still between its text and its newline, or of one that died there, and so of an
    event not acknowledged; that a line has more than one event only once a
    line was torn; and that what a reader lacks is in an archive it has still to
    open or in the live journal, until that is rotated, or such an archive removed,
    under it. The
    numbers of acts tell the events of different commands apart.
  - `WindowReadable` (`WindowKept`): `WindowInv` adds that who renames found the
    journal full and has a second no archive is later than (`RenamesFull`);
    that, for each archive, as many full files of events were written after its
    events as there are newer archives, beside what is in the live file
    (`ArchivesOrdered`); so that an archive about to be pruned holds only events
    outside the window, and its second is not given again (`DoomedOld`); and that
    everything in the window is in a file with a name (`RecentNamed`). Each of
    the three exceptions is needed: a torn line counts two events as one record,
    a process that crosses a rotation writes into a file already counted, and two
    rotations in one second overwrite an archive.
- **`BundleProofs`** (`BundleAssumption`: a contract verifies and requires its
  own claims; the fingerprints of two verifiers differ; each proof has a file and
  a temporary file, which is no other proof's file; the absent file is none of
  what a file may hold): `NoFalseAlarm`, `OneWorkspace` and `NothingSlipsIn`, the
  three properties of the `bundle` run, for any contracts, verifiers, registries,
  settings, policies and number of runs and edits. The invariant has three parts.
  On disk, the file of a verification holds its own proof (`FilesOK`), a verify at
  work has there all it need not persist any more (`VerifyOK`), the last decision
  rests on proofs that are there until others come later (`LastOK`), and a settled
  one has a proof of each verification (`SettledOK`). Of an export, its records are
  of the contract and the registry it read (`Faithful` in `ExportOK`), and, while no
  proof is written (`SnapshotOK`) or nothing at all (`CalmOK`), what it read so far
  is what is there. `BundleOK`: the properties, and that an untouched bundle is
  `Sealed`, every body and the hashed fields of the header as they were hashed and
  the records counted, so that a change of any of these breaks one of them. The
  types of `Bundle`, which no run checks, are part of it.

Only model-checked:

- Everything that is liveness, `AcquireReturns` and `OrphansGoAway` of `DirLock`
  and `Returns` of `UniRun`: TLAPS has no way to prove liveness under fairness
  here, nor ENABLED.
- That the parameters of the runs satisfy the assumptions: TLC evaluates each of
  them in the runs that extend its module.

## Not modelled

- Commands that write text or display: `init`, `report`, `explain`, the display
  of `events` and `doctor`, the work order of `brief` and `handoff`, `pack`,
  `speckit`, `to_otlp`, `registry_diff`; argument dispatch; Windows branches.
- Glob matching and hashing (functions of the tree), the signature check of a
  token (a library: a token is accepted by the key it was signed with), the OPA
  process (any policy may be its answer), the
  parsing of the fields of `config.toml` and of policy files (a field is set or
  it is not, so that negative timeouts and an integer ratio are outside).
- The events record of a bundle, which is shipped unchecked; bindings that no
  requirement of a contract asks for, which an export does not read. In `Bundle`
  one verify writes at a time, as the persist lock has it; two `VERIFY`s of a claim
  by one verifier count as one; a file has one temporary name (in the code the
  process number is in it); a record is relabelled only to a kind the check
  ignores.
- Of the two pipes of a child one; the other behaves the same.
- Liveness of `Verify`, `Authorize`, `Bundle` and the parser: each is a sequence
  of steps that wait for nothing but the lock, whose `AcquireReturns` is checked,
  and the verifiers, whose `Returns` is.

## Plan

1. Done: `Evidence`, `Registry`, `Decision`, `ExclusiveLock`, `DirLock`,
   `Verify`, their runs, and the theorems about them.
2. Done: `Journal`, `Bindings` and their composition `Authorize`.
3. Done: `Shell` and `UniRun`, with the command's termination.
4. Done: `Parser`, `Contract`, what a contract is to its source, the preflight.
5. Done: `Bundle`; `Identity` before `Decision`.
6. Done: theorems about every safety property of the `decision`, `dirlock`,
   `uni_run`, `authorize`, `contract`, `bundle` and `Verify` runs.
7. Done: tokens without an audience, untracked files and workspaces without git,
   several proofs of a claim in a bundle.
