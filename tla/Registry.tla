------------------------------ MODULE Registry ------------------------------
(***************************************************************************)
(* The trusted verifier registry of crates/uni-verify: how a verification  *)
(* of the contract resolves to a command, what identifies a proof in the   *)
(* cache, what a verifier observes.                                        *)
(*                                                                         *)
(* A registry is a function from verifier refs to specs.  A spec's         *)
(* `expect` stands for its expect and expect_not texts, `files` for its    *)
(* globs, `expect_sha256` for its table of expected hashes.                *)
(***************************************************************************)
EXTENDS Naturals, Evidence

CONSTANTS
  Watched,    \* [file globs -> [tree -> hash of the matching files, or NoHash]]
  PassesOn    \* [check -> the set of trees the check succeeds on]

ShellSpec(cmd) ==
  [kind |-> "shell", run |-> cmd, template |-> FALSE, selector |-> NoHash,
   expect |-> NoHash, files |-> NoHash, expect_sha256 |-> NoHash, max_age |-> 0]

(***************************************************************************)
(* load_registry: `toml` is the [verifiers] table, NoHash when config.toml *)
(* is absent or does not parse.  Tables that cannot run are dropped; an    *)
(* entry that is just a command, of kind "string", is taken as it is, even *)
(* the empty one.                                                          *)
(***************************************************************************)
Usable(entry) ==
  \/ entry.kind = "string"
  \/ entry.kind = "shell" /\ entry.run # ""
  \/ entry.kind = "file-hash" /\ entry.expect_sha256 # NoHash

Entry(entry) == IF entry.kind = "string" THEN [entry EXCEPT !.kind = "shell"] ELSE entry

Registered(toml) ==
  LET refs == IF toml = NoHash THEN {} ELSE {r \in DOMAIN toml : Usable(toml[r])}
  IN  [r \in refs |-> Entry(toml[r])]

BaseSpec(registry, ref) == IF ref \in DOMAIN registry THEN registry[ref] ELSE NoHash

\* A template is a shell command that leaves its test selector open.
IsTemplate(spec) == spec # NoHash /\ spec.kind = "shell" /\ spec.template

(***************************************************************************)
(* require_binding: a verification that declares a requirement, or whose   *)
(* verifier is a template, runs only under a binding a human authorized    *)
(* for exactly this verifier and requirement.                              *)
(***************************************************************************)
NeedsBinding(v, spec) == v.requirement # NoHash \/ IsTemplate(spec)

Authorizes(binding, v, spec) ==
  /\ binding # NoHash
  /\ binding.verifier_ref = v.verifier_ref
  /\ binding.requirement = v.requirement
  /\ IsTemplate(spec) => binding.selector # NoHash

\* The binding_hash that authorizes v; NoHash when v needs none.
Authorization(binding, v, spec) == IF NeedsBinding(v, spec) THEN binding ELSE NoHash

WithSelector(spec, authorization) ==
  IF IsTemplate(spec)
  THEN [spec EXCEPT !.template = FALSE, !.selector = authorization.selector]
  ELSE spec

(***************************************************************************)
(* resolve_command: what runs when the ref is not a registry key resolved  *)
(* already.  An inline command is accepted while the registry is empty, or *)
(* when the registry holds the same shell command.  NoHash is the error.   *)
(***************************************************************************)
ResolveCommand(v, registry) ==
  IF v.verifier_ref = "shell"
  THEN IF /\ v.inline_shell # NoHash
          /\ \/ DOMAIN registry = {}
             \/ \E r \in DOMAIN registry :
                  registry[r].kind = "shell" /\ registry[r].run = v.inline_shell
       THEN ShellSpec(v.inline_shell) ELSE NoHash
  ELSE IF /\ v.verifier_ref \in DOMAIN registry
          /\ v.inline_shell # NoHash =>
               /\ registry[v.verifier_ref].kind = "shell"
               /\ registry[v.verifier_ref].run = v.inline_shell
       THEN registry[v.verifier_ref] ELSE NoHash

(***************************************************************************)
(* spec_fingerprint: neither the kind of the verifier, the expected file   *)
(* hashes, the timeout nor the maximum age is part of it.                  *)
(***************************************************************************)
SpecFingerprint(ref, spec, actor) ==
  <<ref, spec.run, spec.selector, spec.expect, spec.files, actor>>

\* A ref outside the registry is looked up under a name of its own.
LookupFingerprint(v, spec, actor) ==
  IF spec = NoHash THEN <<"inline", v.verifier_ref, actor>>
  ELSE SpecFingerprint(v.verifier_ref, spec, actor)

ArtifactHash(spec, tree) ==
  IF spec = NoHash \/ spec.files = NoHash THEN NoHash ELSE Watched[spec.files][tree]

\* shell runs its command, file-hash compares the expected hashes.
Check(spec) ==
  IF spec.kind = "shell" THEN <<spec.run, spec.selector, spec.expect>>
  ELSE <<spec.expect_sha256>>

Passes(spec, tree) == tree \in PassesOn[Check(spec)]
=============================================================================
