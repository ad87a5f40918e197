------------------------------ MODULE Contract ------------------------------
(***************************************************************************)
(* From a contract's source to its preflight: parse (Parser), compile      *)
(* (crates/uni-ir), then `uni lint` or `uni brief` of crates/uni-cli       *)
(* against the registry and the bindings found at that moment.             *)
(***************************************************************************)
EXTENDS Parser, Registry

CONSTANTS
  Registries,     \* the [verifiers] tables of config.toml
  BindingTables,  \* what load_all returns: [claim id -> binding, or NoHash]
  PinsATest       \* the commands with the name of a test baked in

\* A registry holds a verifier under each of its refs.
ASSUME ContractAssumption ==
  \A toml \in Registries : \A r \in DOMAIN Registered(toml) : Registered(toml)[r] # NoHash

VARIABLES
  ir,       \* the verifications of the compiled contract, its claims in order
  report    \* what lint or brief said, and what it was said about

vars == <<parserVars, ir, report>>

NoIr == [claims |-> <<>>, verification |-> <<>>]
NoReport == [findings |-> {}, toml |-> NoHash, bindings |-> NoHash]

Init == ParserInit /\ ir = NoIr /\ report = NoReport

(***************************************************************************)
(* compile: claim ids are unique, whatever the kinds of the claims.        *)
(***************************************************************************)
Duplicated == \E i, k \in DOMAIN claims : i < k /\ claims[i].id = claims[k].id

MapSeq(s, Op(_)) == [i \in DOMAIN s |-> Op(s[i])]

CompiledClaim(c) ==
  [id |-> c.id, kind |-> c.kind, required |-> c.required, critical |-> c.critical,
   ensure |-> c.ensure]
CompiledVerification(v) ==
  [claim |-> v.claim, verifier_ref |-> v.verifier_ref, inline_shell |-> v.inline_shell,
   requirement |-> v.requirement]

Compile ==
  /\ phase = "parsed"
  /\ IF Duplicated
     THEN Refuse /\ UNCHANGED ir
     ELSE /\ phase' = "compiled"
          /\ ir' = [claims |-> MapSeq(claims, CompiledClaim),
                    verification |-> MapSeq(verifications, CompiledVerification)]
          /\ UNCHANGED parsing
  /\ UNCHANGED report

-----------------------------------------------------------------------------
Claims == Range(ir.claims)
Verifications == Range(ir.verification)
VerificationsOf(id) == {v \in Verifications : v.claim = id}

Finding(kind, id) == [kind |-> kind, claim |-> id]

MissingVerify == {Finding("missing-verify", c.id) : c \in {d \in Claims : VerificationsOf(d.id) = {}}}

\* Silent while the registry is empty.
UnknownVerifier(registry) ==
  {Finding("unknown-verifier", v.claim) :
     v \in {w \in Verifications : /\ DOMAIN registry # {}
                                  /\ w.verifier_ref \notin {"shell"} \cup DOMAIN registry}}

DuplicateVerify ==
  {Finding("duplicate-verify", ir.verification[i].claim) :
     i \in {k \in DOMAIN ir.verification : \E n \in k + 1..Len(ir.verification) :
              \A f \in {"claim", "verifier_ref", "inline_shell"} :
                ir.verification[k][f] = ir.verification[n][f]}}

\* A template without an authorized selector binding.
SelectorTemplate(registry, bound) ==
  {Finding("selector-template", v.claim) :
     v \in {w \in Verifications : /\ IsTemplate(BaseSpec(registry, w.verifier_ref))
                                  /\ ~Authorizes(bound[w.claim], w, registry[w.verifier_ref])}}

PinnedTestSelector(registry) ==
  {Finding("pinned-test-selector", v.claim) :
     v \in {w \in Verifications : LET spec == BaseSpec(registry, w.verifier_ref) IN
              /\ spec # NoHash /\ spec.kind = "shell"
              /\ ~IsTemplate(spec) /\ spec.run \in PinsATest}}

\* Mutant of BoundTo: any binding of the claim will do.
BoundToAnything(binding, v) == binding # NoHash

BoundTo(binding, v) ==
  binding # NoHash /\ binding.verifier_ref = v.verifier_ref /\ binding.requirement = v.requirement

\* A claim flagged for its template is not flagged again.
UnboundRequirement(flagged, bound) ==
  {Finding("unbound-requirement", v.claim) :
     v \in {w \in Verifications : /\ w.requirement # NoHash
                                  /\ w.claim \notin flagged
                                  /\ ~BoundTo(bound[w.claim], w)}}

Findings(registry, bound) ==
  LET template == SelectorTemplate(registry, bound)
  IN  MissingVerify \cup UnknownVerifier(registry) \cup DuplicateVerify
      \cup template \cup PinnedTestSelector(registry)
      \cup UnboundRequirement({f.claim : f \in template}, bound)

Lint(toml, bound) ==
  /\ phase = "compiled"
  /\ phase' = "linted"
  /\ report' = [toml |-> toml, bindings |-> bound,
                findings |-> Findings(Registered(toml), bound)]

(***************************************************************************)
(* brief::build: of every claim the first verification only.               *)
(***************************************************************************)
FirstOf(id) == SelectSeq(ir.verification, LAMBDA v : v.claim = id)

BriefProblem(c, registry) ==
  LET own == FirstOf(c.id) IN
  IF own = <<>> THEN {Finding("no VERIFY", c.id)}
  ELSE IF DOMAIN registry # {} /\ own[1].verifier_ref \notin DOMAIN registry
       THEN {Finding("not in the trusted registry", c.id)} ELSE {}

Brief(toml, bound) ==
  /\ phase = "compiled"
  /\ phase' = "briefed"
  /\ report' = [toml |-> toml, bindings |-> bound,
                findings |-> UNION {BriefProblem(c, Registered(toml)) : c \in Claims}]

Preflight ==
  /\ \E toml \in Registries, bound \in BindingTables : Lint(toml, bound) \/ Brief(toml, bound)
  /\ UNCHANGED <<parsing, ir>>

Next ==
  \/ \E l \in Lines : ReadLine(l) /\ UNCHANGED <<ir, report>>
  \/ EndOfSource /\ UNCHANGED <<ir, report>>
  \/ Compile
  \/ Preflight

Spec == Init /\ [][Next]_vars
=============================================================================
