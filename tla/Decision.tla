------------------------------ MODULE Decision ------------------------------
(***************************************************************************)
(* The decision engine of crates/uni-decision: the evidence truth table,   *)
(* the policy layer on top of it, the last escalation cmd_verify adds, and *)
(* the assurance scale.  Everything is a function of its arguments.        *)
(*                                                                         *)
(* `ir` has the claims of a contract and which of them are required and    *)
(* critical; `evs` is the sequence of evidence a run gathered, in order.   *)
(***************************************************************************)
EXTENDS Naturals, Sequences, FiniteSets

Decisions == {"Accepted", "Rejected", "EvidenceRequired", "Escalated"}

---------------------------------------------------------------------------
(* Truth table *)

\* The evidence gathered for a claim, as positions in evs.
Of(c, evs) == {i \in DOMAIN evs : evs[i].claim = c}

InState(c, evs, s) == {i \in Of(c, evs) : evs[i].state = s}

\* The engine only looks at the first element of a group.
IsFirst(i, group) == i \in group /\ \A j \in group : i <= j

\* Mutants of Proved: the exit code is not looked at, the last Valid evidence counts.
ProvedAnyExit(c, evs) == InState(c, evs, "Valid") # {}
ProvedByLast(c, evs) ==
  \E i \in InState(c, evs, "Valid") :
    evs[i].exit_code = 0 /\ \A j \in InState(c, evs, "Valid") : j <= i

\* The first Valid evidence exited 0: the claim is verified.
Proved(c, evs) ==
  \E i \in DOMAIN evs : /\ IsFirst(i, InState(c, evs, "Valid"))
                        /\ evs[i].exit_code = 0

\* Valid evidence that nevertheless records a failing exit.
Contradicted(c, evs) == InState(c, evs, "Valid") # {} /\ ~Proved(c, evs)

Unproved(c, evs) == InState(c, evs, "Valid") = {}

ClaimState(c, evs) ==
  IF Proved(c, evs) THEN "Valid"
  ELSE IF /\ Unproved(c, evs)
          /\ \E i \in DOMAIN evs : IsFirst(i, Of(c, evs)) /\ evs[i].state = "Stale"
  THEN "Stale"
  ELSE "Invalid"

CriticalFailure(c, ir, evs) ==
  /\ c \in ir.critical
  /\ \/ Contradicted(c, evs)
     \/ Unproved(c, evs) /\ InState(c, evs, "Invalid") # {}

Missing(c, ir, evs) ==
  /\ c \in ir.critical \cup ir.required
  /\ ~Proved(c, evs)
  /\ ~CriticalFailure(c, ir, evs)

TruthTable(ir, evs) ==
  IF \E c \in ir.claims : CriticalFailure(c, ir, evs) THEN "Rejected"
  ELSE IF \E c \in ir.claims : Missing(c, ir, evs) THEN "EvidenceRequired"
  ELSE "Accepted"

Evaluate(ir, evs) ==
  [decision |-> TruthTable(ir, evs),
   claims   |-> [c \in ir.claims |-> ClaimState(c, evs)]]

---------------------------------------------------------------------------
(* Policies *)

\* min_verified_ratio is a percentage here; 0 is the default, no minimum.
Policy ==
  [reject_on_invalid : BOOLEAN, escalate_on_stale : BOOLEAN,
   escalate_on_missing : BOOLEAN, min_verified_ratio : 0..100]

ClaimsIn(result, s) == {c \in DOMAIN result.claims : result.claims[c] = s}

BelowRatio(result, policy) ==
  /\ DOMAIN result.claims # {}
  /\ Cardinality(ClaimsIn(result, "Valid")) * 100
       < policy.min_verified_ratio * Cardinality(DOMAIN result.claims)

\* Mutant of PolicyDecision: a downgraded rejection asks for evidence.
PolicyDecisionLenient(result, policy) ==
  LET invalid == ClaimsIn(result, "Invalid") # {}
  IN  IF BelowRatio(result, policy) THEN "Rejected"
      ELSE IF invalid /\ ~policy.reject_on_invalid /\ result.decision = "Rejected"
      THEN "EvidenceRequired"
      ELSE result.decision

PolicyDecision(result, policy) ==
  LET stale   == ClaimsIn(result, "Stale") # {}
      invalid == ClaimsIn(result, "Invalid") # {}
      base    == result.decision
  IN  IF BelowRatio(result, policy) THEN "Rejected"
      ELSE IF \/ stale /\ policy.escalate_on_stale /\ base # "Accepted"
              \/ invalid /\ ~policy.reject_on_invalid /\ base = "Rejected"
              \/ invalid /\ policy.escalate_on_missing /\ base = "EvidenceRequired"
      THEN "Escalated"
      ELSE base

ApplyPolicy(result, policy) ==
  [result EXCEPT !.decision = PolicyDecision(result, policy)]

\* cmd_verify, after apply_policy: a proof that drifted and was not renewed.
EscalateUnrenewed(result, policy, staleIds) ==
  IF /\ policy.escalate_on_stale
     /\ result.decision # "Accepted"
     /\ ~(staleIds \subseteq ClaimsIn(result, "Valid"))
  THEN [result EXCEPT !.decision = "Escalated"]
  ELSE result

Decide(ir, evs, policy, staleIds) ==
  EscalateUnrenewed(ApplyPolicy(Evaluate(ir, evs), policy), policy, staleIds)

(***************************************************************************)
(* load_policies: the merge of the [policy] tables, in file name order.    *)
(* A field a table does not set is absent from its record's domain.  The   *)
(* last setting of reject_on_invalid wins, one TRUE is enough for an       *)
(* escalation, and the largest ratio wins.                                 *)
(***************************************************************************)
Setting(files, field) == {i \in DOMAIN files : field \in DOMAIN files[i]}

\* Mutant of Escalation: a file that does not set a field turns it off again.
EscalationOfLastFile(files, field) ==
  \E i \in Setting(files, field) : files[i][field] /\ i = Len(files)

Escalation(files, field) == \E i \in Setting(files, field) : files[i][field]

LoadPolicies(files) ==
  LET rejects == Setting(files, "reject_on_invalid")
      ratios  == {files[i].min_verified_ratio : i \in Setting(files, "min_verified_ratio")}
  IN  [reject_on_invalid   |-> \A i \in rejects :
                                 (\A j \in rejects : j <= i) => files[i].reject_on_invalid,
       escalate_on_stale   |-> Escalation(files, "escalate_on_stale"),
       escalate_on_missing |-> Escalation(files, "escalate_on_missing"),
       min_verified_ratio  |-> CHOOSE m \in ratios \cup {0} :
                                 \A r \in ratios \cup {0} : r <= m]

---------------------------------------------------------------------------
(* Assurance scale *)

Anonymous(actor) == actor.id \in {"", "anonymous"}

IsVerified(actor) == actor.assurance = "verified"

\* Mutant of Independence: the first evidence settles it, whatever it is.
IndependenceOfFirst(evs) ==
  IF evs = << >> \/ Anonymous(evs[1].actor) \/ Anonymous(evs[1].executor) THEN "Anonymous"
  ELSE IF evs[1].actor.id = evs[1].executor.id THEN "SameActor" ELSE "Independent"

\* The first evidence that is anonymous or self-proved settles independence.
Independence(evs) ==
  LET anonymous  == {i \in DOMAIN evs : \/ Anonymous(evs[i].actor)
                                        \/ Anonymous(evs[i].executor)}
      sameActor  == {i \in DOMAIN evs : evs[i].actor.id = evs[i].executor.id}
      disqualify == anonymous \cup sameActor
  IN  IF evs = << >> THEN "Anonymous"
      ELSE IF disqualify = {} THEN "Independent"
      ELSE IF \E i \in anonymous : IsFirst(i, disqualify) THEN "Anonymous"
      ELSE "SameActor"

IdentityAssurance(evs) ==
  IF evs # << >> /\ \A i \in DOMAIN evs : IsVerified(evs[i].actor)
  THEN "VERIFIED" ELSE "SELF-DECLARED"

AssuranceFor(evs) ==
  IF evs = << >> THEN "A0"
  ELSE IF Independence(evs) # "Independent" THEN "A2"
  ELSE IF IdentityAssurance(evs) = "VERIFIED" THEN "A3"
  ELSE "A3-D"
=============================================================================
