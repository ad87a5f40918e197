------------------------- MODULE ContractProperties -------------------------
(***************************************************************************)
(* What a contract that parses, compiles and passes the preflight means,   *)
(* said of the source as a whole: docs/specification.md describes the      *)
(* grammar by what stands where, the parser goes through it line by line.  *)
(***************************************************************************)
EXTENDS Contract

CONSTANTS Id, Text   \* the claim ids and the texts of Lines

ASSUME PropertiesAssumption ==
  \A l \in Lines :
    /\ l.dir \in {"CLAIM", "INVARIANT", "VERIFY"} => l.id \in Id \cup {NoId}
    /\ l.dir = "REQUIRE" => l.text \in Text \cup {""}

ContractRead == phase \notin {"reading", "refused"}

TypeOK ==
  /\ source \in Seq(Lines) /\ Len(source) \in 0..MaxLines
  /\ phase \in {"reading", "refused", "parsed", "compiled", "linted", "briefed"}
  /\ headers \subseteq Headers /\ inGoal \in BOOLEAN
  /\ \A i \in DOMAIN goal : goal[i] \in DOMAIN source
  /\ \A i \in DOMAIN claims :
       /\ claims[i].id \in Id \cup {ForbidId(n) : n \in 1..forbids}
       /\ claims[i].critical => claims[i].required /\ claims[i].kind = "invariant"
       /\ claims[i].line \in DOMAIN source
  /\ \A i \in DOMAIN verifications :
       verifications[i].claim \in Id /\ verifications[i].requirement \in Text \cup {NoHash}
  /\ pendingVerify \in [claim : Id, line : DOMAIN source] \cup {NoVerify}
  /\ {pendingForbid, forbids, lastUsing} \subseteq 0..Len(source)
  /\ condition = NoCondition \/ condition \in Seq({"required", "critical", "AND", "other"})
  /\ Len(ir.claims) \in {0, Len(claims)}

-----------------------------------------------------------------------------
\* Between two lines stands none of the given kind.
Clear(i, k, Kind(_)) == \A n \in i + 1..k - 1 : ~Kind(n)

\* How many lines of a kind there are up to this one.
Upto(i, lines) == Cardinality({n \in lines : n <= i})

EndsGoal(i) ==
  source[i].dir \in {"BLANK", "HEADER"} \/ (source[i].word /\ source[i].dir \notin FirstRules)

IsProse(i) ==
  /\ source[i].dir \notin FirstRules /\ ~source[i].word
  /\ \E g \in 1..i - 1 : source[g].dir = "GOAL" /\ Clear(g, i, EndsGoal)

\* The text of a bare FORBID is the next line none of the early rules reads.
Late(i) == source[i].dir \notin EarlyRules /\ ~IsProse(i)
BareForbid(i) == source[i].dir = "FORBID" /\ source[i].text = "" /\ ~IsProse(i)
IsForbidText(i) == Late(i) /\ \E f \in 1..i - 1 : BareForbid(f) /\ Clear(f, i, Late)

Says(i, dir) == source[i].dir = dir /\ ~IsProse(i) /\ ~IsForbidText(i)
Forbids(i) == IsForbidText(i) \/ (Says(i, "FORBID") /\ source[i].text # "")
Declares(i) == Says(i, "CLAIM") \/ Says(i, "INVARIANT") \/ Forbids(i)

Forbidding == {i \in DOMAIN source : Forbids(i)}
Declaring == {i \in DOMAIN source : Declares(i)}

Declared(i) ==
  IF Forbids(i)
  THEN [id |-> ForbidId(Upto(i, Forbidding)), required |-> TRUE, critical |-> TRUE]
  ELSE [id |-> source[i].id,
        required |-> source[i].dir = "INVARIANT" \/ "OPTIONAL" \notin source[i].modifiers,
        critical |-> "CRITICAL" \in source[i].modifiers]

(***************************************************************************)
(* A contract holds the claims its author wrote, no more, no less, in that *)
(* order, as required and as critical as written, and a forbidden thing    *)
(* keeps its id whatever claims stand around it: its bindings and its      *)
(* evidence are found under that id.                                       *)
(***************************************************************************)
ClaimsAsWritten ==
  ContractRead =>
    /\ Len(claims) = Cardinality(Declaring)
    /\ \A i \in Declaring :
         LET c == claims[Upto(i, Declaring)]
         IN  [id |-> c.id, required |-> c.required, critical |-> c.critical] = Declared(i)

-----------------------------------------------------------------------------
Inline(i) == Says(i, "VERIFY") /\ source[i].ref # NoHash
Waits(i) == Says(i, "VERIFY") /\ source[i].ref = NoHash
Completes(i) == source[i].dir = "USING" \/ Inline(i)
Completing == {i \in DOMAIN source : Completes(i)}

\* The VERIFY a USING completes is the last one that waits.
Waiting(i) == {v \in 1..i - 1 : Waits(v) /\ Clear(v, i, Waits)}
VerifyOf(i) == IF Inline(i) THEN i ELSE CHOOSE v \in Waiting(i) : TRUE

Substance(i) == ~Gap(source[i])
Requiring(i) == {r \in i + 1..Len(source) : Says(r, "REQUIRE") /\ Clear(i, r, Substance)}
RequirementOf(i) ==
  IF Requiring(i) = {} THEN NoHash ELSE source[CHOOSE r \in Requiring(i) : TRUE].text

Obligation(i) ==
  [claim |-> source[VerifyOf(i)].id, verifier_ref |-> source[i].ref,
   inline_shell |-> source[i].inline, requirement |-> RequirementOf(i)]

(***************************************************************************)
(* Every verification is the one written for its claim, and a requirement  *)
(* sits on the verification right above it and nowhere else: it decides    *)
(* which claim runs only under a human's authorization.                    *)
(***************************************************************************)
ObligationsAsWritten ==
  ContractRead =>
    /\ Len(verifications) = Cardinality(Completing)
    /\ \A i \in Completing :
         CompiledVerification(verifications[Upto(i, Completing)]) = Obligation(i)

(***************************************************************************)
(* "A spec must never promise inert semantics": no contract contains a     *)
(* reserved REJECT WHEN or ESCALATE WHEN, an unknown directive, a          *)
(* requirement of nothing or an acceptance other than that every required  *)
(* claim is verified, except as the text a bare FORBID takes for its own.  *)
(***************************************************************************)
Continued(i) == {n \in i + 1..Len(source) : \A k \in i + 1..n : source[k].dir = "CLAUSE"}
ClausesOf(n) == {<<n, k>> : k \in DOMAIN source[n].clauses}
Clauses(i) == UNION {ClausesOf(n) : n \in {i} \cup Continued(i)}
ClauseAt(p) == source[p[1]].clauses[p[2]]

Supported(i) ==
  /\ \A p \in Clauses(i) : ClauseAt(p) # "other"
  /\ \E p \in Clauses(i) : \A q \in Clauses(i) : ClauseAt(q) = "required" <=> q = p

NothingInert ==
  ContractRead => \A i \in DOMAIN source :
    /\ ~Says(i, "REJECT WHEN") /\ ~Says(i, "ESCALATE WHEN") /\ ~Says(i, "OTHER")
    /\ Says(i, "REQUIRE") => \E v \in 1..i - 1 : Completes(v) /\ Clear(v, i, Substance)
    /\ Says(i, "ACCEPT WHEN") => Supported(i)

-----------------------------------------------------------------------------
RefusedByVerify(v, registry, bound) ==
  \/ /\ NeedsBinding(v, BaseSpec(registry, v.verifier_ref))
     /\ ~Authorizes(bound[v.claim], v, BaseSpec(registry, v.verifier_ref))
  \/ ResolveCommand(v, registry) = NoHash

(***************************************************************************)
(* `uni lint` executes nothing and still foretells `uni verify`: when it   *)
(* finds nothing, every claim has an id and a verification of its own and  *)
(* verify refuses none of them, with two exceptions: lint does not look at *)
(* inline commands, and it says nothing of an empty registry.              *)
(***************************************************************************)
LintForetells ==
  phase = "linted" /\ report.findings = {} =>
    LET registry == Registered(report.toml) IN
    /\ \A i, k \in DOMAIN ir.claims : ir.claims[i].id = ir.claims[k].id => i = k
    /\ \A c \in Claims : VerificationsOf(c.id) # {}
    /\ \A v \in Verifications : RefusedByVerify(v, registry, report.bindings) =>
         v.inline_shell # NoHash \/ DOMAIN registry = {}
=============================================================================
