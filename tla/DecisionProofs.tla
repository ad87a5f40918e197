--------------------------- MODULE DecisionProofs ---------------------------
(***************************************************************************)
(* What the decision engine guarantees for every contract, every sequence  *)
(* of evidence and every policy.                                           *)
(***************************************************************************)
EXTENDS Decision, FiniteSetTheorems, TLAPS

\* The policy layer leaves the claims of the truth table alone.
LEMMA ApplyPolicyFields ==
  ASSUME NEW ir, NEW evs, NEW policy
  PROVE  /\ ApplyPolicy(Evaluate(ir, evs), policy).decision
              = PolicyDecision(Evaluate(ir, evs), policy)
         /\ ApplyPolicy(Evaluate(ir, evs), policy).claims = Evaluate(ir, evs).claims
  BY DEF ApplyPolicy, Evaluate

\* A policy never accepts what it was handed as something else.
LEMMA PolicyNeverAccepts ==
  ASSUME NEW result, NEW policy, PolicyDecision(result, policy) = "Accepted"
  PROVE  result.decision = "Accepted" /\ ~BelowRatio(result, policy)
  BY DEF PolicyDecision

\* The last escalation of cmd_verify only ever escalates.
LEMMA EscalationNeverAccepts ==
  ASSUME NEW ir, NEW evs, NEW policy, NEW staleIds,
         Decide(ir, evs, policy, staleIds).decision = "Accepted"
  PROVE  PolicyDecision(Evaluate(ir, evs), policy) = "Accepted"
<1> DEFINE applied == ApplyPolicy(Evaluate(ir, evs), policy)
<1>1. [applied EXCEPT !.decision = "Escalated"].decision # "Accepted"
  BY DEF ApplyPolicy, Evaluate
<1>2. Decide(ir, evs, policy, staleIds) = applied
  BY <1>1 DEF Decide, EscalateUnrenewed
<1> QED BY <1>2, ApplyPolicyFields

\* Whatever the policy files, the staleness of the claims and the order of the
\* evidence: `uni verify` accepts only what the truth table accepts, and no
\* contract below the minimum verified ratio.
THEOREM AcceptedByTruthTable ==
  ASSUME NEW ir, NEW evs, NEW policy, NEW staleIds,
         Decide(ir, evs, policy, staleIds).decision = "Accepted"
  PROVE  TruthTable(ir, evs) = "Accepted" /\ ~BelowRatio(Evaluate(ir, evs), policy)
<1>1. Evaluate(ir, evs).decision = TruthTable(ir, evs)
  BY DEF Evaluate
<1> QED BY <1>1, EscalationNeverAccepts, PolicyNeverAccepts

\* A proved claim has Valid evidence of a verifier that exited 0.
LEMMA ProvedHasProof ==
  ASSUME NEW c, NEW evs, Proved(c, evs)
  PROVE  \E i \in DOMAIN evs :
           evs[i].claim = c /\ evs[i].state = "Valid" /\ evs[i].exit_code = 0
  BY DEF Proved, IsFirst, InState, Of

\* An accepted contract has, for every claim that is required or critical,
\* Valid evidence of a verifier that exited 0: no combination of policies,
\* stale claims and further evidence accepts a claim nobody proved.
THEOREM AcceptedHasProof ==
  ASSUME NEW ir, NEW evs, NEW policy, NEW staleIds,
         Decide(ir, evs, policy, staleIds).decision = "Accepted",
         NEW c \in ir.claims \cap (ir.required \cup ir.critical)
  PROVE  \E i \in DOMAIN evs :
           evs[i].claim = c /\ evs[i].state = "Valid" /\ evs[i].exit_code = 0
<1>1. TruthTable(ir, evs) = "Accepted"
  BY AcceptedByTruthTable
<1>2. ~CriticalFailure(c, ir, evs) /\ ~Missing(c, ir, evs)
  BY <1>1 DEF TruthTable
<1>3. Proved(c, evs)
  BY <1>2 DEF Missing
<1> QED BY <1>3, ProvedHasProof
-----------------------------------------------------------------------------
\* Evidence that comes later leaves the first Valid proof of a claim the first.
LEMMA ProvedStays ==
  ASSUME NEW S, NEW evs \in Seq(S), NEW e \in S, NEW c, Proved(c, evs)
  PROVE  Proved(c, Append(evs, e))
<1> DEFINE more == Append(evs, e)
<1>1. /\ DOMAIN evs = 1..Len(evs) /\ DOMAIN more = 1..Len(evs) + 1 /\ Len(evs) \in Nat
      /\ \A k \in DOMAIN evs : more[k] = evs[k]
  OBVIOUS
<1>2. PICK i \in DOMAIN evs : IsFirst(i, InState(c, evs, "Valid")) /\ evs[i].exit_code = 0
  BY DEF Proved
<1>3. i \in DOMAIN more /\ more[i] = evs[i]
  BY <1>1
<1> HIDE DEF more
<1>4. i \in InState(c, more, "Valid")
  BY <1>2, <1>3 DEF IsFirst, InState, Of
<1>5. ASSUME NEW j \in InState(c, more, "Valid") PROVE i <= j
  <2>1. j \in 1..Len(evs) + 1 /\ more[j].claim = c /\ more[j].state = "Valid"
    BY <1>1 DEF InState, Of
  <2>2. CASE j \in DOMAIN evs
    <3>1. j \in InState(c, evs, "Valid")
      BY <1>1, <2>1, <2>2 DEF InState, Of
    <3> QED BY <1>2, <3>1 DEF IsFirst
  <2>3. CASE j \notin DOMAIN evs
    BY <1>1, <2>1, <2>3
  <2> QED BY <2>2, <2>3
<1> QED BY <1>2, <1>3, <1>4, <1>5 DEF Proved, IsFirst, more

\* What the truth table accepts it accepts with one proof more.
LEMMA TableStays ==
  ASSUME NEW S, NEW evs \in Seq(S), NEW e \in S, NEW ir, TruthTable(ir, evs) = "Accepted"
  PROVE  TruthTable(ir, Append(evs, e)) = "Accepted"
<1> DEFINE more == Append(evs, e)
<1>1. SUFFICES ASSUME NEW c \in ir.claims
               PROVE  ~CriticalFailure(c, ir, more) /\ ~Missing(c, ir, more)
  BY DEF TruthTable
<1>2. CASE c \in ir.critical \cup ir.required
  <2>1. ~CriticalFailure(c, ir, evs) /\ ~Missing(c, ir, evs)
    BY DEF TruthTable
  <2>2. Proved(c, more)
    BY <1>2, <2>1, ProvedStays DEF Missing
  <2> HIDE DEF more
  <2>3. InState(c, more, "Valid") # {}
    BY <2>2 DEF Proved, IsFirst
  <2> QED BY <2>2, <2>3 DEF CriticalFailure, Contradicted, Unproved, Missing
<1>3. CASE c \notin ir.critical \cup ir.required
  BY <1>3 DEF CriticalFailure, Missing
<1> QED BY <1>2, <1>3

\* Below the three layers: what the truth table accepts and no ratio forbids.
LEMMA AcceptedWhen ==
  ASSUME NEW ir, NEW evs, NEW policy, NEW staleIds,
         TruthTable(ir, evs) = "Accepted", ~BelowRatio(Evaluate(ir, evs), policy)
  PROVE  Decide(ir, evs, policy, staleIds).decision = "Accepted"
<1>1. PolicyDecision(Evaluate(ir, evs), policy) = "Accepted"
  <2>1. Evaluate(ir, evs).decision = "Accepted"
    BY DEF Evaluate
  <2> QED BY <2>1 DEF PolicyDecision
<1>2. ApplyPolicy(Evaluate(ir, evs), policy).decision = "Accepted"
  BY <1>1, ApplyPolicyFields
<1> QED BY <1>2 DEF Decide, EscalateUnrenewed

\* A claim the table calls Valid stays so: the verified ratio never falls.
LEMMA RatioStays ==
  ASSUME NEW S, NEW evs \in Seq(S), NEW e \in S, NEW ir, NEW policy,
         IsFiniteSet(ir.claims), policy.min_verified_ratio \in Nat,
         ~BelowRatio(Evaluate(ir, evs), policy)
  PROVE  ~BelowRatio(Evaluate(ir, Append(evs, e)), policy)
<1> DEFINE more   == Append(evs, e)
           before == ClaimsIn(Evaluate(ir, evs), "Valid")
           after  == ClaimsIn(Evaluate(ir, more), "Valid")
<1>1. /\ Evaluate(ir, evs).claims = [c \in ir.claims |-> ClaimState(c, evs)]
      /\ Evaluate(ir, more).claims = [c \in ir.claims |-> ClaimState(c, more)]
  BY DEF Evaluate
<1>2. /\ before = {c \in ir.claims : ClaimState(c, evs) = "Valid"}
      /\ after = {c \in ir.claims : ClaimState(c, more) = "Valid"}
  BY <1>1 DEF ClaimsIn
<1>3. before \subseteq after
  <2>1. SUFFICES ASSUME NEW c \in ir.claims, ClaimState(c, evs) = "Valid"
                 PROVE  ClaimState(c, more) = "Valid"
    BY <1>2
  <2>2. Proved(c, evs)
    BY <2>1 DEF ClaimState
  <2>3. Proved(c, more)
    BY <2>2, ProvedStays
  <2> QED BY <2>3 DEF ClaimState
<1>4. /\ Cardinality(before) \in Nat /\ Cardinality(after) \in Nat
      /\ Cardinality(before) <= Cardinality(after)
  <2>1. IsFiniteSet(after)
    BY <1>2, FS_Subset
  <2> QED BY <1>3, <2>1, FS_Subset, FS_CardinalityType
<1>5. DOMAIN Evaluate(ir, evs).claims = ir.claims /\ DOMAIN Evaluate(ir, more).claims = ir.claims
  BY <1>1
<1>6. CASE ir.claims = {}
  BY <1>5, <1>6 DEF BelowRatio
<1>7. CASE ir.claims # {}
  <2> DEFINE least == policy.min_verified_ratio * Cardinality(ir.claims)
  <2>1. ~(Cardinality(before) * 100 < least)
    BY <1>5, <1>7 DEF BelowRatio
  <2>2. least \in Nat
    BY FS_CardinalityType
  <2> HIDE DEF least, before, after
  <2>3. ~(Cardinality(after) * 100 < least)
    BY <1>4, <2>1, <2>2
  <2> QED BY <1>5, <2>3 DEF BelowRatio, after, least
<1> QED BY <1>6, <1>7

\* One proof more, whatever it says and whatever it makes of the stale claims,
\* never takes an acceptance of `uni verify` back: not even an Invalid proof of
\* a critical claim, which the documentation lets reject.
THEOREM AcceptanceStays ==
  ASSUME NEW S, NEW evs \in Seq(S), NEW e \in S, NEW ir, NEW policy, NEW before, NEW after,
         IsFiniteSet(ir.claims), policy.min_verified_ratio \in Nat,
         Decide(ir, evs, policy, before).decision = "Accepted"
  PROVE  Decide(ir, Append(evs, e), policy, after).decision = "Accepted"
<1>1. TruthTable(ir, evs) = "Accepted" /\ ~BelowRatio(Evaluate(ir, evs), policy)
  BY AcceptedByTruthTable
<1> QED BY <1>1, TableStays, RatioStays, AcceptedWhen

-----------------------------------------------------------------------------
\* A policy that escalates whenever another one does and asks for no smaller
\* ratio.  Whether an Invalid claim is a rejection is left open: the last
\* policy file to say so settles that.
AsStrict(p, q) ==
  /\ p.escalate_on_stale => q.escalate_on_stale
  /\ p.escalate_on_missing => q.escalate_on_missing
  /\ p.min_verified_ratio \in Nat /\ q.min_verified_ratio \in Nat
  /\ p.min_verified_ratio <= q.min_verified_ratio

Refusals == {"Rejected", "Escalated"}

\* What the policy layer refuses it refuses under the stricter policy, unless
\* the truth table asks for evidence and the last escalation has its say.
LEMMA PolicyLayerTightens ==
  ASSUME NEW ir, NEW evs, NEW p, NEW q, IsFiniteSet(ir.claims), AsStrict(p, q),
         PolicyDecision(Evaluate(ir, evs), p) \in Refusals
  PROVE  PolicyDecision(Evaluate(ir, evs), q) \in Refusals
<1> DEFINE result == Evaluate(ir, evs)
<1>1. result.decision \in {"Rejected", "EvidenceRequired", "Accepted"}
  BY DEF Evaluate, TruthTable
<1>2. CASE BelowRatio(result, p)
  <2>1. BelowRatio(result, q)
    <3>1. result.claims = [c \in ir.claims |-> ClaimState(c, evs)]
      BY DEF Evaluate
    <3>2. ClaimsIn(result, "Valid") \subseteq ir.claims /\ DOMAIN result.claims = ir.claims
      BY <3>1 DEF ClaimsIn
    <3>3. Cardinality(ClaimsIn(result, "Valid")) \in Nat /\ Cardinality(ir.claims) \in Nat
      BY <3>2, FS_Subset, FS_CardinalityType
    <3> DEFINE n == Cardinality(ir.claims)
               m == Cardinality(ClaimsIn(result, "Valid"))
    <3>4. m * 100 < p.min_verified_ratio * n
      BY <1>2, <3>2 DEF BelowRatio
    <3> HIDE DEF n, m
    <3>5. ASSUME NEW a \in Nat, NEW b \in Nat, NEW k \in Nat, a <= b PROVE a * k <= b * k
      BY <3>5
    <3>6. p.min_verified_ratio * n <= q.min_verified_ratio * n
      BY <3>3, <3>5 DEF AsStrict, n
    <3>7. p.min_verified_ratio * n \in Nat /\ q.min_verified_ratio * n \in Nat /\ m \in Nat
      BY <3>3 DEF AsStrict, n, m
    <3>8. m * 100 < q.min_verified_ratio * n
      BY <3>4, <3>6, <3>7
    <3> QED BY <1>2, <3>2, <3>8 DEF BelowRatio, n, m
  <2> QED BY <2>1 DEF PolicyDecision, Refusals
<1>3. CASE ~BelowRatio(result, p)
  <2>1. result.decision # "Accepted"
    BY <1>3 DEF PolicyDecision, Refusals
  <2>2. CASE result.decision = "Rejected"
    BY <2>2 DEF PolicyDecision, Refusals
  <2>3. CASE result.decision = "EvidenceRequired"
    BY <1>3, <2>3 DEF PolicyDecision, Refusals, AsStrict
  <2> QED BY <1>1, <2>1, <2>2, <2>3
<1> QED BY <1>2, <1>3

\* A stricter policy never turns a rejection or an escalation into acceptance
\* or a mere request for evidence.
THEOREM RefusalStays ==
  ASSUME NEW ir, NEW evs, NEW p, NEW q, NEW staleIds, IsFiniteSet(ir.claims), AsStrict(p, q),
         Decide(ir, evs, p, staleIds).decision \in Refusals
  PROVE  Decide(ir, evs, q, staleIds).decision \in Refusals
<1> DEFINE result == Evaluate(ir, evs)
           under(policy) == ApplyPolicy(result, policy)
<1>1. ASSUME NEW policy
      PROVE  /\ under(policy).decision = PolicyDecision(result, policy)
             /\ under(policy).claims = result.claims
             /\ [under(policy) EXCEPT !.decision = "Escalated"].decision = "Escalated"
  BY ApplyPolicyFields DEF ApplyPolicy, Evaluate
<1>2. CASE PolicyDecision(result, p) \in Refusals
  <2>1. PolicyDecision(result, q) \in Refusals
    BY <1>2, PolicyLayerTightens
  <2> HIDE DEF under, result
  <2>2. /\ under(q).decision \in Refusals
        /\ [under(q) EXCEPT !.decision = "Escalated"].decision \in Refusals
    BY <1>1, <2>1 DEF Refusals
  <2>3. \/ Decide(ir, evs, q, staleIds) = under(q)
        \/ Decide(ir, evs, q, staleIds) = [under(q) EXCEPT !.decision = "Escalated"]
    BY DEF Decide, EscalateUnrenewed, under, result
  <2> QED BY <2>2, <2>3
<1>3. CASE PolicyDecision(result, p) \notin Refusals
  <2>1. /\ p.escalate_on_stale /\ PolicyDecision(result, p) # "Accepted"
        /\ ~(staleIds \subseteq ClaimsIn(result, "Valid"))
    <3>1. ClaimsIn(under(p), "Valid") = ClaimsIn(result, "Valid")
      BY <1>1 DEF ClaimsIn
    <3> HIDE DEF under, result
    <3>2. Decide(ir, evs, p, staleIds) # under(p)
      BY <1>1, <1>3
    <3> QED BY <1>1, <3>1, <3>2 DEF Decide, EscalateUnrenewed, under, result
  <2>2. PolicyDecision(result, q) # "Accepted"
    <3>1. result.decision \in {"Rejected", "EvidenceRequired", "Accepted"}
      BY DEF Evaluate, TruthTable
    <3>2. result.decision # "Accepted"
      BY <1>3, <2>1, <3>1 DEF PolicyDecision, Refusals
    <3> QED BY <3>2, PolicyNeverAccepts
  <2>3. ClaimsIn(under(q), "Valid") = ClaimsIn(result, "Valid")
    BY <1>1 DEF ClaimsIn
  <2> HIDE DEF under, result
  <2>4. Decide(ir, evs, q, staleIds) = [under(q) EXCEPT !.decision = "Escalated"]
    BY <1>1, <2>1, <2>2, <2>3 DEF AsStrict, Decide, EscalateUnrenewed, under, result
  <2> QED BY <1>1, <2>4 DEF Refusals
<1> QED BY <1>2, <1>3
=============================================================================
