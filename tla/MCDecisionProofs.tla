-------------------------- MODULE MCDecisionProofs --------------------------
(***************************************************************************)
(* The properties of MCDecision, for every sequence of evidence and every  *)
(* stack of policy files.                                                  *)
(***************************************************************************)
EXTENDS MCDecision, DecisionProofs, FiniteSetTheorems

\* A decision keeps the shape of the truth table through all three layers.
LEMMA DecideCases ==
  ASSUME NEW i, NEW e, NEW policy, NEW stale
  PROVE  \/ Decide(i, e, policy, stale).decision = PolicyDecision(Evaluate(i, e), policy)
         \/ Decide(i, e, policy, stale).decision = "Escalated"
<1> DEFINE applied == ApplyPolicy(Evaluate(i, e), policy)
<1>1. [applied EXCEPT !.decision = "Escalated"].decision = "Escalated"
  BY DEF ApplyPolicy, Evaluate
<1>2. \/ Decide(i, e, policy, stale) = applied
      \/ Decide(i, e, policy, stale) = [applied EXCEPT !.decision = "Escalated"]
  BY DEF Decide, EscalateUnrenewed
<1> QED BY <1>1, <1>2, ApplyPolicyFields

LEMMA PolicyCases ==
  ASSUME NEW result, NEW policy
  PROVE  PolicyDecision(result, policy) \in {result.decision, "Rejected", "Escalated"}
  BY DEF PolicyDecision

\* Policies never weaken the truth table: whatever the files in .uni/policies,
\* the decision is the one of the truth table, a rejection or an escalation.
THEOREM PoliciesOnlyTighten == Spec => []PoliciesNeverWeaken
<1>1. PoliciesNeverWeaken
  <2> DEFINE policy == LoadPolicies(files)
  <2>1. Evaluate(ir, evs).decision = TruthTable(ir, evs)
    BY DEF Evaluate
  <2>2. PolicyDecision(Evaluate(ir, evs), policy) \in {TruthTable(ir, evs), "Rejected", "Escalated"}
    BY <2>1, PolicyCases
  <2>3. \/ Outcome = PolicyDecision(Evaluate(ir, evs), policy)
        \/ Outcome = "Escalated"
    BY DecideCases DEF Outcome, Result
  <2> QED BY <2>2, <2>3 DEF PoliciesNeverWeaken
<1> QED BY <1>1, PTL

-----------------------------------------------------------------------------
\* Nobody proves his own claim into A3: the assurance of a run is the one of
\* its weakest proof, whatever the order the proofs are gathered in.
THEOREM WeakestLinkDecides == Spec => []AssuranceIsWeakestLink
<1>1. AssuranceIsWeakestLink
  <2> SUFFICES ASSUME evs # << >>
               PROVE  LET apart    == \A i \in DOMAIN evs : Apart(evs[i])
                          verified == \A i \in DOMAIN evs : IsVerified(evs[i].actor)
                      IN  /\ AssuranceFor(evs) = "A3" <=> apart /\ verified
                          /\ AssuranceFor(evs) = "A3-D" <=> apart /\ ~verified
                          /\ AssuranceFor(evs) = "A2" <=> ~apart
    BY DEF AssuranceIsWeakestLink
  <2> DEFINE disqualified == {i \in DOMAIN evs : \/ Anonymous(evs[i].actor)
                                                 \/ Anonymous(evs[i].executor)}
                             \cup {i \in DOMAIN evs : evs[i].actor.id = evs[i].executor.id}
  <2>1. Independence(evs) = "Independent" <=> disqualified = {}
    BY DEF Independence
  <2>2. disqualified = {} <=> \A i \in DOMAIN evs : Apart(evs[i])
    BY DEF Apart
  <2>3. IdentityAssurance(evs) = "VERIFIED" <=> \A i \in DOMAIN evs : IsVerified(evs[i].actor)
    BY DEF IdentityAssurance
  <2> QED BY <2>1, <2>2, <2>3 DEF AssuranceFor
<1> QED BY <1>1, PTL

-----------------------------------------------------------------------------
\* Whatever is gathered and added, the contract and the policy files are
\* among those of the instance.
Inputs == ir \in Irs /\ files \in Seq(PolicyFiles)

LEMMA InputsKept == Spec => []Inputs
<1>1. Init => Inputs
  BY DEF Init, Inputs
<1>2. Inputs /\ [Next]_vars => Inputs'
  <2> SUFFICES ASSUME Inputs, [Next]_vars PROVE Inputs'
    OBVIOUS
  <2>1. CASE Gather
    BY <2>1 DEF Gather, Inputs
  <2>2. CASE AddPolicyFile
    <3>1. PICK f \in PolicyFiles : files' = Append(files, f)
      BY <2>2 DEF AddPolicyFile
    <3>2. files' \in Seq(PolicyFiles)
      BY <3>1 DEF Inputs
    <3> QED BY <2>2, <3>2 DEF AddPolicyFile, Inputs
  <2>3. CASE UNCHANGED vars
    BY <2>3 DEF vars, Inputs
  <2> QED BY <2>1, <2>2, <2>3 DEF Next
<1> QED BY <1>1, <1>2, PTL DEF Spec

LEMMA RatioOfFile ==
  ASSUME NEW f \in PolicyFiles, "min_verified_ratio" \in DOMAIN f
  PROVE  f.min_verified_ratio = 60
  BY DEF PolicyFiles

\* The merge of the policy files keeps the strictest ratio any of them asks for.
LEMMA StrictestRatio ==
  ASSUME Inputs, NEW i \in Setting(files, "min_verified_ratio")
  PROVE  files[i].min_verified_ratio = 60 /\ LoadPolicies(files).min_verified_ratio = 60
<1>1. \A k \in Setting(files, "min_verified_ratio") : files[k].min_verified_ratio = 60
  <2> TAKE k \in Setting(files, "min_verified_ratio")
  <2>1. files[k] \in PolicyFiles /\ "min_verified_ratio" \in DOMAIN files[k]
    BY DEF Setting, Inputs
  <2> QED BY <2>1, RatioOfFile
<1> DEFINE ratios == {files[k].min_verified_ratio : k \in Setting(files, "min_verified_ratio")}
<1>2. ratios = {60}
  BY <1>1
<1>3. LoadPolicies(files).min_verified_ratio
        = CHOOSE m \in ratios \cup {0} : \A r \in ratios \cup {0} : r <= m
  BY DEF LoadPolicies
<1>4. (CHOOSE m \in {60, 0} : \A r \in {60, 0} : r <= m) = 60
  OBVIOUS
<1>5. ratios \cup {0} = {60, 0}
  BY <1>2
<1> QED BY <1>1, <1>3, <1>4, <1>5

\* A contract is accepted only on proof of every claim it demands, and of as
\* many claims as the strictest policy file asks for.
THEOREM AcceptanceNeedsProof == Spec => []AcceptedMeansProved
<1>1. Inputs => AcceptedMeansProved
  <2> SUFFICES ASSUME Inputs, Outcome = "Accepted" PROVE
        /\ \A c \in Demanded : HasProof(c)
        /\ \A i \in Setting(files, "min_verified_ratio") :
             Cardinality({c \in ir.claims : HasProof(c)}) * 100
               >= files[i].min_verified_ratio * Cardinality(ir.claims)
    BY DEF AcceptedMeansProved
  <2> DEFINE policy == LoadPolicies(files)
             result == Evaluate(ir, evs)
             valid  == ClaimsIn(result, "Valid")
             proved == {c \in ir.claims : HasProof(c)}
  <2>1. Decide(ir, evs, policy, staleIds).decision = "Accepted"
    BY DEF Outcome, Result
  <2>2. \A c \in Demanded : HasProof(c)
    BY <2>1, AcceptedHasProof DEF Demanded, HasProof
  <2>3. ~BelowRatio(result, policy)
    BY <2>1, AcceptedByTruthTable
  <2>4. result.claims = [c \in ir.claims |-> ClaimState(c, evs)]
    BY DEF Evaluate
  <2>5. ir.claims = {"a", "b"}
    BY DEF Inputs, Irs
  <2>6. valid \subseteq proved
    <3> SUFFICES ASSUME NEW c \in ir.claims, ClaimState(c, evs) = "Valid" PROVE HasProof(c)
      BY <2>4 DEF ClaimsIn
    <3>1. Proved(c, evs)
      BY DEF ClaimState
    <3> QED BY <3>1, ProvedHasProof DEF HasProof
  <2>7. /\ IsFiniteSet(ir.claims) /\ IsFiniteSet(proved)
        /\ Cardinality(ir.claims) \in Nat /\ Cardinality(proved) \in Nat
        /\ Cardinality(valid) \in Nat /\ Cardinality(valid) <= Cardinality(proved)
    <3>1. IsFiniteSet(ir.claims)
      <4>1. IsFiniteSet({"a"})
        BY FS_Singleton
      <4>2. IsFiniteSet({"a"} \cup {"b"})
        BY <4>1, FS_AddElement
      <4>3. ir.claims = {"a"} \cup {"b"}
        BY <2>5
      <4> QED BY <4>2, <4>3
    <3>2. IsFiniteSet(proved)
      BY <3>1, FS_Subset
    <3>3. IsFiniteSet(valid) /\ Cardinality(valid) <= Cardinality(proved)
      BY <3>2, <2>6, FS_Subset
    <3> QED BY <3>1, <3>2, <3>3, FS_CardinalityType
  <2>8. ASSUME NEW i \in Setting(files, "min_verified_ratio")
        PROVE  Cardinality(proved) * 100
                 >= files[i].min_verified_ratio * Cardinality(ir.claims)
    <3>1. files[i].min_verified_ratio = 60 /\ policy.min_verified_ratio = 60
      BY <2>8, StrictestRatio
    <3>2. DOMAIN result.claims = ir.claims /\ ir.claims # {}
      BY <2>4, <2>5
    <3>3. ~(Cardinality(valid) * 100 < 60 * Cardinality(ir.claims))
      BY <2>3, <3>1, <3>2 DEF BelowRatio
    <3> HIDE DEF valid, proved
    <3> QED BY <2>7, <3>1, <3>3
  <2> QED BY <2>2, <2>8
<1> QED BY <1>1, InputsKept, PTL

-----------------------------------------------------------------------------
\* Whatever is gathered, every proof is one a run of verify can leave.
Gathered == evs \in Seq(Evidences)

LEMMA GatheredHolds == Spec => []Gathered
<1>1. Init => Gathered
  BY DEF Init, Gathered
<1>2. Gathered /\ [Next]_vars => Gathered'
  <2> SUFFICES ASSUME Gathered, [Next]_vars PROVE Gathered'
    OBVIOUS
  <2>1. CASE Gather
    <3>1. PICK e \in Evidences : evs' = Append(evs, e)
      BY <2>1 DEF Gather
    <3> HIDE DEF Evidences
    <3> QED BY <3>1 DEF Gathered
  <2>2. CASE AddPolicyFile
    BY <2>2 DEF AddPolicyFile, Gathered
  <2>3. CASE UNCHANGED vars
    BY <2>3 DEF vars, Gathered
  <2> QED BY <2>1, <2>2, <2>3 DEF Next
<1> QED BY <1>1, <1>2, PTL DEF Spec

LEMMA TwoClaims ==
  ASSUME Inputs
  PROVE  IsFiniteSet(ir.claims)
<1>1. ir.claims = {"a"} \cup {"b"}
  BY DEF Inputs, Irs
<1>2. IsFiniteSet({"a"})
  BY FS_Singleton
<1>3. IsFiniteSet({"a"} \cup {"b"})
  BY <1>2, FS_AddElement
<1> QED BY <1>1, <1>3

\* Files that set no ratio ask for none.
LEMMA MergedRatio ==
  ASSUME Inputs
  PROVE  LoadPolicies(files).min_verified_ratio =
           IF Setting(files, "min_verified_ratio") = {} THEN 0 ELSE 60
<1>1. CASE Setting(files, "min_verified_ratio") = {}
  <2> DEFINE ratios == {files[k].min_verified_ratio : k \in Setting(files, "min_verified_ratio")}
  <2>1. ratios \cup {0} = {0}
    BY <1>1
  <2>2. (CHOOSE m \in {0} : \A r \in {0} : r <= m) = 0
    OBVIOUS
  <2>3. LoadPolicies(files).min_verified_ratio
          = CHOOSE m \in ratios \cup {0} : \A r \in ratios \cup {0} : r <= m
    BY DEF LoadPolicies
  <2> QED BY <1>1, <2>1, <2>2, <2>3
<1>2. CASE Setting(files, "min_verified_ratio") # {}
  <2>1. PICK i \in Setting(files, "min_verified_ratio") : TRUE
    BY <1>2
  <2> QED BY <1>2, <2>1, StrictestRatio
<1> QED BY <1>1, <1>2

\* One proof more in an evaluation, of whatever claim and whatever it finds,
\* never takes the acceptance back, but for the Invalid proof of a critical
\* claim, where the documentation wants it to.
THEOREM AcceptanceOnceProved == Spec => MoreEvidenceNeverUnaccepts
<1>1. Inputs /\ Gathered /\ [Next]_vars
        => [Outcome = "Accepted" /\ files' = files /\ ~CriticalInvalid'
              => Outcome' = "Accepted"]_vars
  <2> SUFFICES ASSUME Inputs, Gathered, [Next]_vars, Outcome = "Accepted", files' = files
               PROVE  Outcome' = "Accepted"
    OBVIOUS
  <2> DEFINE policy == LoadPolicies(files)
  <2>1. policy.min_verified_ratio \in Nat
    BY MergedRatio
  <2>2. Decide(ir, evs, policy, staleIds).decision = "Accepted"
    BY DEF Outcome, Result
  <2>3. Outcome' = Decide(ir', evs', policy, staleIds').decision
    BY DEF Outcome, Result
  <2> HIDE DEF policy
  <2>4. CASE Gather
    <3>1. PICK e \in Evidences : evs' = Append(evs, e)
      BY <2>4 DEF Gather
    <3>2. ir' = ir
      BY <2>4 DEF Gather
    <3> HIDE DEF Evidences
    <3>3. evs \in Seq(Evidences)
      BY DEF Gathered
    <3>4. Decide(ir, Append(evs, e), policy, staleIds').decision = "Accepted"
      BY <2>1, <2>2, <3>3, TwoClaims, AcceptanceStays
    <3> QED BY <2>3, <3>1, <3>2, <3>4
  <2>5. CASE UNCHANGED <<ir, evs, staleIds>>
    BY <2>2, <2>3, <2>5
  <2> QED BY <2>4, <2>5 DEF Next, AddPolicyFile, vars
<1> QED BY <1>1, InputsKept, GatheredHolds, PTL DEF Spec, MoreEvidenceNeverUnaccepts

\* A file appended to the stack makes the merged policy no weaker, except for
\* reject_on_invalid, where the last file to set it wins.
LEMMA MergeTightens ==
  ASSUME Inputs, NEW f \in PolicyFiles
  PROVE  AsStrict(LoadPolicies(files), LoadPolicies(Append(files, f)))
<1> DEFINE more == Append(files, f)
<1>1. /\ DOMAIN files \subseteq DOMAIN more
      /\ \A i \in DOMAIN files : more[i] = files[i]
      /\ more \in Seq(PolicyFiles)
  BY DEF Inputs
<1>2. ASSUME NEW field PROVE Setting(files, field) \subseteq Setting(more, field)
  BY <1>1 DEF Setting
<1>3. ASSUME NEW field, Escalation(files, field) PROVE Escalation(more, field)
  <2>1. PICK i \in Setting(files, field) : files[i][field]
    BY <1>3 DEF Escalation
  <2>2. i \in Setting(more, field) /\ more[i] = files[i]
    BY <1>1, <1>2 DEF Setting
  <2> QED BY <2>1, <2>2 DEF Escalation
<1>4. /\ LoadPolicies(files).escalate_on_stale => LoadPolicies(more).escalate_on_stale
      /\ LoadPolicies(files).escalate_on_missing => LoadPolicies(more).escalate_on_missing
  BY <1>3 DEF LoadPolicies
<1>5. LoadPolicies(more).min_verified_ratio
        = IF Setting(more, "min_verified_ratio") = {} THEN 0 ELSE 60
  <2> HIDE DEF more
  <2> DEFINE ratios == {more[k].min_verified_ratio : k \in Setting(more, "min_verified_ratio")}
  <2>1. \A k \in Setting(more, "min_verified_ratio") : more[k].min_verified_ratio = 60
    <3> TAKE k \in Setting(more, "min_verified_ratio")
    <3>1. more[k] \in PolicyFiles /\ "min_verified_ratio" \in DOMAIN more[k]
      BY <1>1 DEF Setting
    <3> QED BY <3>1, RatioOfFile
  <2>2. LoadPolicies(more).min_verified_ratio
          = CHOOSE m \in ratios \cup {0} : \A r \in ratios \cup {0} : r <= m
    BY DEF LoadPolicies
  <2>3. CASE Setting(more, "min_verified_ratio") = {}
    <3>1. ratios \cup {0} = {0}
      BY <2>3
    <3>2. (CHOOSE m \in {0} : \A r \in {0} : r <= m) = 0
      OBVIOUS
    <3> QED BY <2>2, <2>3, <3>1, <3>2
  <2>4. CASE Setting(more, "min_verified_ratio") # {}
    <3>1. ratios \cup {0} = {60, 0}
      BY <2>1, <2>4
    <3>2. (CHOOSE m \in {60, 0} : \A r \in {60, 0} : r <= m) = 60
      OBVIOUS
    <3> QED BY <2>2, <2>4, <3>1, <3>2
  <2> QED BY <2>3, <2>4
<1> HIDE DEF more
<1>6. /\ LoadPolicies(files).min_verified_ratio \in Nat
      /\ LoadPolicies(more).min_verified_ratio \in Nat
      /\ LoadPolicies(files).min_verified_ratio <= LoadPolicies(more).min_verified_ratio
  BY <1>2, <1>5, MergedRatio
<1> QED BY <1>4, <1>6 DEF AsStrict, more

\* One more policy file that revokes no escalation never turns a rejection or
\* an escalation into anything milder.
THEOREM PoliciesOnlyAdd == Spec => AddedPolicyNeverRelaxes
<1>1. Inputs /\ [Next]_vars
        => [files' # files /\ Outcome \in {"Rejected", "Escalated"} /\ ~Revokes(Len(files))' =>
              Outcome' \in {"Rejected", "Escalated"}]_vars
  <2> SUFFICES ASSUME Inputs, [Next]_vars, files' # files, Outcome \in Refusals
               PROVE  Outcome' \in Refusals
    BY DEF Refusals
  <2>1. AddPolicyFile
    BY DEF Next, Gather, vars
  <2>2. PICK f \in PolicyFiles : files' = Append(files, f)
    BY <2>1 DEF AddPolicyFile
  <2>3. UNCHANGED <<ir, evs, staleIds>>
    BY <2>1 DEF AddPolicyFile
  <2>4. Decide(ir, evs, LoadPolicies(files), staleIds).decision \in Refusals
    BY DEF Outcome, Result
  <2>5. Decide(ir, evs, LoadPolicies(Append(files, f)), staleIds).decision \in Refusals
    BY <2>4, TwoClaims, MergeTightens, RefusalStays
  <2>6. Outcome' = Decide(ir', evs', LoadPolicies(files'), staleIds').decision
    BY DEF Outcome, Result
  <2> QED BY <2>2, <2>3, <2>5, <2>6
<1> QED BY <1>1, InputsKept, PTL DEF Spec, AddedPolicyNeverRelaxes

-----------------------------------------------------------------------------
\* Identity, for every registry of issuers, every key set and every token: a
\* verified actor is the one the issuer its token names vouches for, under this
\* issuer's own keys and algorithms and for no audience but one of its own,
\* whatever the other issuers are.  That the token has an audience is not part
\* of it, the code does not ask for one.
THEOREM VerifiedByPinnedIssuer ==
  ASSUME NEW token, NEW flag, NEW executor, NEW table, NEW jwks,
         executor.assurance # "verified",
         ActorOf(token, flag, executor, table, jwks) # Refused,
         ActorOf(token, flag, executor, table, jwks).assurance = "verified"
  PROVE  /\ token # NoToken
         /\ token.iss \in DOMAIN table /\ UsableIdentity(table[token.iss])
         /\ LET p == Loaded(table[token.iss]) IN
            /\ ActorOf(token, flag, executor, table, jwks) = Verified(token.iss, p, token)
            /\ KeyFor(token, jwks[p.jwks_file]) = token.signed /\ token.signed # NoKey
            /\ token.alg \in p.algorithms /\ ~token.expired /\ token.sub # Absent
            /\ p.audiences = {} \/ token.aud = {} \/ token.aud \cap p.audiences # {}
<1>1. Declared(flag).assurance # "verified"
  BY DEF Declared
<1>2. token # NoToken
  BY <1>1 DEF ActorOf
<1>3. /\ LoadIdentities(table) # Refused
      /\ VerifyToken(token, LoadIdentities(table), jwks) # Refused
  BY <1>2 DEF ActorOf
<1>4. /\ LoadIdentities(table) = [issuer \in DOMAIN table |-> Loaded(table[issuer])]
      /\ \A issuer \in DOMAIN table : UsableIdentity(table[issuer])
  BY <1>3 DEF LoadIdentities
<1> DEFINE loaded == LoadIdentities(table)
           issuer == CHOOSE i \in DOMAIN loaded : Accepts(i, loaded[i], token, jwks)
<1>5. \E i \in DOMAIN loaded : Accepts(i, loaded[i], token, jwks)
  BY <1>3 DEF VerifyToken
<1>6. VerifyToken(token, loaded, jwks) = Verified(issuer, loaded[issuer], token)
  BY <1>5 DEF VerifyToken
<1>7. issuer \in DOMAIN loaded /\ Accepts(issuer, loaded[issuer], token, jwks)
  BY <1>5
<1>8. ActorOf(token, flag, executor, table, jwks) = VerifyToken(token, loaded, jwks)
  BY <1>2, <1>3 DEF ActorOf
<1> HIDE DEF issuer, loaded
<1>9. token.iss = issuer
  BY <1>7 DEF Accepts
<1>10. issuer \in DOMAIN table /\ loaded[issuer] = Loaded(table[issuer])
  BY <1>4, <1>7 DEF loaded
<1>11. UsableIdentity(table[issuer])
  BY <1>4, <1>10
<1> QED BY <1>2, <1>6, <1>7, <1>8, <1>9, <1>10, <1>11 DEF Accepts, Aimed

-----------------------------------------------------------------------------
\* Of a set with one key that key is the one looked for; of two keys it is one
\* that bears the name the token gives.
LEMMA KeyOfOne ==
  ASSUME NEW token, NEW key, key.kid = Absent,
         KeyFor(token, <<key>>) = token.signed, token.signed # NoKey
  PROVE  key.key = token.signed /\ token.kid = Absent
<1> DEFINE jwks == <<key>>
<1>1. DOMAIN jwks = {1} /\ jwks[1] = key /\ Len(jwks) = 1
  OBVIOUS
<1> HIDE DEF jwks
<1>2. jwks # Absent
  BY DEF KeyFor, jwks
<1>3. CASE token.kid = Absent
  BY <1>1, <1>2, <1>3 DEF KeyFor, jwks
<1>4. CASE token.kid # Absent
  <2>1. ~\E i \in DOMAIN jwks : jwks[i].kid = token.kid
    BY <1>1, <1>4
  <2> QED BY <1>2, <1>4, <2>1 DEF KeyFor, jwks
<1> QED BY <1>3, <1>4

LEMMA KeyOfTwo ==
  ASSUME NEW token, NEW old, NEW new,
         KeyFor(token, <<old, new>>) = token.signed, token.signed # NoKey
  PROVE  /\ token.kid # Absent
         /\ \E i \in 1..2 : <<old, new>>[i].kid = token.kid /\ <<old, new>>[i].key = token.signed
<1> DEFINE jwks == <<old, new>>
<1>1. DOMAIN jwks = 1..2 /\ Len(jwks) # 1
  OBVIOUS
<1>2. jwks # Absent
  BY DEF KeyFor
<1> HIDE DEF jwks
<1>3. token.kid # Absent
  BY <1>1, <1>2 DEF KeyFor, jwks
<1>4. \E i \in 1..2 : jwks[i].kid = token.kid
  BY <1>1, <1>2, <1>3 DEF KeyFor, jwks
<1> DEFINE IsFirstKey(i) == jwks[i].kid = token.kid /\ \A n \in 1..i - 1 : jwks[n].kid # token.kid
<1>5. \E i \in 1..2 : IsFirstKey(i)
  <2>1. CASE jwks[1].kid = token.kid
    <3>1. 1 \in 1..2 /\ 1..1 - 1 = {}
      OBVIOUS
    <3> QED BY <2>1, <3>1
  <2>2. CASE jwks[1].kid # token.kid
    <3>1. jwks[2].kid = token.kid
      BY <1>4, <2>2
    <3>2. 2 \in 1..2 /\ \A n \in 1..2 - 1 : n = 1
      OBVIOUS
    <3> QED BY <2>2, <3>1, <3>2
  <2> QED BY <2>1, <2>2
<1> DEFINE first == CHOOSE i \in 1..2 : IsFirstKey(i)
<1>6. first \in 1..2 /\ IsFirstKey(first)
  BY <1>5
<1>7. KeyFor(token, jwks) = jwks[first].key
  BY <1>1, <1>2, <1>3, <1>4 DEF KeyFor
<1>8. KeyFor(token, jwks) = token.signed
  BY DEF jwks
<1> HIDE DEF first
<1>9. \E i \in 1..2 : jwks[i].kid = token.kid /\ jwks[i].key = token.signed
  BY <1>6, <1>7, <1>8
<1> QED BY <1>3, <1>9 DEF jwks

\* Whoever one of the two pinned issuers accepts presented a signed token.
LEMMA AcceptedIsSigned ==
  ASSUME NEW token, token # NoToken, NEW issuer \in DOMAIN Identities,
         Accepts(issuer, Loaded(Identities[issuer]), token, Jwks),
         issuer = "trust" => token.spiffe
  PROVE  Signed(token)
<1> DEFINE p == Loaded(Identities[issuer])
<1>1. issuer \in {"ci", "trust"}
  BY DEF Identities
<1>2. /\ p.algorithms = DefaultAlgorithms /\ p.jwks_file = Identities[issuer].jwks_file
      /\ p.audiences = Identities[issuer].audiences
  BY <1>1 DEF Loaded, Identities
<1> HIDE DEF p
<1>3. /\ token.alg \in DefaultAlgorithms /\ ~token.expired /\ token.iss = issuer
      /\ KeyFor(token, Jwks[p.jwks_file]) = token.signed /\ token.signed # NoKey
      /\ p.audiences # {} /\ token.aud # {} => token.aud \cap p.audiences # {}
  BY <1>2 DEF Accepts, Aimed, p
<1>4. CASE issuer = "ci"
  <2>1. p.jwks_file = "ci.json" /\ p.audiences = {"uni"}
    BY <1>2, <1>4 DEF Identities
  <2>2. token.aud = {} \/ "uni" \in token.aud
    BY <1>3, <2>1
  <2> DEFINE old == [kid |-> "old", key |-> "ci1"]
             new == [kid |-> "new", key |-> "ci2"]
  <2>3. Jwks["ci.json"] = <<old, new>>
    BY DEF Jwks
  <2> HIDE DEF old, new
  <2>4. /\ token.kid # Absent
        /\ \E i \in 1..2 : <<old, new>>[i].kid = token.kid /\ <<old, new>>[i].key = token.signed
    BY <1>3, <2>1, <2>3, KeyOfTwo
  <2>5. DOMAIN Jwks["ci.json"] = 1..2
    BY <2>3
  <2>6. \E i \in DOMAIN Jwks["ci.json"] : /\ Jwks["ci.json"][i].key = token.signed
                                          /\ Jwks["ci.json"][i].kid = token.kid
    BY <2>3, <2>4, <2>5
  <2>7. Identities[token.iss].jwks_file = "ci.json" /\ token.iss \in DOMAIN Identities
    BY <1>2, <1>3, <2>1
  <2>8. token.iss # "trust"
    BY <1>3, <1>4
  <2> QED BY <1>3, <2>2, <2>4, <2>6, <2>7, <2>8 DEF Signed
<1>5. CASE issuer = "trust"
  <2>1. p.jwks_file = "trust.json"
    BY <1>2, <1>5 DEF Identities
  <2> DEFINE key == [kid |-> Absent, key |-> "trust1"]
  <2>2. Jwks["trust.json"] = <<key>> /\ key.kid = Absent
    BY DEF Jwks
  <2> HIDE DEF key
  <2>3. key.key = token.signed /\ token.kid = Absent
    BY <1>3, <2>1, <2>2, KeyOfOne
  <2>4. 1 \in DOMAIN Jwks["trust.json"] /\ Jwks["trust.json"][1] = key /\ Len(Jwks["trust.json"]) = 1
    BY <2>2
  <2>5. \E i \in DOMAIN Jwks["trust.json"] : /\ Jwks["trust.json"][i].key = token.signed
                                             /\ Jwks["trust.json"][i].kid = token.kid
    BY <2>2, <2>3, <2>4
  <2>6. Identities[token.iss].jwks_file = "trust.json" /\ token.iss \in DOMAIN Identities
    BY <1>2, <1>3, <2>1
  <2>7. token.iss # "ci"
    BY <1>3, <1>5
  <2> QED BY <1>3, <1>5, <2>4, <2>5, <2>6, <2>7 DEF Signed
<1> QED BY <1>1, <1>4, <1>5

\* A proof whose actor is verified was gathered with a signed token.
LEMMA VerifiedIsSigned ==
  ASSUME NEW e \in Evidences, IsVerified(e.actor)
  PROVE  Signed(e.token)
<1>1. PICK c, s, x, token, flag :
        e = Ev(c, s, x, token, flag) /\ e.actor # Refused
  <2> DEFINE plain    == {Ev(c, o[1], o[2], NoToken, NoFlag) :
                            c \in {"a", "b"},
                            o \in {<<"Valid", 0>>, <<"Valid", 1>>, <<"Invalid", 1>>, <<"Stale", 0>>}}
             flagged  == {Ev("b", "Valid", 0, NoToken, flag) : flag \in Flags}
             attested == {Ev("b", "Valid", 0, token, flag) :
                            token \in Presented, flag \in Flags \cup {NoFlag}}
  <2>1. e \in plain \cup flagged \cup attested /\ e.actor # Refused
    <3> HIDE DEF Ev, Flags, Presented
    <3> QED BY DEF Evidences
  <2>2. e \in plain \/ e \in flagged \/ e \in attested
    BY <2>1
  <2>3. \E c, s, x, token, flag : e = Ev(c, s, x, token, flag)
    BY <2>2
  <2> QED BY <2>1, <2>3
<1>2. e.token = token /\ e.actor = ActorOf(token, flag, Local, Identities, Jwks)
  BY <1>1 DEF Ev
<1>3. Local.assurance # "verified"
  BY DEF Local
<1>4. Declared(flag).assurance # "verified"
  BY DEF Declared
<1> DEFINE loaded == LoadIdentities(Identities)
<1>5. /\ token # NoToken /\ loaded # Refused
      /\ VerifyToken(token, loaded, Jwks) = e.actor /\ e.actor # Refused
  BY <1>1, <1>2, <1>3, <1>4 DEF ActorOf, IsVerified
<1>6. loaded = [issuer \in DOMAIN Identities |-> Loaded(Identities[issuer])]
  BY <1>5 DEF LoadIdentities
<1> HIDE DEF loaded
<1> DEFINE issuer == CHOOSE i \in DOMAIN loaded : Accepts(i, loaded[i], token, Jwks)
<1>7. /\ issuer \in DOMAIN loaded /\ Accepts(issuer, loaded[issuer], token, Jwks)
      /\ Verified(issuer, loaded[issuer], token) = e.actor
  BY <1>5 DEF VerifyToken
<1> HIDE DEF issuer
<1>8. issuer \in DOMAIN Identities /\ loaded[issuer] = Loaded(Identities[issuer])
  BY <1>6, <1>7
<1>9. issuer = "trust" => token.spiffe
  <2>1. SUFFICES ASSUME issuer = "trust" PROVE token.spiffe
    OBVIOUS
  <2>2. loaded[issuer].source = "spiffe"
    BY <1>8, <2>1 DEF Loaded, Identities
  <2> QED BY <1>5, <1>7, <2>2 DEF Verified
<1> QED BY <1>2, <1>5, <1>7, <1>8, <1>9, AcceptedIsSigned

\* A3 is reached only by tokens their pinned issuers signed: no --actor, no
\* stale key and no other issuer's token gets there, in any order of proofs.
THEOREM HighestNeedsSignatures == Spec => []VerifiedMeansSigned
<1>1. Gathered => VerifiedMeansSigned
  <2> SUFFICES ASSUME Gathered, AssuranceFor(evs) = "A3", NEW i \in DOMAIN evs
               PROVE  Signed(evs[i].token)
    BY DEF VerifiedMeansSigned
  <2>1. IsVerified(evs[i].actor)
    BY DEF AssuranceFor, IdentityAssurance
  <2>2. evs[i] \in Evidences
    <3> HIDE DEF Evidences
    <3> QED BY DEF Gathered
  <2> QED BY <2>1, <2>2, VerifiedIsSigned
<1> QED BY <1>1, GatheredHolds, PTL
=============================================================================
