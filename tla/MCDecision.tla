----------------------------- MODULE MCDecision -----------------------------
(***************************************************************************)
(* The decision engine over small inputs: runs of `uni verify`, each under *)
(* the actor Identity settles, gather one proof after the other, and policy*)
(* files are added to `.uni/policies`.                                     *)
(***************************************************************************)
EXTENDS Decision, Identity

CONSTANTS MaxEvidence, MaxFiles   \* bounds

VARIABLES ir, staleIds, evs, files

vars == <<ir, staleIds, evs, files>>

Irs == {[claims |-> {"a", "b"}, required |-> {"b"}, critical |-> {"a"}],
        [claims |-> {"a", "b"}, required |-> {"a"}, critical |-> {"a"}]}

Local == [id |-> "local:me", assurance |-> "self-declared"]

\* Ci's token, and others that are not quite it.
Token == [alg |-> "RS256", kid |-> "new", signed |-> "ci2", iss |-> "ci", aud |-> {"uni"},
          expired |-> FALSE, sub |-> "bob", spiffe |-> FALSE]
Presented ==
  {Token, [Token EXCEPT !.iss = "trust", !.kid = Absent, !.signed = "trust1", !.spiffe = TRUE],
   [Token EXCEPT !.signed = "ci1"], [Token EXCEPT !.kid = Absent], [Token EXCEPT !.alg = "HS256"],
   [Token EXCEPT !.iss = "other"], [Token EXCEPT !.aud = {"other"}], [Token EXCEPT !.aud = {}],
   [Token EXCEPT !.expired = TRUE], [Token EXCEPT !.sub = Absent], [Token EXCEPT !.sub = ""],
   [Token EXCEPT !.iss = "trust", !.kid = Absent, !.signed = "trust1"]}

Flags == {[id |-> "bob"], [id |-> "anonymous"], [id |-> "oidc:ci#bob"]}

Identities ==
  [issuer \in {"ci", "trust"} |->
     IF issuer = "ci"
     THEN [source |-> "oidc", jwks_file |-> "ci.json", audiences |-> {"uni"}, algorithms |-> {}]
     ELSE [source |-> "spiffe", jwks_file |-> "trust.json", audiences |-> {}, algorithms |-> {}]]
Jwks ==
  [f \in {"ci.json", "trust.json"} |->
     IF f = "ci.json" THEN <<[kid |-> "old", key |-> "ci1"], [kid |-> "new", key |-> "ci2"]>>
     ELSE <<[kid |-> Absent, key |-> "trust1"]>>]

\* A verify run proves a claim; `token` is remembered, not recorded.
Ev(c, s, x, token, flag) ==
  [claim |-> c, state |-> s, exit_code |-> x, executor |-> Local, token |-> token,
   actor |-> ActorOf(token, flag, Local, Identities, Jwks)]

Evidences ==
  {e \in {Ev(c, o[1], o[2], NoToken, NoFlag) :
            c \in {"a", "b"},
            o \in {<<"Valid", 0>>, <<"Valid", 1>>, <<"Invalid", 1>>, <<"Stale", 0>>}}
     \cup {Ev("b", "Valid", 0, NoToken, flag) : flag \in Flags}
     \cup {Ev("b", "Valid", 0, token, flag) : token \in Presented, flag \in Flags \cup {NoFlag}}
   : e.actor # Refused}

PolicyFiles ==
  {[escalate_on_stale |-> TRUE], [escalate_on_stale |-> FALSE, min_verified_ratio |-> 60],
   [escalate_on_missing |-> TRUE], [escalate_on_missing |-> FALSE],
   [reject_on_invalid |-> FALSE], [reject_on_invalid |-> TRUE]}

Init ==
  /\ ir \in Irs /\ staleIds = {}
  /\ evs = << >> /\ files = << >>

\* The proof of a claim, gathered because its previous one was stale or not.
Gather ==
  /\ Len(evs) < MaxEvidence
  /\ \E e \in Evidences : /\ evs' = Append(evs, e)
                          /\ staleIds' \in {staleIds, staleIds \cup ({e.claim} \cap {"a"})}
  /\ UNCHANGED <<ir, files>>

AddPolicyFile ==
  /\ Len(files) < MaxFiles
  /\ \E f \in PolicyFiles : files' = Append(files, f)
  /\ UNCHANGED <<ir, staleIds, evs>>

Next == Gather \/ AddPolicyFile

Spec == Init /\ [][Next]_vars

Result == Decide(ir, evs, LoadPolicies(files), staleIds)
Outcome == Result.decision

---------------------------------------------------------------------------
(* Properties *)

Demanded == ir.claims \cap (ir.required \cup ir.critical)

HasProof(c) ==
  \E i \in DOMAIN evs : evs[i].claim = c /\ evs[i].state = "Valid" /\ evs[i].exit_code = 0

\* "A claim is accepted only on proof": acceptance needs, for every required
\* or critical claim, Valid evidence of a verifier that exited 0, and as many
\* proved claims as the strictest policy file asks for.
AcceptedMeansProved ==
  Outcome = "Accepted" =>
    /\ \A c \in Demanded : HasProof(c)
    /\ \A i \in Setting(files, "min_verified_ratio") :
         Cardinality({c \in ir.claims : HasProof(c)}) * 100
           >= files[i].min_verified_ratio * Cardinality(ir.claims)

\* The case the truth table of the documentation settles by a rejection.
CriticalInvalid == \E c \in ir.critical : InState(c, evs, "Invalid") # {}

\* Within one evaluation, one proof more of the same or of another claim, Valid
\* with a failing exit, Stale or Invalid, never takes an acceptance back, unless
\* it is an Invalid one of a critical claim, which is documented to reject.
MoreEvidenceNeverUnaccepts ==
  [][Outcome = "Accepted" /\ files' = files /\ ~CriticalInvalid'
       => Outcome' = "Accepted"]_vars

\* "Policies never weaken the truth table; they tighten or escalate it."
PoliciesNeverWeaken ==
  Outcome \in {TruthTable(ir, evs), "Rejected", "Escalated"}

Escalations == {"escalate_on_stale", "escalate_on_missing"}

\* A file that sets an escalation to false, the later boolean, after one that
\* asked for it: the documentation lets it win.
Revokes(i) ==
  \E field \in Escalations : /\ i \in Setting(files, field) /\ ~files[i][field]
                             /\ \E j \in Setting(files, field) : j < i /\ files[j][field]

\* One more policy file, read after the others, never turns an escalation or a
\* rejection into acceptance or a mere request for evidence, unless it revokes
\* an escalation: what it does not set stays as strict as it was.
AddedPolicyNeverRelaxes ==
  [][files' # files /\ Outcome \in {"Rejected", "Escalated"} /\ ~Revokes(Len(files))' =>
       Outcome' \in {"Rejected", "Escalated"}]_vars

Apart(ev) == /\ ~Anonymous(ev.actor) /\ ~Anonymous(ev.executor)
             /\ ev.actor.id # ev.executor.id

\* One self-proved or anonymous proof caps the whole run at A2, one actor
\* without a verified identity at A3-D, whatever the order of the evidence.
AssuranceIsWeakestLink ==
  evs # << >> =>
    LET apart    == \A i \in DOMAIN evs : Apart(evs[i])
        verified == \A i \in DOMAIN evs : IsVerified(evs[i].actor)
    IN  /\ AssuranceFor(evs) = "A3" <=> apart /\ verified
        /\ AssuranceFor(evs) = "A3-D" <=> apart /\ ~verified
        /\ AssuranceFor(evs) = "A2" <=> ~apart

\* A3 needs, for every proof, a token signed by the key its issuer's pinned
\* key set holds under the name the token gives, of an algorithm this issuer
\* accepts, and for a pinned audience or for none: what --actor spells is never
\* enough.
Signed(token) ==
  /\ token # NoToken
  /\ token.iss \in DOMAIN Identities
  /\ LET jwks == Jwks[Identities[token.iss].jwks_file] IN
     \E i \in DOMAIN jwks : /\ jwks[i].key = token.signed
                            /\ jwks[i].kid = token.kid
                            /\ token.kid = Absent => Len(jwks) = 1
  /\ token.alg \in DefaultAlgorithms /\ ~token.expired
  /\ token.iss = "ci" => token.aud = {} \/ "uni" \in token.aud
  /\ token.iss = "trust" => token.spiffe

VerifiedMeansSigned ==
  AssuranceFor(evs) = "A3" => \A i \in DOMAIN evs : Signed(evs[i].token)
=============================================================================
