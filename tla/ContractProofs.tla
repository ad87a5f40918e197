--------------------------- MODULE ContractProofs ---------------------------
(***************************************************************************)
(* What a contract is to its source and to its preflight, for every        *)
(* language of lines, every registry and every table of bindings: first    *)
(* CInv, from which lint foretells the verification, then, line by line,   *)
(* SourceOK, from which the contract is the one its author wrote.          *)
(***************************************************************************)
EXTENDS ContractProperties, FiniteSetTheorems, TLAPS

Ids == {l.id : l \in Lines} \cup {NoId}

ClaimRecord ==
  [id : Ids \cup {<<"forbid", n>> : n \in Nat}, kind : {"claim", "invariant"},
   required : BOOLEAN, critical : BOOLEAN, ensure : Nat, line : Nat]

\* An inline shell verification has its command.
VerificationRecord ==
  {v \in [claim : Ids, verifier_ref : {l.ref : l \in Lines}, inline_shell : {l.inline : l \in Lines},
          requirement : {l.text : l \in Lines} \cup {NoHash}, line : Nat] :
     v.verifier_ref = "shell" => v.inline_shell # NoHash}

ParserOK ==
  /\ source \in Seq(Lines)
  /\ claims \in Seq(ClaimRecord)
  /\ verifications \in Seq(VerificationRecord)
  /\ pendingVerify \in [claim : Ids, line : Nat]
  /\ pendingForbid \in Nat /\ forbids \in Nat

\* What the rules rest on: a claim or a verification is added, or one is changed.
LEMMA RuleKeeps ==
  ASSUME ParserOK, NEW l \in Lines,
         \/ Using(l) \/ BlankOrComment(l) \/ Header(l) \/ Goal(l)
         \/ Claim(l) \/ Invariant(l) \/ Ensure(l) \/ Forbid(l) \/ ForbidText(l)
         \/ Verify(l) \/ AcceptWhen(l) \/ Require(l)
  PROVE  /\ claims' \in Seq(ClaimRecord)
         /\ verifications' \in Seq(VerificationRecord)
         /\ pendingVerify' \in [claim : Ids, line : Nat]
         /\ pendingForbid' \in Nat /\ forbids' \in Nat
<1>1. Here \in Nat
  BY DEF Here, ParserOK
<1>2. ASSUME NEW id \in Ids \cup {<<"forbid", n>> : n \in Nat}, NEW kind \in {"claim", "invariant"},
             NEW required \in BOOLEAN, NEW critical \in BOOLEAN, NEW ensure \in Nat, NEW line \in Nat,
             Claimed(id, kind, required, critical, ensure, line)
      PROVE  claims' \in Seq(ClaimRecord)
  <2>1. [id |-> id, kind |-> kind, required |-> required, critical |-> critical,
         ensure |-> ensure, line |-> line] \in ClaimRecord
    BY DEF ClaimRecord
  <2> QED BY <1>2, <2>1 DEF Claimed, ParserOK
<1>3. ASSUME NEW claim \in Ids, NEW line \in Nat, Verified(claim, l, line)
      PROVE  verifications' \in Seq(VerificationRecord)
  <2>1. [claim |-> claim, verifier_ref |-> l.ref, inline_shell |-> l.inline,
         requirement |-> NoHash, line |-> line] \in VerificationRecord
    BY ParserAssumption DEF VerificationRecord
  <2> QED BY <1>3, <2>1 DEF Verified, ParserOK
<1>4. l.id \in Ids
  BY DEF Ids
<1>5. CASE Using(l)
  <2>1. pendingVerify.claim \in Ids /\ pendingVerify.line \in Nat
    BY DEF ParserOK
  <2>2. NoVerify \in [claim : Ids, line : Nat]
    BY DEF NoVerify, Ids
  <2>3. verifications' \in Seq(VerificationRecord)
    BY <1>3, <1>5, <2>1 DEF Using
  <2> QED BY <1>5, <2>2, <2>3 DEF Using, ParserOK
<1>6. CASE BlankOrComment(l) \/ Header(l) \/ Goal(l) \/ AcceptWhen(l)
  BY <1>6 DEF BlankOrComment, Header, Goal, AcceptWhen, ParserOK
<1>7. CASE Claim(l)
  <2>1. claims' \in Seq(ClaimRecord)
    BY <1>1, <1>2, <1>4, <1>7 DEF Claim
  <2> QED BY <1>7, <2>1 DEF Claim, ParserOK
<1>8. CASE Invariant(l)
  <2>1. claims' \in Seq(ClaimRecord)
    <3>1. Claimed(l.id, "invariant", TRUE, "CRITICAL" \in l.modifiers, 0, Here)
      BY <1>8 DEF Invariant
    <3>2. ("CRITICAL" \in l.modifiers) \in BOOLEAN
      OBVIOUS
    <3>3. 0 \in Nat /\ "invariant" \in {"claim", "invariant"} /\ TRUE \in BOOLEAN
      OBVIOUS
    <3> QED BY <1>1, <1>2, <1>4, <3>1, <3>2, <3>3, Zenon
  <2> QED BY <1>8, <2>1 DEF Invariant, ParserOK
<1>9. CASE Ensure(l)
  <2>1. claims' = [claims EXCEPT ![Len(claims)].ensure = Here]
    BY <1>9 DEF Ensure
  <2>2. ASSUME NEW i \in DOMAIN claims
        PROVE  [claims[i] EXCEPT !.ensure = Here] \in ClaimRecord
    <3>1. claims[i] \in ClaimRecord
      BY DEF ParserOK
    <3> QED BY <1>1, <3>1 DEF ClaimRecord
  <2>3. claims \in Seq(ClaimRecord)
    BY DEF ParserOK
  <2>4. claims' = [i \in DOMAIN claims |-> IF i = Len(claims) THEN [claims[i] EXCEPT !.ensure = Here] ELSE claims[i]]
    BY <2>1
  <2>5. claims' \in Seq(ClaimRecord)
    BY <2>2, <2>3, <2>4
  <2> QED BY <1>9, <2>5 DEF Ensure, ParserOK
<1>10. CASE Forbid(l)
  <2>1. CASE l.text # ""
    <3>1. ForbidId(forbids + 1) \in {<<"forbid", n>> : n \in Nat}
      BY DEF ForbidId, ParserOK
    <3>2. claims' \in Seq(ClaimRecord)
      BY <1>1, <1>2, <1>10, <2>1, <3>1 DEF Forbid
    <3>3. forbids' = forbids + 1 /\ pendingForbid' = pendingForbid
      BY <1>10, <2>1 DEF Forbid
    <3>4. UNCHANGED <<verifications, pendingVerify>>
      BY <1>10 DEF Forbid
    <3>5. forbids \in Nat /\ pendingForbid \in Nat
      BY DEF ParserOK
    <3> QED BY <3>2, <3>3, <3>4, <3>5 DEF ParserOK
  <2>2. CASE l.text = ""
    <3>1. pendingForbid' \in Nat
      BY <1>1, <1>10, <2>2 DEF Forbid
    <3>2. UNCHANGED <<claims, forbids, verifications, pendingVerify>>
      BY <1>10, <2>2 DEF Forbid
    <3> QED BY <3>1, <3>2 DEF ParserOK
  <2> QED BY <2>1, <2>2
<1>11. CASE ForbidText(l)
  <2>1. ForbidId(forbids + 1) \in {<<"forbid", n>> : n \in Nat} /\ pendingForbid \in Nat
    BY DEF ForbidId, ParserOK
  <2>2. claims' \in Seq(ClaimRecord)
    BY <1>1, <1>2, <1>11, <2>1 DEF ForbidText
  <2> QED BY <1>11, <2>2 DEF ForbidText, ParserOK
<1>12. CASE Verify(l)
  <2>1. CASE l.ref # NoHash
    <3>1. verifications' \in Seq(VerificationRecord)
      BY <1>1, <1>3, <1>4, <1>12, <2>1 DEF Verify
    <3> QED BY <1>12, <2>1, <3>1 DEF Verify, ParserOK
  <2>2. CASE l.ref = NoHash
    BY <1>1, <1>4, <1>12, <2>2 DEF Verify, ParserOK
  <2> QED BY <2>1, <2>2
<1>13. CASE Require(l)
  <2>1. verifications' = [verifications EXCEPT ![Len(verifications)].requirement = l.text]
    BY <1>13 DEF Require
  <2>2. ASSUME NEW i \in DOMAIN verifications
        PROVE  [verifications[i] EXCEPT !.requirement = l.text] \in VerificationRecord
    <3>1. verifications[i] \in VerificationRecord
      BY DEF ParserOK
    <3> QED BY <3>1 DEF VerificationRecord
  <2>3. verifications \in Seq(VerificationRecord)
    BY DEF ParserOK
  <2>4. verifications' = [i \in DOMAIN verifications |->
           IF i = Len(verifications) THEN [verifications[i] EXCEPT !.requirement = l.text] ELSE verifications[i]]
    BY <2>1
  <2>5. verifications' \in Seq(VerificationRecord)
    BY <2>2, <2>3, <2>4
  <2> QED BY <1>13, <2>5 DEF Require, ParserOK
<1> QED BY <1>5, <1>6, <1>7, <1>8, <1>9, <1>10, <1>11, <1>12, <1>13

-----------------------------------------------------------------------------
(***************************************************************************)
(* What holds of the compiled contract and of a report made of it.         *)
(***************************************************************************)
IrOfContract ==
  /\ ir.claims = MapSeq(claims, CompiledClaim)
  /\ ir.verification = MapSeq(verifications, CompiledVerification)
  /\ ~Duplicated

CInv ==
  /\ ParserOK
  /\ phase \in {"compiled", "linted", "briefed"} => IrOfContract
  /\ phase = "linted" =>
       /\ report.toml \in Registries
       /\ report.findings = Findings(Registered(report.toml), report.bindings)

\* A refused source leaves nothing behind.
LEMMA RefuseKeeps ==
  ASSUME Refuse
  PROVE  CInv'
<1>1. NoVerify \in [claim : Ids, line : Nat]
  BY DEF NoVerify, Ids
<1>2. ParserOK'
  BY <1>1 DEF Refuse, ParserOK
<1> QED BY <1>2 DEF Refuse, CInv

\* Every step of the parser, the compiler and the preflight keeps CInv.
LEMMA StepKeeps ==
  ASSUME CInv, [Next]_vars
  PROVE  CInv'
<1>1. CASE UNCHANGED vars
  <2>1. UNCHANGED <<source, phase, claims, verifications, pendingVerify, pendingForbid, forbids, ir, report>>
    BY <1>1 DEF vars, parserVars, parsing
  <2>2. ParserOK'
    BY <2>1 DEF CInv, ParserOK
  <2>3. IrOfContract' <=> IrOfContract
    BY <2>1 DEF IrOfContract, Duplicated
  <2>4. Findings(Registered(report.toml), report.bindings)' = Findings(Registered(report.toml), report.bindings)
    BY <2>1 DEF Findings, MissingVerify, UnknownVerifier, DuplicateVerify, SelectorTemplate,
                PinnedTestSelector, UnboundRequirement, BoundTo, Claims, Verifications, VerificationsOf
  <2> QED BY <2>1, <2>2, <2>3, <2>4 DEF CInv
<1>2. ASSUME NEW l \in Lines, ReadLine(l), UNCHANGED <<ir, report>>
      PROVE  CInv'
  <2>1. CASE LineRefused(l)
    BY <1>2, <2>1, RefuseKeeps DEF ReadLine
  <2>2. CASE ~LineRefused(l)
    <3>1. ParserOK
      BY DEF CInv
    <3>2. source' \in Seq(Lines)
      <4>1. source' = Append(source, l)
        BY <1>2, <2>2 DEF ReadLine
      <4> QED BY <3>1, <4>1 DEF ParserOK
    <3>3. \/ Using(l) \/ BlankOrComment(l) \/ Header(l) \/ Goal(l)
          \/ Claim(l) \/ Invariant(l) \/ Ensure(l) \/ Forbid(l) \/ ForbidText(l)
          \/ Verify(l) \/ AcceptWhen(l) \/ Require(l)
      BY <1>2, <2>2 DEF ReadLine
    <3>4. ParserOK'
      BY <3>1, <3>2, <3>3, RuleKeeps DEF ParserOK
    <3>5. phase' = "reading"
      BY <1>2, <2>2 DEF ReadLine
    <3> QED BY <3>4, <3>5 DEF CInv
  <2> QED BY <2>1, <2>2
<1>3. CASE EndOfSource /\ UNCHANGED <<ir, report>>
  <2>1. CASE SourceRefused
    BY <1>3, <2>1, RefuseKeeps DEF EndOfSource
  <2>2. CASE ~SourceRefused
    <3>1. phase' = "parsed" /\ ParserOK'
      BY <1>3, <2>2 DEF EndOfSource, parsing, CInv, ParserOK
    <3> QED BY <3>1 DEF CInv
  <2> QED BY <2>1, <2>2
<1>4. CASE Compile
  <2>1. CASE Duplicated
    BY <1>4, <2>1, RefuseKeeps DEF Compile
  <2>2. CASE ~Duplicated
    <3>1. UNCHANGED <<source, claims, verifications, pendingVerify, pendingForbid, forbids>>
      BY <1>4, <2>2 DEF Compile, parsing
    <3>2. ParserOK' /\ ~Duplicated'
      BY <2>2, <3>1 DEF CInv, ParserOK, Duplicated
    <3>3. /\ phase' = "compiled"
          /\ ir' = [claims |-> MapSeq(claims, CompiledClaim),
                    verification |-> MapSeq(verifications, CompiledVerification)]
      BY <1>4, <2>2 DEF Compile
    <3>4. IrOfContract'
      BY <3>1, <3>2, <3>3 DEF IrOfContract
    <3> QED BY <3>2, <3>3, <3>4 DEF CInv
  <2> QED BY <2>1, <2>2
<1>5. CASE Preflight
  <2>1. phase = "compiled" /\ UNCHANGED <<source, claims, verifications, pendingVerify,
                                         pendingForbid, forbids, ir>>
    BY <1>5 DEF Preflight, Lint, Brief, parsing
  <2>2. ParserOK' /\ IrOfContract'
    BY <2>1 DEF CInv, ParserOK, IrOfContract, Duplicated
  <2>3. ASSUME NEW toml \in Registries, NEW bound \in BindingTables, Lint(toml, bound)
        PROVE  CInv'
    <3>1. report'.toml = toml /\ report'.bindings = bound
          /\ report'.findings = Findings(Registered(toml), bound)
      BY <2>3 DEF Lint
    <3>2. Findings(Registered(toml), bound)' = Findings(Registered(toml), bound)
      BY <2>1 DEF Findings, MissingVerify, UnknownVerifier, DuplicateVerify, SelectorTemplate,
                  PinnedTestSelector, UnboundRequirement, BoundTo, Claims, Verifications, VerificationsOf
    <3> QED BY <2>2, <3>1, <3>2 DEF CInv
  <2>4. ASSUME NEW toml \in Registries, NEW bound \in BindingTables, Brief(toml, bound)
        PROVE  CInv'
    BY <2>2, <2>4 DEF Brief, CInv
  <2> QED BY <1>5, <2>3, <2>4 DEF Preflight
<1> QED BY <1>1, <1>2, <1>3, <1>4, <1>5 DEF Next

LEMMA CInvHolds == Spec => []CInv
<1>1. Init => CInv
  <2>1. NoVerify \in [claim : Ids, line : Nat]
    BY DEF NoVerify, Ids
  <2> QED BY <2>1 DEF Init, ParserInit, CInv, ParserOK
<1>2. CInv /\ [Next]_vars => CInv'
  BY StepKeeps
<1> QED BY <1>1, <1>2, PTL DEF Spec

\* What lint looks at in a verification it finds nothing about.
LEMMA Unflagged ==
  ASSUME CInv, phase = "linted", report.findings = {},
         NEW v \in Verifications, v.inline_shell = NoHash,
         DOMAIN Registered(report.toml) # {}
  PROVE  ~RefusedByVerify(v, Registered(report.toml), report.bindings)
<1> DEFINE registry == Registered(report.toml)
           bound == report.bindings
<1>1. /\ UnknownVerifier(registry) = {} /\ SelectorTemplate(registry, bound) = {}
      /\ UnboundRequirement({}, bound) = {}
  <2>1. Findings(registry, bound) = {}
    BY DEF CInv
  <2>2. SelectorTemplate(registry, bound) = {}
    BY <2>1 DEF Findings
  <2>3. {f.claim : f \in SelectorTemplate(registry, bound)} = {}
    BY <2>2
  <2> QED BY <2>1, <2>2, <2>3 DEF Findings
<1>2. v.verifier_ref # "shell"
  <2>1. PICK i \in DOMAIN verifications : v = CompiledVerification(verifications[i])
    BY DEF CInv, IrOfContract, Verifications, Range, MapSeq
  <2>2. verifications[i] \in VerificationRecord
    BY DEF CInv, ParserOK
  <2> QED BY <2>1, <2>2 DEF CompiledVerification, VerificationRecord
<1>3. v.verifier_ref \in DOMAIN registry
  BY <1>1, <1>2 DEF UnknownVerifier
<1>4. registry[v.verifier_ref] # NoHash
  BY <1>3, ContractAssumption DEF CInv
<1>5. ResolveCommand(v, registry) # NoHash
  BY <1>2, <1>3, <1>4 DEF ResolveCommand
<1>6. BaseSpec(registry, v.verifier_ref) = registry[v.verifier_ref]
  BY <1>3 DEF BaseSpec
<1>7. CASE IsTemplate(registry[v.verifier_ref])
  BY <1>1, <1>5, <1>6, <1>7 DEF SelectorTemplate, RefusedByVerify
<1>8. CASE ~IsTemplate(registry[v.verifier_ref])
  <2>1. v.requirement # NoHash => BoundTo(bound[v.claim], v)
    BY <1>1 DEF UnboundRequirement
  <2> QED BY <1>5, <1>6, <1>8, <2>1 DEF RefusedByVerify, NeedsBinding, Authorizes, BoundTo
<1> QED BY <1>7, <1>8

(***************************************************************************)
(* A preflight of crates/uni-cli/src/cmd/contract.rs that finds nothing    *)
(* foretells what require_binding and resolve_command of `uni verify` let  *)
(* pass, whatever the contract, the registry and the bindings.             *)
(***************************************************************************)
THEOREM PreflightForetells == Spec => []LintForetells
<1>1. CInv => LintForetells
  <2> SUFFICES ASSUME CInv, phase = "linted", report.findings = {}
               PROVE  LintForetells
    BY DEF LintForetells
  <2>1. \A i, k \in DOMAIN ir.claims : ir.claims[i].id = ir.claims[k].id => i = k
    <3>1. SUFFICES ASSUME NEW i \in DOMAIN ir.claims, NEW k \in DOMAIN ir.claims,
                          ir.claims[i].id = ir.claims[k].id, i # k
                   PROVE  FALSE
      OBVIOUS
    <3>2. i \in DOMAIN claims /\ k \in DOMAIN claims /\ claims[i].id = claims[k].id
      BY <3>1 DEF CInv, IrOfContract, MapSeq, CompiledClaim
    <3>3. i \in Nat /\ k \in Nat
      BY <3>2 DEF CInv, ParserOK
    <3>4. i < k \/ k < i
      BY <3>1, <3>3
    <3> QED BY <3>2, <3>4 DEF CInv, IrOfContract, Duplicated
  <2>2. \A c \in Claims : VerificationsOf(c.id) # {}
    <3>1. MissingVerify = {}
      BY DEF CInv, Findings
    <3> QED BY <3>1 DEF MissingVerify
  <2>3. \A v \in Verifications : RefusedByVerify(v, Registered(report.toml), report.bindings) =>
          v.inline_shell # NoHash \/ DOMAIN Registered(report.toml) = {}
    BY Unflagged
  <2> QED BY <2>1, <2>2, <2>3 DEF LintForetells
<1> QED BY <1>1, CInvHolds, PTL

-----------------------------------------------------------------------------
(***************************************************************************)
(* The source as a whole.  What the grammar says of a line depends on the  *)
(* lines before it, and the parser's in_goal and pending_forbid remember   *)
(* what they say.                                                          *)
(***************************************************************************)
GoalOK ==
  inGoal <=> \E g \in DOMAIN source : source[g].dir = "GOAL" /\ Clear(g, Here, EndsGoal)

ForbidOK ==
  pendingForbid # 0 <=> \E f \in DOMAIN source : BareForbid(f) /\ Clear(f, Here, Late)

\* One line more: h is its number.
Grown(l, h) == source \in Seq(Lines) /\ source' = Append(source, l) /\ h = Here

LEMMA GrownByOne ==
  ASSUME NEW l \in Lines, NEW h, Grown(l, h)
  PROVE  /\ source' \in Seq(Lines) /\ Len(source) \in Nat /\ h = Len(source) + 1 /\ h \in Nat \ {0}
         /\ Len(source') = h /\ Here' = h + 1
         /\ DOMAIN source = 1..h - 1 /\ DOMAIN source' = 1..h
         /\ source'[h] = l /\ \A i \in 1..h - 1 : source'[i] = source[i]
<1>1. source \in Seq(Lines) /\ source' = Append(source, l) /\ h = Len(source) + 1
  BY DEF Grown, Here
<1>2. Len(source) \in Nat /\ DOMAIN source = 1..Len(source)
  BY <1>1
<1>3. /\ source' \in Seq(Lines) /\ Len(source') = Len(source) + 1
      /\ DOMAIN source' = 1..Len(source) + 1 /\ source'[Len(source) + 1] = l
      /\ \A i \in 1..Len(source) : source'[i] = source[i]
  BY <1>1
<1>4. h - 1 = Len(source) /\ h \in Nat \ {0}
  BY <1>1, <1>2
<1> QED BY <1>1, <1>2, <1>3, <1>4 DEF Here

\* A line says what it said when it was the last one.
LEMMA LinesStay ==
  ASSUME NEW l \in Lines, NEW h, Grown(l, h), NEW i \in 1..h - 1
  PROVE  /\ IsProse(i)' <=> IsProse(i)
         /\ IsForbidText(i)' <=> IsForbidText(i)
         /\ Late(i)' <=> Late(i)
         /\ BareForbid(i)' <=> BareForbid(i)
         /\ EndsGoal(i)' <=> EndsGoal(i)
<1>1. h \in Nat /\ \A n \in 1..h - 1 : source'[n] = source[n]
  BY GrownByOne
<1>2. \A n \in 1..h - 1 : EndsGoal(n)' <=> EndsGoal(n)
  BY <1>1 DEF EndsGoal
<1>3. ASSUME NEW n \in 1..h - 1 PROVE IsProse(n)' <=> IsProse(n)
  <2>1. \A g \in 1..n - 1 : Clear(g, n, EndsGoal)' <=> Clear(g, n, EndsGoal)
    BY <1>1, <1>2 DEF Clear
  <2> QED BY <1>1, <2>1 DEF IsProse
<1>4. ASSUME NEW n \in 1..h - 1
      PROVE  (Late(n)' <=> Late(n)) /\ (BareForbid(n)' <=> BareForbid(n))
  BY <1>1, <1>3 DEF Late, BareForbid
<1>5. IsForbidText(i)' <=> IsForbidText(i)
  <2>1. \A f \in 1..i - 1 : Clear(f, i, Late)' <=> Clear(f, i, Late)
    BY <1>1, <1>4 DEF Clear
  <2>2. \A f \in 1..i - 1 : BareForbid(f)' <=> BareForbid(f)
    BY <1>1, <1>4
  <2> QED BY <1>4, <2>1, <2>2 DEF IsForbidText
<1> QED BY <1>2, <1>3, <1>4, <1>5

\* The line just read says what the rule that reads it takes it for.
LEMMA LastLine ==
  ASSUME NEW l \in Lines, NEW h, Grown(l, h), GoalOK, ForbidOK
  PROVE  /\ IsProse(h)' <=> Prose(l)
         /\ IsForbidText(h)' <=> Forbidden(l)
         /\ Late(h)' <=> l.dir \notin EarlyRules /\ ~Prose(l)
         /\ BareForbid(h)' <=> l.dir = "FORBID" /\ l.text = "" /\ ~Prose(l)
<1>1. h \in Nat /\ h = Here /\ DOMAIN source = 1..h - 1 /\ source'[h] = l
      /\ \A n \in 1..h - 1 : source'[n] = source[n]
  BY GrownByOne DEF Grown
<1>2. IsProse(h)' <=> Prose(l)
  <2>1. \A n \in 1..h - 1 : EndsGoal(n)' <=> EndsGoal(n)
    BY LinesStay
  <2>2. \A g \in 1..h - 1 : Clear(g, h, EndsGoal)' <=> Clear(g, h, EndsGoal)
    BY <1>1, <2>1 DEF Clear
  <2>3. inGoal <=> \E g \in 1..h - 1 : source[g].dir = "GOAL" /\ Clear(g, h, EndsGoal)
    BY <1>1 DEF GoalOK
  <2> QED BY <1>1, <2>2, <2>3 DEF IsProse, Prose
<1>3. Late(h)' <=> l.dir \notin EarlyRules /\ ~Prose(l)
  BY <1>1, <1>2 DEF Late
<1>4. BareForbid(h)' <=> l.dir = "FORBID" /\ l.text = "" /\ ~Prose(l)
  BY <1>1, <1>2 DEF BareForbid
<1>5. IsForbidText(h)' <=> Forbidden(l)
  <2>1. \A n \in 1..h - 1 : (Late(n)' <=> Late(n)) /\ (BareForbid(n)' <=> BareForbid(n))
    BY LinesStay
  <2>2. \A f \in 1..h - 1 : Clear(f, h, Late)' <=> Clear(f, h, Late)
    BY <1>1, <2>1 DEF Clear
  <2>3. pendingForbid # 0 <=> \E f \in 1..h - 1 : BareForbid(f) /\ Clear(f, h, Late)
    BY <1>1 DEF ForbidOK
  <2> QED BY <1>3, <2>1, <2>2, <2>3 DEF IsForbidText, Forbidden
<1> QED BY <1>2, <1>3, <1>4, <1>5

\* What reads a line that is no error.
Accepted(l) ==
  /\ ~LineRefused(l)
  /\ \/ Using(l) \/ BlankOrComment(l) \/ Header(l) \/ Goal(l)
     \/ Claim(l) \/ Invariant(l) \/ Ensure(l) \/ Forbid(l) \/ ForbidText(l)
     \/ Verify(l) \/ AcceptWhen(l) \/ Require(l)

\* An ACCEPT WHEN that may go on stands outside the goal, and no text is awaited.
ConditionOK ==
  /\ condition # NoCondition => ~inGoal /\ pendingForbid = 0
  /\ condition \in Seq({"required", "critical", "AND", "other"}) \cup {NoCondition}

\* Every rule but ACCEPT WHEN ends the condition.
LEMMA ConditionStays ==
  ASSUME NEW l \in Lines, ConditionOK, Accepted(l)
  PROVE  ConditionOK'
<1>1. CASE ~AcceptWhen(l)
  <2>1. condition' = NoCondition
    BY <1>1 DEF Accepted, LineFinished, Using, BlankOrComment, Header, Goal, Claim, Invariant,
                Ensure, Forbid, ForbidText, Verify, Require
  <2> QED BY <2>1 DEF ConditionOK
<1>2. CASE AcceptWhen(l)
  <2>1. l.clauses \in Seq({"required", "critical", "AND", "other"})
    BY ParserAssumption
  <2>2. inGoal' = FALSE /\ pendingForbid' = pendingForbid
    BY <1>2 DEF AcceptWhen
  <2>3. CASE Rule(l, "ACCEPT WHEN") /\ condition' = l.clauses
    <3>1. pendingForbid = 0
      BY <2>3 DEF Rule, Forbidden, EarlyRules, FirstRules
    <3> QED BY <2>1, <2>2, <2>3, <3>1 DEF ConditionOK
  <2>4. CASE condition # NoCondition /\ condition' = condition \o l.clauses
    BY <2>1, <2>2, <2>4 DEF ConditionOK
  <2> QED BY <1>2, <2>3, <2>4 DEF AcceptWhen
<1> QED BY <1>1, <1>2

\* in_goal remembers whether the next line may be text of the goal.
LEMMA GoalStays ==
  ASSUME NEW l \in Lines, NEW h, Grown(l, h), GoalOK, ForbidOK, ConditionOK, Accepted(l)
  PROVE  GoalOK'
<1>1. h \in Nat \ {0} /\ h = Here /\ Here' = h + 1 /\ DOMAIN source = 1..h - 1 /\ DOMAIN source' = 1..h
      /\ source'[h] = l /\ \A n \in 1..h - 1 : source'[n] = source[n]
  BY GrownByOne DEF Grown
<1>2. EndsGoal(h)' <=> l.dir \in {"BLANK", "HEADER"} \/ (l.word /\ l.dir \notin FirstRules)
  BY <1>1 DEF EndsGoal
<1>3. ASSUME NEW g \in 1..h - 1
      PROVE  Clear(g, h + 1, EndsGoal)' <=> Clear(g, h, EndsGoal) /\ ~EndsGoal(h)'
  <2>1. \A n \in 1..h - 1 : EndsGoal(n)' <=> EndsGoal(n)
    BY LinesStay
  <2>2. g + 1..(h + 1) - 1 = (g + 1..h - 1) \cup {h} /\ \A n \in g + 1..h - 1 : n \in 1..h - 1
    BY <1>1
  <2> QED BY <2>1, <2>2 DEF Clear
<1>4. Clear(h, h + 1, EndsGoal)'
  BY <1>1 DEF Clear
<1>5. (\E g \in 1..h : source'[g].dir = "GOAL" /\ Clear(g, h + 1, EndsGoal)')
      <=> l.dir = "GOAL" \/ (inGoal /\ ~EndsGoal(h)')
  <2>1. inGoal <=> \E g \in 1..h - 1 : source[g].dir = "GOAL" /\ Clear(g, h, EndsGoal)
    BY <1>1 DEF GoalOK
  <2>2. 1..h = (1..h - 1) \cup {h}
    BY <1>1
  <2> QED BY <1>1, <1>3, <1>4, <2>1, <2>2
<1>6. inGoal' <=> l.dir = "GOAL" \/ (inGoal /\ ~EndsGoal(h)')
  <2>1. CASE Using(l) \/ BlankOrComment(l) \/ Header(l)
    <3>1. CASE Using(l)
      <4>1. inGoal' = inGoal /\ l.dir = "USING"
        BY <3>1 DEF Using
      <4> QED BY <1>2, <4>1 DEF FirstRules
    <3>2. CASE BlankOrComment(l)
      <4>1. (inGoal' <=> inGoal /\ l.dir = "COMMENT") /\ l.dir \in {"BLANK", "COMMENT"}
        BY <3>2, Zenon DEF BlankOrComment, Gap
      <4> QED BY <1>2, <4>1 DEF FirstRules
    <3>3. CASE Header(l)
      BY <1>2, <3>3 DEF Header
    <3> QED BY <2>1, <3>1, <3>2, <3>3
  <2>2. CASE Goal(l)
    BY <1>2, <2>2 DEF Goal, Prose, FirstRules
  <2>3. CASE \/ Claim(l) \/ Invariant(l) \/ Ensure(l) \/ Forbid(l) \/ ForbidText(l)
             \/ Verify(l) \/ AcceptWhen(l) \/ Require(l)
    <3>1. inGoal' = FALSE
      BY <2>3 DEF Claim, Invariant, Ensure, Forbid, ForbidText, Verify, AcceptWhen, Require
    <3>2. l.dir \notin FirstRules /\ (~inGoal \/ l.word)
      BY <2>3 DEF Claim, Invariant, Ensure, Forbid, ForbidText, Verify, AcceptWhen, Require,
                  Rule, Forbidden, Prose, FirstRules, EarlyRules, ConditionOK
    <3> QED BY <1>2, <3>1, <3>2 DEF FirstRules
  <2> QED BY <2>1, <2>2, <2>3 DEF Accepted
<1> QED BY <1>1, <1>5, <1>6 DEF GoalOK

\* pending_forbid remembers whether a bare FORBID has yet to find its text.
LEMMA ForbidStays ==
  ASSUME NEW l \in Lines, NEW h, Grown(l, h), GoalOK, ForbidOK, ConditionOK, Accepted(l)
  PROVE  ForbidOK'
<1>1. h \in Nat \ {0} /\ h = Here /\ Here' = h + 1 /\ DOMAIN source = 1..h - 1 /\ DOMAIN source' = 1..h
  BY GrownByOne DEF Grown
<1>2. /\ Late(h)' <=> l.dir \notin EarlyRules /\ ~Prose(l)
      /\ BareForbid(h)' <=> l.dir = "FORBID" /\ l.text = "" /\ ~Prose(l)
  BY LastLine
<1>3. ASSUME NEW f \in 1..h - 1
      PROVE  /\ Clear(f, h + 1, Late)' <=> Clear(f, h, Late) /\ ~Late(h)'
             /\ BareForbid(f)' <=> BareForbid(f)
  <2>1. \A n \in 1..h - 1 : (Late(n)' <=> Late(n)) /\ (BareForbid(n)' <=> BareForbid(n))
    BY LinesStay
  <2>2. f + 1..(h + 1) - 1 = (f + 1..h - 1) \cup {h} /\ \A n \in f + 1..h - 1 : n \in 1..h - 1
    BY <1>1
  <2> QED BY <2>1, <2>2 DEF Clear
<1>4. Clear(h, h + 1, Late)'
  BY <1>1 DEF Clear
<1>5. (\E f \in 1..h : BareForbid(f)' /\ Clear(f, h + 1, Late)')
      <=> BareForbid(h)' \/ (pendingForbid # 0 /\ ~Late(h)')
  <2>1. pendingForbid # 0 <=> \E f \in 1..h - 1 : BareForbid(f) /\ Clear(f, h, Late)
    BY <1>1 DEF ForbidOK
  <2>2. 1..h = (1..h - 1) \cup {h}
    BY <1>1
  <2> QED BY <1>3, <1>4, <2>1, <2>2
<1>6. pendingForbid' # 0 <=> BareForbid(h)' \/ (pendingForbid # 0 /\ ~Late(h)')
  <2>1. CASE Using(l) \/ BlankOrComment(l) \/ Header(l) \/ Goal(l) \/ Claim(l) \/ Invariant(l) \/ Ensure(l)
    <3>1. pendingForbid' = pendingForbid
      BY <2>1 DEF Using, BlankOrComment, Header, Goal, Claim, Invariant, Ensure
    <3>2. (l.dir \in EarlyRules /\ l.dir # "FORBID") \/ Prose(l)
      BY <2>1 DEF Using, BlankOrComment, Gap, Header, Goal, Claim, Invariant, Ensure,
                  Rule, EarlyRules, FirstRules
    <3> QED BY <1>2, <3>1, <3>2
  <2>2. CASE Forbid(l)
    <3>1. l.dir = "FORBID" /\ ~Prose(l) /\ l.dir \in EarlyRules
      BY <2>2 DEF Forbid, Rule, EarlyRules
    <3>2. IF l.text # "" THEN pendingForbid' = pendingForbid ELSE pendingForbid' = h
      BY <1>1, <2>2 DEF Forbid
    <3> QED BY <1>1, <1>2, <3>1, <3>2
  <2>3. CASE ForbidText(l)
    BY <1>2, <2>3 DEF ForbidText, Forbidden, EarlyRules
  <2>4. CASE Verify(l) \/ AcceptWhen(l) \/ Require(l)
    <3>1. pendingForbid' = pendingForbid
      BY <2>4 DEF Verify, AcceptWhen, Require
    <3>2. pendingForbid = 0 /\ l.dir # "FORBID"
      BY <2>4 DEF Verify, AcceptWhen, Require, Rule, Forbidden, EarlyRules, FirstRules, ConditionOK
    <3> QED BY <1>2, <3>1, <3>2
  <2> QED BY <2>1, <2>2, <2>3, <2>4 DEF Accepted
<1> QED BY <1>1, <1>5, <1>6 DEF ForbidOK

-----------------------------------------------------------------------------
(***************************************************************************)
(* What a line is to the contract: said once for the lines there were, and *)
(* once for the line just read.                                            *)
(***************************************************************************)
LEMMA SaysStays ==
  ASSUME NEW l \in Lines, NEW h, Grown(l, h), NEW i \in 1..h - 1
  PROVE  /\ \A dir : Says(i, dir)' <=> Says(i, dir)
         /\ Forbids(i)' <=> Forbids(i)
         /\ Declares(i)' <=> Declares(i)
         /\ Inline(i)' <=> Inline(i)
         /\ Waits(i)' <=> Waits(i)
         /\ Completes(i)' <=> Completes(i)
         /\ Substance(i)' <=> Substance(i)
<1>1. source'[i] = source[i]
  BY GrownByOne
<1>2. (IsProse(i)' <=> IsProse(i)) /\ (IsForbidText(i)' <=> IsForbidText(i))
  BY LinesStay
<1>3. \A dir : Says(i, dir)' <=> Says(i, dir)
  BY <1>1, <1>2 DEF Says
<1>4. Forbids(i)' <=> Forbids(i)
  BY <1>1, <1>2, <1>3 DEF Forbids
<1>5. (Inline(i)' <=> Inline(i)) /\ (Waits(i)' <=> Waits(i))
  BY <1>1, <1>3 DEF Inline, Waits
<1> QED BY <1>1, <1>3, <1>4, <1>5 DEF Declares, Completes, Substance

LEMMA SaysLast ==
  ASSUME NEW l \in Lines, NEW h, Grown(l, h), GoalOK, ForbidOK
  PROVE  /\ \A dir : Says(h, dir)' <=> Rule(l, dir)
         /\ Forbids(h)' <=> Forbidden(l) \/ (Rule(l, "FORBID") /\ l.text # "")
         /\ Declares(h)' <=> Rule(l, "CLAIM") \/ Rule(l, "INVARIANT") \/ Forbids(h)'
         /\ Inline(h)' <=> Rule(l, "VERIFY") /\ l.ref # NoHash
         /\ Waits(h)' <=> Rule(l, "VERIFY") /\ l.ref = NoHash
         /\ Completes(h)' <=> l.dir = "USING" \/ Inline(h)'
         /\ Substance(h)' <=> ~Gap(l)
<1>1. source'[h] = l
  BY GrownByOne
<1>2. (IsProse(h)' <=> Prose(l)) /\ (IsForbidText(h)' <=> Forbidden(l))
  BY LastLine
<1>3. \A dir : Says(h, dir)' <=> Rule(l, dir)
  BY <1>1, <1>2 DEF Says, Rule
<1>4. Forbids(h)' <=> Forbidden(l) \/ (Rule(l, "FORBID") /\ l.text # "")
  BY <1>1, <1>2, <1>3 DEF Forbids
<1>5. /\ Inline(h)' <=> Rule(l, "VERIFY") /\ l.ref # NoHash
      /\ Waits(h)' <=> Rule(l, "VERIFY") /\ l.ref = NoHash
  BY <1>1, <1>3 DEF Inline, Waits
<1> QED BY <1>1, <1>3, <1>4, <1>5 DEF Declares, Completes, Substance

\* Counting the lines of a kind: a new line comes after all of them.
LEMMA Counting ==
  ASSUME NEW h \in Nat \ {0}, NEW S \in SUBSET (1..h - 1)
  PROVE  /\ Cardinality(S) \in Nat
         /\ Cardinality(S \cup {h}) = Cardinality(S) + 1
         /\ \A i \in 1..h - 1 : Upto(i, S \cup {h}) = Upto(i, S)
         /\ Upto(h, S \cup {h}) = Cardinality(S) + 1
         /\ \A i \in S : Upto(i, S) \in 1..Cardinality(S)
         /\ \A i, k \in S : i < k => Upto(i, S) < Upto(k, S)
<1>0. \A n \in S : n \in Nat /\ n \in 1..h - 1 /\ n < h
  OBVIOUS
<1>1. IsFiniteSet(S)
  <2>1. 1 \in Int /\ h - 1 \in Int
    OBVIOUS
  <2>2. IsFiniteSet(1..h - 1)
    BY <2>1, FS_Interval
  <2> QED BY <2>2, FS_Subset
<1>2. Cardinality(S) \in Nat
  BY <1>1, FS_CardinalityType
<1>3. h \notin S
  OBVIOUS
<1>4. Cardinality(S \cup {h}) = Cardinality(S) + 1
  BY <1>1, <1>3, FS_AddElement
<1>5. ASSUME NEW i \in 1..h - 1 PROVE Upto(i, S \cup {h}) = Upto(i, S)
  <2>1. {n \in S \cup {h} : n <= i} = {n \in S : n <= i}
    OBVIOUS
  <2> QED BY <2>1 DEF Upto
<1>6. Upto(h, S \cup {h}) = Cardinality(S) + 1
  <2>1. \A n \in S \cup {h} : n <= h
    BY <1>0
  <2>2. {n \in S \cup {h} : n <= h} = S \cup {h}
    BY <2>1
  <2> QED BY <1>4, <2>2 DEF Upto
<1>7. ASSUME NEW k \in S
      PROVE  /\ Upto(k, S) \in 1..Cardinality(S)
             /\ \A i \in S : i < k => Upto(i, S) < Upto(k, S)
  <2> DEFINE below(i) == {n \in S : n <= i}
  <2>1. ASSUME NEW i \in S PROVE IsFiniteSet(below(i)) /\ Cardinality(below(i)) \in Nat
    BY <1>1, FS_Subset, FS_CardinalityType
  <2>2. Cardinality(below(k)) <= Cardinality(S)
    <3>1. below(k) \subseteq S
      OBVIOUS
    <3> QED BY <1>1, <3>1, FS_Subset
  <2>3. Cardinality(below(k)) # 0
    <3>1. k \in below(k)
      OBVIOUS
    <3> QED BY <2>1, <3>1, FS_EmptySet
  <2>4. ASSUME NEW i \in S, i < k PROVE Cardinality(below(i)) < Cardinality(below(k))
    <3>0. i \in Nat /\ k \in Nat /\ \A n \in S : n \in Nat
      BY <1>0
    <3>1. below(i) \in SUBSET below(k) /\ below(i) # below(k)
      <4>1. k \in below(k) /\ k \notin below(i)
        BY <2>4, <3>0
      <4>2. \A n \in S : n <= i => n <= k
        BY <2>4, <3>0
      <4> QED BY <4>1, <4>2
    <3>2. IsFiniteSet(below(i)) /\ IsFiniteSet(below(k))
      BY <2>1
    <3>3. Cardinality(below(i)) <= Cardinality(below(k)) /\ Cardinality(below(i)) # Cardinality(below(k))
      <4>1. \A B : IsFiniteSet(B) => \A A \in SUBSET B :
              Cardinality(A) <= Cardinality(B) /\ (A # B => Cardinality(A) # Cardinality(B))
        BY FS_Subset
      <4> HIDE DEF below
      <4> QED BY <3>1, <3>2, <4>1
    <3>4. Cardinality(below(i)) \in Nat /\ Cardinality(below(k)) \in Nat
      BY <2>1
    <3> HIDE DEF below
    <3> QED BY <3>3, <3>4
  <2> QED BY <1>2, <2>1, <2>2, <2>3, <2>4 DEF Upto
<1> QED BY <1>2, <1>4, <1>5, <1>6, <1>7

\* The lines of a kind, when a line more has been read.
LEMMA KindGrows ==
  ASSUME NEW h \in Nat \ {0}, NEW S \in SUBSET (1..h - 1), NEW T \in SUBSET (1..h),
         \A i \in 1..h - 1 : i \in T <=> i \in S
  PROVE  /\ T = IF h \in T THEN S \cup {h} ELSE S
         /\ Cardinality(S) \in Nat
         /\ Cardinality(T) = IF h \in T THEN Cardinality(S) + 1 ELSE Cardinality(S)
         /\ \A i \in 1..h - 1 : Upto(i, T) = Upto(i, S)
         /\ h \in T => Upto(h, T) = Cardinality(S) + 1
         /\ \A i \in S : Upto(i, S) \in 1..Cardinality(S)
<1>1. T = IF h \in T THEN S \cup {h} ELSE S
  <2>1. \A n \in 1..h : n \in 1..h - 1 \/ n = h
    OBVIOUS
  <2>2. h \notin S /\ h \in 1..h
    OBVIOUS
  <2>3. ASSUME NEW n PROVE n \in T <=> n \in IF h \in T THEN S \cup {h} ELSE S
    BY <2>1, <2>2
  <2> QED BY <2>3
<1>2. /\ Cardinality(S) \in Nat
      /\ Cardinality(S \cup {h}) = Cardinality(S) + 1
      /\ \A i \in 1..h - 1 : Upto(i, S \cup {h}) = Upto(i, S)
      /\ Upto(h, S \cup {h}) = Cardinality(S) + 1
      /\ \A i \in S : Upto(i, S) \in 1..Cardinality(S)
  BY Counting
<1>3. CASE h \in T
  <2>1. T = S \cup {h}
    BY <1>1, <1>3
  <2> QED BY <1>1, <1>2, <1>3, <2>1, Zenon
<1>4. CASE h \notin T
  <2>1. T = S
    BY <1>1, <1>4
  <2> QED BY <1>1, <1>2, <1>4, <2>1, Zenon
<1> QED BY <1>3, <1>4

-----------------------------------------------------------------------------
(***************************************************************************)
(* The claims.                                                             *)
(***************************************************************************)
Written(c) == [id |-> c.id, required |-> c.required, critical |-> c.critical]

ClaimsOK ==
  /\ Len(claims) = Cardinality(Declaring)
  /\ forbids = Cardinality(Forbidding)
  /\ \A i \in Declaring : Written(claims[Upto(i, Declaring)]) = Declared(i)

\* A line that declares a claim adds it, any other leaves what is written of them.
LEMMA ClaimsChange ==
  ASSUME NEW l \in Lines, NEW h, Grown(l, h), ParserOK, GoalOK, ForbidOK, ConditionOK, Accepted(l)
  PROVE  \/ /\ ~Declares(h)' /\ forbids' = forbids /\ Len(claims') = Len(claims)
            /\ \A k \in 1..Len(claims) : Written(claims'[k]) = Written(claims[k])
         \/ /\ Declares(h)' /\ ~Forbids(h)' /\ forbids' = forbids
            /\ \E c : /\ claims' = Append(claims, c)
                      /\ Written(c) = [id |-> l.id,
                                       required |-> l.dir = "INVARIANT" \/ "OPTIONAL" \notin l.modifiers,
                                       critical |-> "CRITICAL" \in l.modifiers]
         \/ /\ Declares(h)' /\ Forbids(h)' /\ forbids' = forbids + 1
            /\ \E c : /\ claims' = Append(claims, c)
                      /\ Written(c) = [id |-> ForbidId(forbids + 1), required |-> TRUE, critical |-> TRUE]
<1>1. /\ Forbids(h)' <=> Forbidden(l) \/ (Rule(l, "FORBID") /\ l.text # "")
      /\ Declares(h)' <=> Rule(l, "CLAIM") \/ Rule(l, "INVARIANT") \/ Forbids(h)'
  BY SaysLast
<1>2. CASE \/ Using(l) \/ BlankOrComment(l) \/ Header(l) \/ Goal(l) \/ Verify(l) \/ AcceptWhen(l) \/ Require(l)
           \/ (Forbid(l) /\ l.text = "")
  <2>1. UNCHANGED <<claims, forbids>>
    BY <1>2 DEF Using, BlankOrComment, Header, Goal, Verify, AcceptWhen, Require, Forbid
  <2>2. ~Rule(l, "CLAIM") /\ ~Rule(l, "INVARIANT") /\ ~Forbidden(l) /\ ~(Rule(l, "FORBID") /\ l.text # "")
    <3>1. CASE Using(l) \/ BlankOrComment(l) \/ Header(l) \/ Goal(l)
      BY <3>1 DEF Using, BlankOrComment, Gap, Header, Goal, Rule, Forbidden, EarlyRules, FirstRules
    <3>2. CASE Verify(l) \/ Require(l)
      BY <3>2 DEF Verify, Require, Rule
    <3>3. CASE AcceptWhen(l)
      BY <3>3 DEF AcceptWhen, Rule, Forbidden, ConditionOK
    <3>4. CASE Forbid(l) /\ l.text = ""
      BY <3>4 DEF Forbid, Rule
    <3> QED BY <1>2, <3>1, <3>2, <3>3, <3>4
  <2> QED BY <1>1, <2>1, <2>2
<1>3. CASE Ensure(l)
  <2>1. forbids' = forbids /\ ~Declares(h)'
    BY <1>1, <1>3 DEF Ensure, Rule
  <2>2. claims' = [claims EXCEPT ![Len(claims)].ensure = Here]
    BY <1>3 DEF Ensure
  <2>3. claims \in Seq(ClaimRecord)
    BY DEF ParserOK
  <2>4. Len(claims') = Len(claims)
    BY <2>2, <2>3
  <2>5. ASSUME NEW k \in 1..Len(claims) PROVE Written(claims'[k]) = Written(claims[k])
    <3>1. claims'[k] = IF k = Len(claims) THEN [claims[k] EXCEPT !.ensure = Here] ELSE claims[k]
      BY <2>2, <2>3
    <3>2. claims[k] \in ClaimRecord
      BY <2>3
    <3> QED BY <3>1, <3>2 DEF ClaimRecord, Written
  <2> QED BY <2>1, <2>4, <2>5
<1>4. CASE Claim(l) \/ Invariant(l)
  <2>1. forbids' = forbids /\ Declares(h)' /\ ~Forbids(h)'
    BY <1>1, <1>4 DEF Claim, Invariant, Rule
  <2>2. CASE Claim(l)
    <3>1. "CRITICAL" \notin l.modifiers /\ l.dir = "CLAIM"
      BY <2>2 DEF Claim, Rule, Accepted, LineRefused, ClaimRefused
    <3> DEFINE c == [id |-> l.id, kind |-> "claim", required |-> "OPTIONAL" \notin l.modifiers,
                     critical |-> FALSE, ensure |-> 0, line |-> Here]
    <3>2. claims' = Append(claims, c)
      BY <2>2 DEF Claim, Claimed
    <3>3. Written(c) = [id |-> l.id, required |-> l.dir = "INVARIANT" \/ "OPTIONAL" \notin l.modifiers,
                        critical |-> "CRITICAL" \in l.modifiers]
      <4>1. ("CRITICAL" \in l.modifiers) = FALSE
        BY <3>1
      <4>2. (l.dir = "INVARIANT" \/ "OPTIONAL" \notin l.modifiers) = ("OPTIONAL" \notin l.modifiers)
        BY <3>1
      <4>3. /\ c.id = l.id /\ c.required = ("OPTIONAL" \notin l.modifiers) /\ c.critical = FALSE
        OBVIOUS
      <4> HIDE DEF c
      <4> QED BY <4>1, <4>2, <4>3, Zenon DEF Written
    <3> QED BY <2>1, <3>2, <3>3
  <2>3. CASE Invariant(l)
    <3>1. l.dir = "INVARIANT"
      BY <2>3 DEF Invariant, Rule
    <3> DEFINE c == [id |-> l.id, kind |-> "invariant", required |-> TRUE,
                     critical |-> "CRITICAL" \in l.modifiers, ensure |-> 0, line |-> Here]
    <3>2. claims' = Append(claims, c)
      BY <2>3 DEF Invariant, Claimed
    <3>3. Written(c) = [id |-> l.id, required |-> l.dir = "INVARIANT" \/ "OPTIONAL" \notin l.modifiers,
                        critical |-> "CRITICAL" \in l.modifiers]
      BY <3>1 DEF Written
    <3> QED BY <2>1, <3>2, <3>3
  <2> QED BY <1>4, <2>2, <2>3
<1>5. CASE (Forbid(l) /\ l.text # "") \/ ForbidText(l)
  <2>1. forbids' = forbids + 1 /\ Forbids(h)' /\ Declares(h)'
    BY <1>1, <1>5 DEF Forbid, ForbidText
  <2>2. PICK line : Claimed(ForbidId(forbids + 1), "invariant", TRUE, TRUE, Here, line)
    BY <1>5 DEF Forbid, ForbidText
  <2> DEFINE c == [id |-> ForbidId(forbids + 1), kind |-> "invariant", required |-> TRUE,
                   critical |-> TRUE, ensure |-> Here, line |-> line]
  <2>3. claims' = Append(claims, c)
    BY <2>2 DEF Claimed
  <2>4. Written(c) = [id |-> ForbidId(forbids + 1), required |-> TRUE, critical |-> TRUE]
    BY DEF Written
  <2> QED BY <2>1, <2>3, <2>4
<1> QED BY <1>2, <1>3, <1>4, <1>5 DEF Accepted

\* Lines of a kind are lines of the source.
LEMMA KindsOfLines ==
  ASSUME NEW l \in Lines, NEW h, Grown(l, h), GoalOK, ForbidOK
  PROVE  /\ Forbidding \in SUBSET (1..h - 1) /\ Forbidding' \subseteq 1..h
         /\ \A i \in 1..h - 1 : i \in Forbidding' <=> i \in Forbidding
         /\ h \in Forbidding' <=> Forbids(h)'
         /\ Declaring \in SUBSET (1..h - 1) /\ Declaring' \subseteq 1..h
         /\ \A i \in 1..h - 1 : i \in Declaring' <=> i \in Declaring
         /\ h \in Declaring' <=> Declares(h)'
         /\ Completing \in SUBSET (1..h - 1) /\ Completing' \subseteq 1..h
         /\ \A i \in 1..h - 1 : i \in Completing' <=> i \in Completing
         /\ h \in Completing' <=> Completes(h)'
<1>1. h \in Nat \ {0} /\ DOMAIN source = 1..h - 1 /\ DOMAIN source' = 1..h
  BY GrownByOne
<1>2. h \in 1..h /\ \A i \in 1..h - 1 : i \in 1..h
  BY <1>1
<1>3. \A i \in 1..h - 1 : /\ Forbids(i)' <=> Forbids(i)
                          /\ Declares(i)' <=> Declares(i)
                          /\ Completes(i)' <=> Completes(i)
  BY SaysStays
<1>4. /\ Forbidding = {i \in 1..h - 1 : Forbids(i)} /\ Forbidding' = {i \in 1..h : Forbids(i)'}
      /\ Declaring = {i \in 1..h - 1 : Declares(i)} /\ Declaring' = {i \in 1..h : Declares(i)'}
      /\ Completing = {i \in 1..h - 1 : Completes(i)} /\ Completing' = {i \in 1..h : Completes(i)'}
  BY <1>1 DEF Forbidding, Declaring, Completing
<1> QED BY <1>2, <1>3, <1>4

\* The counts, when a line more has been read.
LEMMA CountsGrow ==
  ASSUME NEW l \in Lines, NEW h, Grown(l, h), GoalOK, ForbidOK
  PROVE  /\ Cardinality(Forbidding)' = IF Forbids(h)' THEN Cardinality(Forbidding) + 1
                                                      ELSE Cardinality(Forbidding)
         /\ \A i \in 1..h - 1 : Upto(i, Forbidding') = Upto(i, Forbidding)
         /\ Forbids(h)' => Upto(h, Forbidding') = Cardinality(Forbidding) + 1
         /\ Cardinality(Declaring)' = IF Declares(h)' THEN Cardinality(Declaring) + 1
                                                      ELSE Cardinality(Declaring)
         /\ \A i \in 1..h - 1 : Upto(i, Declaring') = Upto(i, Declaring)
         /\ Declares(h)' => Upto(h, Declaring') = Cardinality(Declaring) + 1
         /\ \A i \in Declaring : Upto(i, Declaring) \in 1..Cardinality(Declaring)
         /\ Cardinality(Completing)' = IF Completes(h)' THEN Cardinality(Completing) + 1
                                                        ELSE Cardinality(Completing)
         /\ \A i \in 1..h - 1 : Upto(i, Completing') = Upto(i, Completing)
         /\ Completes(h)' => Upto(h, Completing') = Cardinality(Completing) + 1
         /\ \A i \in Completing : Upto(i, Completing) \in 1..Cardinality(Completing)
<1>1. h \in Nat \ {0}
  BY GrownByOne
<1>2. ASSUME NEW S \in SUBSET (1..h - 1), NEW T \in SUBSET (1..h),
             \A i \in 1..h - 1 : i \in T <=> i \in S
      PROVE  /\ Cardinality(T) = IF h \in T THEN Cardinality(S) + 1 ELSE Cardinality(S)
             /\ \A i \in 1..h - 1 : Upto(i, T) = Upto(i, S)
             /\ h \in T => Upto(h, T) = Cardinality(S) + 1
             /\ \A i \in S : Upto(i, S) \in 1..Cardinality(S)
  <2>1. Cardinality(T) = IF h \in T THEN Cardinality(S) + 1 ELSE Cardinality(S)
    BY <1>1, <1>2, KindGrows
  <2>2. \A i \in 1..h - 1 : Upto(i, T) = Upto(i, S)
    BY <1>1, <1>2, KindGrows
  <2>3. h \in T => Upto(h, T) = Cardinality(S) + 1
    BY <1>1, <1>2, KindGrows
  <2>4. \A i \in S : Upto(i, S) \in 1..Cardinality(S)
    BY <1>1, KindGrows
  <2> QED BY <2>1, <2>2, <2>3, <2>4
<1>3. /\ Forbidding \in SUBSET (1..h - 1) /\ Forbidding' \in SUBSET (1..h)
      /\ \A i \in 1..h - 1 : i \in Forbidding' <=> i \in Forbidding
      /\ h \in Forbidding' <=> Forbids(h)'
  BY KindsOfLines
<1>4. /\ Declaring \in SUBSET (1..h - 1) /\ Declaring' \in SUBSET (1..h)
      /\ \A i \in 1..h - 1 : i \in Declaring' <=> i \in Declaring
      /\ h \in Declaring' <=> Declares(h)'
  BY KindsOfLines
<1>5. /\ Completing \in SUBSET (1..h - 1) /\ Completing' \in SUBSET (1..h)
      /\ \A i \in 1..h - 1 : i \in Completing' <=> i \in Completing
      /\ h \in Completing' <=> Completes(h)'
  BY KindsOfLines
<1>6. /\ Cardinality(Forbidding)' = IF Forbids(h)' THEN Cardinality(Forbidding) + 1
                                                   ELSE Cardinality(Forbidding)
      /\ \A i \in 1..h - 1 : Upto(i, Forbidding') = Upto(i, Forbidding)
      /\ Forbids(h)' => Upto(h, Forbidding') = Cardinality(Forbidding) + 1
  BY <1>2, <1>3
<1>7. /\ Cardinality(Declaring)' = IF Declares(h)' THEN Cardinality(Declaring) + 1
                                                   ELSE Cardinality(Declaring)
      /\ \A i \in 1..h - 1 : Upto(i, Declaring') = Upto(i, Declaring)
      /\ Declares(h)' => Upto(h, Declaring') = Cardinality(Declaring) + 1
      /\ \A i \in Declaring : Upto(i, Declaring) \in 1..Cardinality(Declaring)
  BY <1>2, <1>4
<1>8. /\ Cardinality(Completing)' = IF Completes(h)' THEN Cardinality(Completing) + 1
                                                     ELSE Cardinality(Completing)
      /\ \A i \in 1..h - 1 : Upto(i, Completing') = Upto(i, Completing)
      /\ Completes(h)' => Upto(h, Completing') = Cardinality(Completing) + 1
      /\ \A i \in Completing : Upto(i, Completing) \in 1..Cardinality(Completing)
  BY <1>2, <1>5
<1> QED BY <1>6, <1>7, <1>8

LEMMA DeclaredStays ==
  ASSUME NEW l \in Lines, NEW h, Grown(l, h), GoalOK, ForbidOK, NEW i \in 1..h - 1
  PROVE  Declared(i)' = Declared(i)
<1>1. source'[i] = source[i]
  BY GrownByOne
<1>2. Forbids(i)' <=> Forbids(i)
  BY SaysStays
<1>3. Upto(i, Forbidding') = Upto(i, Forbidding)
  BY CountsGrow
<1>4. CASE Forbids(i)
  BY <1>2, <1>3, <1>4 DEF Declared
<1>5. CASE ~Forbids(i)
  <2>1. source[i]' = source[i] /\ ~Forbids(i)'
    BY <1>1, <1>2, <1>5
  <2> QED BY <1>5, <2>1 DEF Declared
<1> QED BY <1>4, <1>5

\* The claims of the contract are those its lines declare.
LEMMA ClaimsStay ==
  ASSUME NEW l \in Lines, NEW h, Grown(l, h), ParserOK, GoalOK, ForbidOK, ConditionOK, ClaimsOK,
         Accepted(l)
  PROVE  ClaimsOK'
<1> DEFINE n == Cardinality(Declaring)
           c(i) == claims[Upto(i, Declaring)]
<1>1. /\ h \in Nat \ {0} /\ source'[h] = l /\ DOMAIN source' = 1..h /\ DOMAIN source = 1..h - 1
      /\ claims \in Seq(ClaimRecord) /\ n = Len(claims) /\ n \in Nat
  BY GrownByOne DEF ParserOK, ClaimsOK
<1>2. ASSUME NEW i \in Declaring
      PROVE  /\ i \in 1..h - 1 /\ Upto(i, Declaring) \in 1..n /\ Upto(i, Declaring') = Upto(i, Declaring)
             /\ Declared(i)' = Declared(i) /\ Written(c(i)) = Declared(i)
  <2>1. i \in 1..h - 1
    BY <1>1 DEF Declaring
  <2> QED BY <2>1, CountsGrow, DeclaredStays DEF ClaimsOK
<1>3. \A i : i \in Declaring' <=> i \in Declaring \/ (i = h /\ Declares(h)')
  <2>1. Declaring' \subseteq 1..h /\ \A i \in 1..h - 1 : i \in Declaring' <=> i \in Declaring
    BY KindsOfLines
  <2>2. Declaring \subseteq 1..h - 1 /\ (h \in Declaring' <=> Declares(h)')
    BY KindsOfLines
  <2>3. \A i \in 1..h : i \in 1..h - 1 \/ i = h
    BY <1>1
  <2> QED BY <2>1, <2>2, <2>3
<1>4. CASE /\ ~Declares(h)' /\ forbids' = forbids /\ Len(claims') = Len(claims)
           /\ \A k \in 1..Len(claims) : Written(claims'[k]) = Written(claims[k])
  <2>1. ~Forbids(h)'
    BY <1>4, SaysLast
  <2>2. Cardinality(Declaring)' = n /\ Cardinality(Forbidding)' = Cardinality(Forbidding)
    BY <1>4, <2>1, CountsGrow
  <2>3. ASSUME NEW i \in Declaring' PROVE Written(claims'[Upto(i, Declaring')]) = Declared(i)'
    <3>1. i \in Declaring
      BY <1>3, <1>4
    <3>2. Written(claims'[Upto(i, Declaring)]) = Written(c(i))
      BY <1>1, <1>2, <1>4, <3>1
    <3> QED BY <1>2, <3>1, <3>2
  <2> QED BY <1>1, <1>4, <2>2, <2>3 DEF ClaimsOK, Written
<1>5. ASSUME NEW d, claims' = Append(claims, d), Declares(h)', Written(d) = Declared(h)'
      PROVE  /\ Len(claims') = Cardinality(Declaring)'
             /\ \A i \in Declaring' : Written(claims'[Upto(i, Declaring')]) = Declared(i)'
  <2>1. Len(claims') = n + 1 /\ claims'[n + 1] = d /\ \A k \in 1..n : claims'[k] = claims[k]
    BY <1>1, <1>5
  <2>2. Cardinality(Declaring)' = n + 1 /\ Upto(h, Declaring') = n + 1
    BY <1>5, CountsGrow
  <2>3. ASSUME NEW i \in Declaring' PROVE Written(claims'[Upto(i, Declaring')]) = Declared(i)'
    <3>1. CASE i = h
      BY <1>5, <2>1, <2>2, <3>1
    <3>2. CASE i \in Declaring
      <4>1. claims'[Upto(i, Declaring')] = c(i)
        BY <1>2, <2>1, <3>2
      <4> QED BY <1>2, <3>2, <4>1
    <3> QED BY <1>3, <3>1, <3>2
  <2> QED BY <2>1, <2>2, <2>3
<1>6. CASE /\ Declares(h)' /\ ~Forbids(h)' /\ forbids' = forbids
           /\ \E d : /\ claims' = Append(claims, d)
                     /\ Written(d) = [id |-> l.id,
                                      required |-> l.dir = "INVARIANT" \/ "OPTIONAL" \notin l.modifiers,
                                      critical |-> "CRITICAL" \in l.modifiers]
  <2>1. Declared(h)' = [id |-> l.id, required |-> l.dir = "INVARIANT" \/ "OPTIONAL" \notin l.modifiers,
                        critical |-> "CRITICAL" \in l.modifiers]
    BY <1>1, <1>6 DEF Declared
  <2>2. Cardinality(Forbidding)' = Cardinality(Forbidding)
    BY <1>6, CountsGrow
  <2>3. PICK d : claims' = Append(claims, d) /\ Written(d) = Declared(h)'
    BY <1>6, <2>1
  <2> QED BY <1>5, <1>6, <2>2, <2>3 DEF ClaimsOK, Written
<1>7. CASE /\ Declares(h)' /\ Forbids(h)' /\ forbids' = forbids + 1
           /\ \E d : /\ claims' = Append(claims, d)
                     /\ Written(d) = [id |-> ForbidId(forbids + 1), required |-> TRUE, critical |-> TRUE]
  <2>1. Cardinality(Forbidding)' = forbids + 1 /\ Upto(h, Forbidding') = forbids + 1
    BY <1>7, CountsGrow DEF ClaimsOK
  <2>2. Declared(h)' = [id |-> ForbidId(forbids + 1), required |-> TRUE, critical |-> TRUE]
    BY <1>7, <2>1 DEF Declared
  <2>3. PICK d : claims' = Append(claims, d) /\ Written(d) = Declared(h)'
    BY <1>7, <2>2
  <2> QED BY <1>5, <1>7, <2>1, <2>3 DEF ClaimsOK, Written
<1> QED BY <1>4, <1>6, <1>7, ClaimsChange

-----------------------------------------------------------------------------
(***************************************************************************)
(* The verifications.                                                      *)
(***************************************************************************)
\* pending_verify is the last VERIFY that waits.
PendingOK ==
  pendingVerify # NoVerify =>
    /\ pendingVerify.line \in DOMAIN source /\ Waits(pendingVerify.line)
    /\ pendingVerify.claim = source[pendingVerify.line].id
    /\ Clear(pendingVerify.line, Here, Waits)

\* last_using_line is the last line that completes a verification.
LastOK ==
  /\ lastUsing \in Completing \cup {0}
  /\ \A i \in Completing : i <= lastUsing

VerificationsOK ==
  /\ Len(verifications) = Cardinality(Completing)
  /\ \A i \in Completing :
       /\ VerifyOf(i) \in 1..i
       /\ CompiledVerification(verifications[Upto(i, Completing)]) = Obligation(i)

LEMMA PendingStays ==
  ASSUME NEW l \in Lines, NEW h, Grown(l, h), GoalOK, ForbidOK, PendingOK, Accepted(l)
  PROVE  PendingOK'
<1>1. h \in Nat \ {0} /\ h = Here /\ Here' = h + 1 /\ DOMAIN source = 1..h - 1 /\ DOMAIN source' = 1..h
      /\ source'[h] = l /\ \A n \in 1..h - 1 : source'[n] = source[n]
  BY GrownByOne DEF Grown
<1>2. Waits(h)' <=> Rule(l, "VERIFY") /\ l.ref = NoHash
  BY SaysLast
<1>3. CASE Using(l)
  BY <1>3 DEF Using, PendingOK
<1>4. CASE Verify(l) /\ l.ref = NoHash
  <2>1. pendingVerify' = [claim |-> l.id, line |-> h] /\ Waits(h)'
    BY <1>1, <1>2, <1>4 DEF Verify
  <2>2. Clear(h, h + 1, Waits)'
    BY <1>1 DEF Clear
  <2> QED BY <1>1, <2>1, <2>2 DEF PendingOK
<1>5. CASE ~Using(l) /\ ~(Verify(l) /\ l.ref = NoHash)
  <2>1. pendingVerify' = pendingVerify
    BY <1>5 DEF Accepted, BlankOrComment, Header, Goal, Claim, Invariant, Ensure, Forbid,
                ForbidText, Verify, AcceptWhen, Require
  <2>2. ~Waits(h)'
    BY <1>2, <1>5 DEF Accepted, BlankOrComment, Gap, Header, Goal, Claim, Invariant, Ensure,
                      Forbid, ForbidText, Verify, AcceptWhen, Require, Rule
  <2>3. ASSUME NEW v \in 1..h - 1, Waits(v), Clear(v, h, Waits)
        PROVE  Waits(v)' /\ Clear(v, h + 1, Waits)'
    <3>1. \A n \in 1..h - 1 : Waits(n)' <=> Waits(n)
      BY SaysStays
    <3>2. v + 1..(h + 1) - 1 = (v + 1..h - 1) \cup {h} /\ \A n \in v + 1..h - 1 : n \in 1..h - 1
      BY <1>1
    <3> QED BY <2>2, <2>3, <3>1, <3>2 DEF Clear
  <2>4. \A v \in 1..h - 1 : v \in 1..h
    BY <1>1
  <2> QED BY <1>1, <2>1, <2>3, <2>4 DEF PendingOK
<1> QED BY <1>3, <1>4, <1>5

\* What a line adds to the obligations of the lines before it.
LEMMA ObligationsChange ==
  ASSUME NEW l \in Lines, NEW h, Grown(l, h), GoalOK, ForbidOK, NEW i \in 1..h - 1
  PROVE  /\ VerifyOf(i)' = VerifyOf(i)
         /\ Requiring(i)' = Requiring(i) \cup
              {r \in {h} : Rule(l, "REQUIRE") /\ Clear(i, h, Substance)}
         /\ Requiring(i)' = Requiring(i) /\ VerifyOf(i) \in 1..i => Obligation(i)' = Obligation(i)
<1>1. h \in Nat \ {0} /\ Len(source) = h - 1 /\ Len(source') = h
      /\ source'[h] = l /\ \A n \in 1..h - 1 : source'[n] = source[n]
  BY GrownByOne
<1>2. \A n \in 1..h - 1 : /\ Waits(n)' <=> Waits(n)
                          /\ Inline(n)' <=> Inline(n)
                          /\ Substance(n)' <=> Substance(n)
                          /\ \A dir : Says(n, dir)' <=> Says(n, dir)
  BY SaysStays
<1>3. Waiting(i)' = Waiting(i)
  <2>1. \A n \in 1..i - 1 : n \in 1..h - 1
    BY <1>1
  <2>2. \A v \in 1..i - 1 : Clear(v, i, Waits)' <=> Clear(v, i, Waits)
    BY <1>1, <1>2 DEF Clear
  <2> QED BY <1>2, <2>1, <2>2 DEF Waiting
<1>4. VerifyOf(i)' = VerifyOf(i)
  BY <1>2, <1>3 DEF VerifyOf
<1>5. ASSUME NEW r \in i + 1..h PROVE Clear(i, r, Substance)' <=> Clear(i, r, Substance)
  <2>1. \A n \in i + 1..r - 1 : n \in 1..h - 1
    BY <1>1
  <2> QED BY <1>2, <2>1 DEF Clear
<1>6. Requiring(i)' = Requiring(i) \cup {r \in {h} : Rule(l, "REQUIRE") /\ Clear(i, h, Substance)}
  <2>1. Says(h, "REQUIRE")' <=> Rule(l, "REQUIRE")
    BY SaysLast
  <2>2. i + 1..h = (i + 1..h - 1) \cup {h} /\ \A r \in i + 1..h - 1 : r \in 1..h - 1
    BY <1>1
  <2>3. Requiring(i)' = {r \in i + 1..h : Says(r, "REQUIRE")' /\ Clear(i, r, Substance)'}
    BY <1>1 DEF Requiring
  <2>4. Requiring(i) = {r \in i + 1..h - 1 : Says(r, "REQUIRE") /\ Clear(i, r, Substance)}
    BY <1>1 DEF Requiring
  <2> QED BY <1>2, <1>5, <2>1, <2>2, <2>3, <2>4
<1>7. ASSUME Requiring(i)' = Requiring(i), VerifyOf(i) \in 1..i
      PROVE  Obligation(i)' = Obligation(i)
  <2>1. source'[i] = source[i]
    BY <1>1
  <2>2. source'[VerifyOf(i)'] = source[VerifyOf(i)]
    BY <1>1, <1>4, <1>7
  <2>3. RequirementOf(i)' = RequirementOf(i)
    <3>1. CASE Requiring(i) = {}
      BY <1>7, <3>1 DEF RequirementOf
    <3>2. CASE Requiring(i) # {}
      <4>1. (CHOOSE r \in Requiring(i) : TRUE) \in Requiring(i)
        BY <3>2
      <4>2. (CHOOSE r \in Requiring(i) : TRUE) \in 1..h - 1
        BY <1>1, <4>1 DEF Requiring
      <4> QED BY <1>1, <1>7, <3>2, <4>2 DEF RequirementOf
    <3> QED BY <3>1, <3>2
  <2> QED BY <2>1, <2>2, <2>3 DEF Obligation
<1> QED BY <1>4, <1>6, <1>7

\* The obligation of a line that completes a verification, when it is the last one.
LEMMA LastObligation ==
  ASSUME NEW l \in Lines, NEW h, Grown(l, h), GoalOK, ForbidOK, PendingOK, NEW claim,
         \/ Rule(l, "VERIFY") /\ l.ref # NoHash /\ claim = l.id
         \/ l.dir = "USING" /\ pendingVerify # NoVerify /\ claim = pendingVerify.claim
  PROVE  /\ VerifyOf(h)' \in 1..h
         /\ Obligation(h)' = [claim |-> claim, verifier_ref |-> l.ref, inline_shell |-> l.inline,
                              requirement |-> NoHash]
<1>1. h \in Nat \ {0} /\ h = Here /\ Len(source') = h /\ DOMAIN source = 1..h - 1
      /\ source'[h] = l /\ \A n \in 1..h - 1 : source'[n] = source[n]
  BY GrownByOne DEF Grown
<1>2. RequirementOf(h)' = NoHash
  <2>1. Requiring(h)' = {}
    BY <1>1 DEF Requiring
  <2> QED BY <2>1 DEF RequirementOf
<1>3. Inline(h)' <=> Rule(l, "VERIFY") /\ l.ref # NoHash
  BY SaysLast
<1>4. VerifyOf(h)' \in 1..h /\ source'[VerifyOf(h)'].id = claim
  <2>1. CASE Rule(l, "VERIFY") /\ l.ref # NoHash /\ claim = l.id
    <3>1. VerifyOf(h)' = h
      BY <1>3, <2>1 DEF VerifyOf
    <3> QED BY <1>1, <2>1, <3>1
  <2>2. CASE l.dir = "USING" /\ pendingVerify # NoVerify /\ claim = pendingVerify.claim
    <3> DEFINE p == pendingVerify.line
    <3>1. p \in 1..h - 1 /\ Waits(p) /\ claim = source[p].id /\ Clear(p, h, Waits)
      BY <1>1, <2>2 DEF PendingOK
    <3>2. \A n \in 1..h - 1 : Waits(n)' <=> Waits(n)
      BY SaysStays
    <3>3. ASSUME NEW v \in 1..h - 1 PROVE Clear(v, h, Waits)' <=> Clear(v, h, Waits)
      BY <1>1, <3>2 DEF Clear
    <3>4. ASSUME NEW v \in 1..h - 1, Waits(v), Clear(v, h, Waits) PROVE v = p
      BY <1>1, <3>1, <3>4 DEF Clear
    <3>5. Waiting(h)' = {p}
      BY <3>1, <3>2, <3>3, <3>4 DEF Waiting
    <3>6. ~Inline(h)'
      BY <1>3, <2>2 DEF Rule
    <3>7. VerifyOf(h)' = p
      <4>1. (CHOOSE v \in {p} : TRUE) = p
        OBVIOUS
      <4> QED BY <3>5, <3>6, <4>1 DEF VerifyOf
    <3> QED BY <1>1, <3>1, <3>7
  <2> QED BY <2>1, <2>2
<1> QED BY <1>1, <1>2, <1>4 DEF Obligation

\* USING and VERIFY add a verification, REQUIRE changes the last one.
LEMMA VerificationsChange ==
  ASSUME NEW l \in Lines, NEW h, Grown(l, h), GoalOK, ForbidOK, ConditionOK, PendingOK, Accepted(l)
  PROVE  \/ /\ Completes(h)' /\ ~Rule(l, "REQUIRE") /\ lastUsing' = h /\ VerifyOf(h)' \in 1..h
            /\ \E v : verifications' = Append(verifications, v) /\ CompiledVerification(v) = Obligation(h)'
         \/ ~Completes(h)' /\ ~Rule(l, "REQUIRE") /\ UNCHANGED <<verifications, lastUsing>>
         \/ ~Completes(h)' /\ Require(l)
<1>1. h = Here
  BY DEF Grown
<1>2. /\ Inline(h)' <=> Rule(l, "VERIFY") /\ l.ref # NoHash
      /\ Completes(h)' <=> l.dir = "USING" \/ Inline(h)'
  BY SaysLast
<1>3. ASSUME NEW claim, NEW line, Verified(claim, l, line),
             \/ Rule(l, "VERIFY") /\ l.ref # NoHash /\ claim = l.id
             \/ l.dir = "USING" /\ pendingVerify # NoVerify /\ claim = pendingVerify.claim
      PROVE  /\ lastUsing' = h /\ VerifyOf(h)' \in 1..h
             /\ \E v : verifications' = Append(verifications, v) /\ CompiledVerification(v) = Obligation(h)'
  <2> DEFINE v == [claim |-> claim, verifier_ref |-> l.ref, inline_shell |-> l.inline,
                   requirement |-> NoHash, line |-> line]
  <2>1. verifications' = Append(verifications, v) /\ lastUsing' = h
    BY <1>1, <1>3 DEF Verified
  <2>2. /\ VerifyOf(h)' \in 1..h
        /\ Obligation(h)' = [claim |-> claim, verifier_ref |-> l.ref, inline_shell |-> l.inline,
                             requirement |-> NoHash]
    BY <1>3, LastObligation
  <2>3. CompiledVerification(v) = Obligation(h)'
    BY <2>2 DEF CompiledVerification
  <2> QED BY <2>1, <2>2, <2>3
<1>4. CASE Using(l)
  <2>1. l.dir = "USING" /\ pendingVerify # NoVerify /\ Verified(pendingVerify.claim, l, pendingVerify.line)
    BY <1>4 DEF Using, Accepted, LineRefused
  <2> QED BY <1>2, <1>3, <2>1 DEF Rule
<1>5. CASE Verify(l) /\ l.ref # NoHash
  <2>1. Rule(l, "VERIFY") /\ Verified(l.id, l, Here)
    BY <1>5 DEF Verify
  <2> QED BY <1>2, <1>3, <1>5, <2>1 DEF Rule
<1>6. CASE Require(l)
  BY <1>2, <1>6 DEF Require, Rule
<1>7. CASE \/ BlankOrComment(l) \/ Header(l) \/ Goal(l) \/ Claim(l) \/ Invariant(l) \/ Ensure(l)
           \/ Forbid(l) \/ ForbidText(l) \/ AcceptWhen(l) \/ (Verify(l) /\ l.ref = NoHash)
  <2>1. UNCHANGED <<verifications, lastUsing>>
    BY <1>7 DEF BlankOrComment, Header, Goal, Claim, Invariant, Ensure, Forbid, ForbidText,
                AcceptWhen, Verify
  <2>2. l.dir # "USING" /\ ~Inline(h)' /\ ~Rule(l, "REQUIRE")
    BY <1>2, <1>7 DEF BlankOrComment, Gap, Header, Goal, Claim, Invariant, Ensure, Forbid, ForbidText,
                      AcceptWhen, Verify, Rule, Forbidden, Prose, FirstRules, EarlyRules
  <2> QED BY <1>2, <2>1, <2>2
<1> QED BY <1>4, <1>5, <1>6, <1>7 DEF Accepted

LEMMA LastStays ==
  ASSUME NEW l \in Lines, NEW h, Grown(l, h), GoalOK, ForbidOK, ConditionOK, PendingOK, LastOK, Accepted(l)
  PROVE  LastOK'
<1>1. h \in Nat \ {0}
  BY GrownByOne
<1>2. Completing \in SUBSET (1..h - 1) /\ Completing' \subseteq 1..h
      /\ (\A i \in 1..h - 1 : i \in Completing' <=> i \in Completing)
      /\ (h \in Completing' <=> Completes(h)')
  BY KindsOfLines
<1>3. CASE Completes(h)' /\ lastUsing' = h
  <2>1. \A i \in Completing' : i <= h
    BY <1>1, <1>2
  <2> QED BY <1>2, <1>3, <2>1 DEF LastOK
<1>4. CASE ~Completes(h)' /\ lastUsing' = lastUsing
  <2>1. Completing' = Completing
    <3>1. \A i \in 1..h : i \in 1..h - 1 \/ i = h
      BY <1>1
    <3> QED BY <1>2, <1>4, <3>1
  <2> QED BY <1>4, <2>1 DEF LastOK
<1> QED BY <1>3, <1>4, VerificationsChange DEF Require

\* A requirement goes to the line that completed the last verification.
LEMMA RequirementChange ==
  ASSUME NEW l \in Lines, NEW h, Grown(l, h), GoalOK, ForbidOK, LastOK, Accepted(l), Rule(l, "REQUIRE"),
         NEW u, u = lastUsing
  PROVE  /\ u \in Completing
         /\ Clear(u, h, Substance)
         /\ RequirementOf(u)' = l.text
         /\ \A i \in Completing : i # u => Requiring(i)' = Requiring(i)
<1>1. h \in Nat \ {0} /\ Len(source) = h - 1 /\ DOMAIN source = 1..h - 1 /\ source'[h] = l
  BY GrownByOne
<1>2. u # 0 /\ \A n \in u + 1..h - 1 : Gap(source[n])
  BY <1>1 DEF Accepted, LineRefused, RequireRefused
<1>3. u \in Completing /\ u \in 1..h - 1 /\ \A i \in Completing : i <= u
  BY <1>1, <1>2 DEF LastOK, Completing
<1>4. Clear(u, h, Substance)
  BY <1>2 DEF Clear, Substance
<1>5. ASSUME NEW i \in 1..h - 1
      PROVE  Requiring(i)' = Requiring(i) \cup {r \in {h} : Rule(l, "REQUIRE") /\ Clear(i, h, Substance)}
  BY ObligationsChange
<1>6. RequirementOf(u)' = l.text
  <2>1. Requiring(u) = {}
    <3>1. ASSUME NEW r \in u + 1..h - 1, Says(r, "REQUIRE") PROVE FALSE
      BY <1>2, <3>1 DEF Says, Gap
    <3> QED BY <1>1, <3>1 DEF Requiring
  <2>2. Requiring(u)' = {h}
    BY <1>3, <1>4, <1>5, <2>1
  <2>3. (CHOOSE r \in {h} : TRUE) = h
    OBVIOUS
  <2> QED BY <1>1, <2>2, <2>3 DEF RequirementOf
<1>7. ASSUME NEW i \in Completing, i # u PROVE Requiring(i)' = Requiring(i)
  <2>1. i \in 1..h - 1 /\ i < u
    BY <1>1, <1>3, <1>7 DEF Completing
  <2>2. Substance(u)
    BY <1>3 DEF Completing, Completes, Inline, Says, Substance, Gap
  <2>3. ~Clear(i, h, Substance)
    BY <1>3, <2>1, <2>2 DEF Clear
  <2> QED BY <1>5, <2>1, <2>3
<1> QED BY <1>3, <1>4, <1>6, <1>7

\* The verifications of the contract are those its lines ask for.
LEMMA VerificationsStay ==
  ASSUME NEW l \in Lines, NEW h, Grown(l, h), ParserOK, GoalOK, ForbidOK, ConditionOK, PendingOK, LastOK,
         VerificationsOK, Accepted(l)
  PROVE  VerificationsOK'
<1> DEFINE n == Cardinality(Completing)
           at(i) == Upto(i, Completing)
<1>1. /\ h \in Nat \ {0} /\ source'[h] = l /\ DOMAIN source' = 1..h /\ DOMAIN source = 1..h - 1
      /\ verifications \in Seq(VerificationRecord) /\ n = Len(verifications) /\ n \in Nat
  BY GrownByOne DEF ParserOK, VerificationsOK
<1>2. ASSUME NEW i \in Completing
      PROVE  /\ i \in 1..h - 1 /\ at(i) \in 1..n /\ Upto(i, Completing') = at(i)
             /\ VerifyOf(i)' \in 1..i
             /\ Requiring(i)' = Requiring(i) => Obligation(i)' = Obligation(i)
             /\ ~Rule(l, "REQUIRE") => Requiring(i)' = Requiring(i)
             /\ CompiledVerification(verifications[at(i)]) = Obligation(i)
  <2>1. i \in 1..h - 1
    BY <1>1 DEF Completing
  <2>2. VerifyOf(i) \in 1..i
    BY DEF VerificationsOK
  <2>3. /\ VerifyOf(i)' = VerifyOf(i)
        /\ Requiring(i)' = Requiring(i) \cup {r \in {h} : Rule(l, "REQUIRE") /\ Clear(i, h, Substance)}
        /\ Requiring(i)' = Requiring(i) => Obligation(i)' = Obligation(i)
    BY <2>1, <2>2, ObligationsChange
  <2>4. ~Rule(l, "REQUIRE") => Requiring(i)' = Requiring(i)
    BY <2>3
  <2>5. at(i) \in 1..n /\ Upto(i, Completing') = at(i)
    BY <2>1, CountsGrow
  <2> QED BY <2>1, <2>2, <2>3, <2>4, <2>5 DEF VerificationsOK
<1>3. \A i : i \in Completing' <=> i \in Completing \/ (i = h /\ Completes(h)')
  <2>1. Completing' \subseteq 1..h /\ \A i \in 1..h - 1 : i \in Completing' <=> i \in Completing
    BY KindsOfLines
  <2>2. Completing \subseteq 1..h - 1 /\ (h \in Completing' <=> Completes(h)')
    BY KindsOfLines
  <2>3. \A i \in 1..h : i \in 1..h - 1 \/ i = h
    BY <1>1
  <2> QED BY <2>1, <2>2, <2>3
<1>4. Cardinality(Completing)' = IF Completes(h)' THEN n + 1 ELSE n
  BY CountsGrow
<1>5. CASE /\ Completes(h)' /\ ~Rule(l, "REQUIRE") /\ VerifyOf(h)' \in 1..h
           /\ \E v : verifications' = Append(verifications, v) /\ CompiledVerification(v) = Obligation(h)'
  <2>1. PICK v : verifications' = Append(verifications, v) /\ CompiledVerification(v) = Obligation(h)'
    BY <1>5
  <2>2. Len(verifications') = n + 1 /\ verifications'[n + 1] = v
        /\ \A k \in 1..n : verifications'[k] = verifications[k]
    BY <1>1, <2>1
  <2>3. Upto(h, Completing') = n + 1
    BY <1>5, CountsGrow
  <2>4. ASSUME NEW i \in Completing'
        PROVE  /\ VerifyOf(i)' \in 1..i
               /\ CompiledVerification(verifications'[Upto(i, Completing')]) = Obligation(i)'
    <3>1. CASE i = h
      BY <1>5, <2>1, <2>2, <2>3, <3>1
    <3>2. CASE i \in Completing
      <4>1. verifications'[Upto(i, Completing')] = verifications[at(i)]
        BY <1>2, <2>2, <3>2
      <4> QED BY <1>2, <1>5, <3>2, <4>1
    <3> QED BY <1>3, <3>1, <3>2
  <2> QED BY <1>4, <1>5, <2>2, <2>4 DEF VerificationsOK, CompiledVerification
<1>6. CASE ~Completes(h)' /\ ~Rule(l, "REQUIRE") /\ UNCHANGED <<verifications, lastUsing>>
  <2>1. ASSUME NEW i \in Completing'
        PROVE  /\ VerifyOf(i)' \in 1..i
               /\ CompiledVerification(verifications'[Upto(i, Completing')]) = Obligation(i)'
    <3>1. i \in Completing
      BY <1>3, <1>6
    <3>2. verifications'[Upto(i, Completing')] = verifications[at(i)]
      BY <1>2, <1>6, <3>1
    <3> QED BY <1>2, <1>6, <3>1, <3>2
  <2> QED BY <1>1, <1>4, <1>6, <2>1 DEF VerificationsOK, CompiledVerification
<1>7. CASE ~Completes(h)' /\ Require(l)
  <2>1. Rule(l, "REQUIRE") /\ verifications' = [verifications EXCEPT ![Len(verifications)].requirement = l.text]
    BY <1>7 DEF Require
  <2>0. PICK u : u = lastUsing
    OBVIOUS
  <2>2. /\ u \in Completing /\ RequirementOf(u)' = l.text
        /\ \A i \in Completing : i # u => Requiring(i)' = Requiring(i)
    BY <2>0, <2>1, RequirementChange
  <2>3. at(u) = n /\ \A i \in Completing : i # u => at(i) # n
    <3>1. \A i \in Completing : i <= u /\ i \in Nat /\ u \in Nat
      BY <1>2, <2>0, <2>2 DEF LastOK
    <3>2. {k \in Completing : k <= u} = Completing
      BY <3>1
    <3>3. at(u) = n
      BY <3>2 DEF Upto
    <3>4. ASSUME NEW i \in Completing, i # u PROVE at(i) < at(u)
      <4>1. i < u
        BY <3>1, <3>4
      <4>2. Completing \in SUBSET (1..h - 1)
        BY KindsOfLines
      <4> QED BY <1>1, <2>2, <4>1, <4>2, Counting
    <3> QED BY <1>1, <1>2, <2>2, <3>3, <3>4
  <2>4. /\ Len(verifications') = n
        /\ \A k \in 1..n : verifications'[k] =
             IF k = n THEN [verifications[n] EXCEPT !.requirement = l.text] ELSE verifications[k]
    BY <1>1, <2>1
  <2>5. ASSUME NEW i \in Completing, i # u
        PROVE  CompiledVerification(verifications'[at(i)]) = Obligation(i)'
    <3>1. verifications'[at(i)] = verifications[at(i)]
      BY <1>2, <2>3, <2>4, <2>5
    <3> QED BY <1>2, <2>2, <2>5, <3>1
  <2>6. CompiledVerification(verifications'[n]) = Obligation(u)'
    <3>1. n \in 1..n /\ u \in 1..h - 1 /\ CompiledVerification(verifications[n]) = Obligation(u)
      BY <1>2, <2>2, <2>3
    <3>2. verifications[n] \in VerificationRecord
      BY <1>1, <3>1
    <3>3. verifications'[n] = [verifications[n] EXCEPT !.requirement = l.text]
      BY <2>4, <3>1
    <3>4. CompiledVerification(verifications'[n]) =
            [claim |-> verifications[n].claim, verifier_ref |-> verifications[n].verifier_ref,
             inline_shell |-> verifications[n].inline_shell, requirement |-> l.text]
      BY <3>2, <3>3 DEF CompiledVerification, VerificationRecord
    <3>5. /\ verifications[n].claim = source[VerifyOf(u)].id
          /\ verifications[n].verifier_ref = source[u].ref
          /\ verifications[n].inline_shell = source[u].inline
      BY <3>1 DEF CompiledVerification, Obligation
    <3>6. /\ source'[u] = source[u]
          /\ source'[VerifyOf(u)'] = source[VerifyOf(u)]
      <4>1. \A k \in 1..h - 1 : source'[k] = source[k]
        BY GrownByOne
      <4>2. VerifyOf(u) \in 1..u
        BY <2>2 DEF VerificationsOK
      <4>3. VerifyOf(u)' = VerifyOf(u)
        BY <3>1, ObligationsChange
      <4> QED BY <1>1, <3>1, <4>1, <4>2, <4>3
    <3>7. Obligation(u)' = [claim |-> source'[VerifyOf(u)'].id,
             verifier_ref |-> source'[u].ref, inline_shell |-> source'[u].inline,
             requirement |-> l.text]
      BY <2>2 DEF Obligation
    <3> QED BY <3>4, <3>5, <3>6, <3>7
  <2>7. ASSUME NEW i \in Completing'
        PROVE  /\ VerifyOf(i)' \in 1..i
               /\ CompiledVerification(verifications'[Upto(i, Completing')]) = Obligation(i)'
    <3>1. i \in Completing /\ Upto(i, Completing') = at(i) /\ VerifyOf(i)' \in 1..i
      BY <1>2, <1>3, <1>7
    <3> QED BY <2>3, <2>5, <2>6, <3>1
  <2> QED BY <1>4, <1>7, <2>4, <2>7 DEF VerificationsOK, CompiledVerification
<1> QED BY <1>5, <1>6, <1>7, VerificationsChange

-----------------------------------------------------------------------------
(***************************************************************************)
(* Nothing inert.                                                          *)
(***************************************************************************)
ReservedOK ==
  \A i \in DOMAIN source :
    /\ ~Says(i, "REJECT WHEN") /\ ~Says(i, "ESCALATE WHEN") /\ ~Says(i, "OTHER")
    /\ Says(i, "REQUIRE") => \E v \in 1..i - 1 : Completes(v) /\ Clear(v, i, Substance)

\* The condition of an ACCEPT WHEN may go on: it has been clauses ever since.
Open(i) == \A n \in i + 1..Len(source) : source[n].dir = "CLAUSE"

\* f finds every clause of the condition in the source, and every clause of the source.
Enumerates(f, i) ==
  /\ \A k \in DOMAIN condition : f[k] \in Clauses(i) /\ ClauseAt(f[k]) = condition[k]
  /\ \A p \in Clauses(i) : \E k \in DOMAIN condition : f[k] = p

AcceptOK ==
  \A i \in DOMAIN source : Says(i, "ACCEPT WHEN") =>
    IF Open(i) THEN condition # NoCondition /\ \E f : Enumerates(f, i) ELSE Supported(i)

LEMMA ReservedStays ==
  ASSUME NEW l \in Lines, NEW h, Grown(l, h), GoalOK, ForbidOK, LastOK, ReservedOK, Accepted(l)
  PROVE  ReservedOK'
<1>1. h \in Nat \ {0} /\ DOMAIN source = 1..h - 1 /\ DOMAIN source' = 1..h
  BY GrownByOne
<1>2. \A n \in 1..h - 1 : /\ Completes(n)' <=> Completes(n)
                          /\ Substance(n)' <=> Substance(n)
                          /\ \A dir : Says(n, dir)' <=> Says(n, dir)
  BY SaysStays
<1>3. ASSUME NEW v \in 1..h - 1, NEW i \in 1..h PROVE Clear(v, i, Substance)' <=> Clear(v, i, Substance)
  <2>1. \A n \in v + 1..i - 1 : n \in 1..h - 1
    BY <1>1
  <2> QED BY <1>2, <2>1 DEF Clear
<1>4. ASSUME NEW i \in 1..h - 1
      PROVE  /\ ~Says(i, "REJECT WHEN")' /\ ~Says(i, "ESCALATE WHEN")' /\ ~Says(i, "OTHER")'
             /\ Says(i, "REQUIRE")' => \E v \in 1..i - 1 : Completes(v)' /\ Clear(v, i, Substance)'
  <2>1. \A v \in 1..i - 1 : v \in 1..h - 1 /\ i \in 1..h
    BY <1>1
  <2> QED BY <1>1, <1>2, <1>3, <2>1 DEF ReservedOK
<1>5. /\ ~Says(h, "REJECT WHEN")' /\ ~Says(h, "ESCALATE WHEN")' /\ ~Says(h, "OTHER")'
      /\ Says(h, "REQUIRE")' => \E v \in 1..h - 1 : Completes(v)' /\ Clear(v, h, Substance)'
  <2>1. \A dir : Says(h, dir)' <=> Rule(l, dir)
    BY SaysLast
  <2>2. ~Rule(l, "REJECT WHEN") /\ ~Rule(l, "ESCALATE WHEN") /\ ~Rule(l, "OTHER")
    BY DEF Accepted, LineRefused
  <2>3. ASSUME Rule(l, "REQUIRE")
        PROVE  \E v \in 1..h - 1 : Completes(v)' /\ Clear(v, h, Substance)'
    <3>1. PICK u : u = lastUsing
      OBVIOUS
    <3>2. u \in Completing /\ Clear(u, h, Substance)
      BY <2>3, <3>1, RequirementChange
    <3>3. u \in 1..h - 1 /\ Completes(u) /\ h \in 1..h
      BY <1>1, <3>2 DEF Completing
    <3> QED BY <1>2, <1>3, <3>2, <3>3
  <2> QED BY <2>1, <2>2, <2>3
<1>6. \A i \in 1..h : i \in 1..h - 1 \/ i = h
  BY <1>1
<1> QED BY <1>1, <1>4, <1>5, <1>6 DEF ReservedOK

\* The clauses of an ACCEPT WHEN, when a line more has been read.
LEMMA ClausesChange ==
  ASSUME NEW l \in Lines, NEW h, Grown(l, h), NEW i \in 1..h - 1
  PROVE  /\ Open(i)' <=> Open(i) /\ l.dir = "CLAUSE"
         /\ \A p \in Clauses(i) : ClauseAt(p)' = ClauseAt(p)
         /\ \A p : p \in Clauses(i)' <=>
              \/ p \in Clauses(i)
              \/ Open(i) /\ l.dir = "CLAUSE" /\ \E k \in DOMAIN l.clauses : p = <<h, k>>
         /\ \A k : ClauseAt(<<h, k>>)' = l.clauses[k]
<1>1. /\ h \in Nat \ {0} /\ Len(source) = h - 1 /\ Len(source') = h
      /\ source'[h] = l /\ \A n \in 1..h - 1 : source'[n] = source[n]
  BY GrownByOne
<1>2. i + 1..h = (i + 1..h - 1) \cup {h} /\ h \in i + 1..h /\ \A n \in i + 1..h - 1 : n \in 1..h - 1
  BY <1>1
<1>3. Open(i)' <=> Open(i) /\ l.dir = "CLAUSE"
  BY <1>1, <1>2 DEF Open
<1>4. Continued(i) \subseteq 1..h - 1
  BY <1>1, <1>2 DEF Continued
<1>5. \A n : n \in Continued(i)' <=> n \in Continued(i) \/ (Open(i) /\ l.dir = "CLAUSE" /\ n = h)
  <2>1. ASSUME NEW n \in i + 1..h - 1 PROVE n \in Continued(i)' <=> n \in Continued(i)
    <3>1. \A k \in i + 1..n : k \in 1..h - 1
      BY <1>1
    <3> QED BY <1>1, <1>2, <3>1 DEF Continued
  <2>2. h \in Continued(i)' <=> Open(i) /\ l.dir = "CLAUSE"
    BY <1>1, <1>2, <1>3 DEF Continued, Open
  <2>3. Continued(i)' \subseteq i + 1..h /\ Continued(i) \subseteq i + 1..h - 1
    BY <1>1 DEF Continued
  <2> QED BY <1>2, <2>1, <2>2, <2>3
<1>6. ASSUME NEW n \in {i} \cup Continued(i), NEW p \in ClausesOf(n)
      PROVE  p[1] \in 1..h - 1 /\ p \in ClausesOf(n)' /\ ClauseAt(p)' = ClauseAt(p)
  <2>1. n \in 1..h - 1 /\ source'[n] = source[n]
    BY <1>1, <1>4
  <2>2. ClausesOf(n)' = ClausesOf(n)
    BY <2>1 DEF ClausesOf
  <2>3. p[1] = n
    BY DEF ClausesOf
  <2> QED BY <2>1, <2>2, <2>3 DEF ClauseAt
<1>7. \A n \in {i} \cup Continued(i) : ClausesOf(n)' = ClausesOf(n)
  BY <1>1, <1>4 DEF ClausesOf
<1>8. \A p \in Clauses(i) : ClauseAt(p)' = ClauseAt(p)
  BY <1>6 DEF Clauses
<1>9. \A p : p \in Clauses(i)' <=>
        \/ p \in Clauses(i)
        \/ Open(i) /\ l.dir = "CLAUSE" /\ \E k \in DOMAIN l.clauses : p = <<h, k>>
  <2>1. ASSUME NEW p
        PROVE  /\ p \in Clauses(i) <=> \E n \in {i} \cup Continued(i) : p \in ClausesOf(n)
               /\ p \in Clauses(i)' <=> \E n \in {i} \cup Continued(i)' : p \in ClausesOf(n)'
    BY DEF Clauses
  <2>2. ClausesOf(h)' = {<<h, k>> : k \in DOMAIN l.clauses}
    BY <1>1 DEF ClausesOf
  <2>3. \A p : p \in ClausesOf(h)' <=> \E k \in DOMAIN l.clauses : p = <<h, k>>
    BY <2>2
  <2> QED BY <1>5, <1>7, <2>1, <2>3
<1>10. \A k : ClauseAt(<<h, k>>)' = l.clauses[k]
  BY <1>1 DEF ClauseAt
<1> QED BY <1>3, <1>8, <1>9, <1>10

\* A condition that is not refused is the supported one.
LEMMA ConditionSupported ==
  ASSUME ConditionOK, condition # NoCondition, ~ConditionRefused(condition), NEW f, NEW i, Enumerates(f, i)
  PROVE  Supported(i)
<1>1. condition \in Seq({"required", "critical", "AND", "other"})
  BY DEF ConditionOK
<1> DEFINE required == {k \in DOMAIN condition : condition[k] = "required"}
<1>2. Cardinality(required) = 1 /\ \A k \in DOMAIN condition : condition[k] # "other"
  BY DEF ConditionRefused
<1>3. IsFiniteSet(required)
  <2>1. Len(condition) \in Int /\ 1 \in Int /\ DOMAIN condition = 1..Len(condition)
    BY <1>1
  <2>2. IsFiniteSet(DOMAIN condition)
    BY <2>1, FS_Interval
  <2> QED BY <2>2, FS_Subset
<1>4. PICK k : required = {k}
  <2> HIDE DEF required
  <2> QED BY <1>2, <1>3, FS_Singleton
<1>5. k \in DOMAIN condition /\ \A n \in DOMAIN condition : condition[n] = "required" <=> n = k
  BY <1>4
<1>6. f[k] \in Clauses(i) /\ \A q \in Clauses(i) : ClauseAt(q) = "required" <=> q = f[k]
  BY <1>5 DEF Enumerates
<1>7. \A p \in Clauses(i) : ClauseAt(p) # "other"
  BY <1>2 DEF Enumerates
<1> QED BY <1>6, <1>7 DEF Supported

\* A condition that has ended stays the supported one.
LEMMA SupportStays ==
  ASSUME NEW l \in Lines, NEW h, Grown(l, h), NEW i \in 1..h - 1, Supported(i), ~Open(i) \/ l.dir # "CLAUSE"
  PROVE  Supported(i)'
<1>1. \A p \in Clauses(i) : ClauseAt(p)' = ClauseAt(p)
  BY ClausesChange
<1>2. \A p : p \in Clauses(i)' <=> p \in Clauses(i)
  BY ClausesChange
<1> QED BY <1>1, <1>2 DEF Supported

\* The condition is the clauses of the ACCEPT WHEN that may go on.
LEMMA AcceptStays ==
  ASSUME NEW l \in Lines, NEW h, Grown(l, h), GoalOK, ForbidOK, ConditionOK, AcceptOK, Accepted(l)
  PROVE  AcceptOK'
<1>1. h \in Nat \ {0} /\ DOMAIN source = 1..h - 1 /\ DOMAIN source' = 1..h /\ Len(source') = h /\ source'[h] = l
  BY GrownByOne
<1>2. ASSUME NEW i \in 1..h - 1
      PROVE  /\ Says(i, "ACCEPT WHEN")' <=> Says(i, "ACCEPT WHEN")
             /\ Open(i)' <=> Open(i) /\ l.dir = "CLAUSE"
             /\ Says(i, "ACCEPT WHEN") =>
                  IF Open(i) THEN condition # NoCondition /\ \E f : Enumerates(f, i) ELSE Supported(i)
  BY <1>1, SaysStays, ClausesChange DEF AcceptOK
<1>3. Says(h, "ACCEPT WHEN")' <=> Rule(l, "ACCEPT WHEN")
  BY SaysLast
<1>4. \A i \in 1..h : i \in 1..h - 1 \/ i = h
  BY <1>1
<1>5. CASE l.dir # "CLAUSE"
  <2>1. ASSUME NEW i \in 1..h - 1, Says(i, "ACCEPT WHEN")' PROVE ~Open(i)' /\ Supported(i)'
    <3>1. CASE Open(i)
      <4>1. PICK f : Enumerates(f, i)
        BY <1>2, <2>1, <3>1
      <4>2. condition # NoCondition /\ ~ConditionRefused(condition)
        BY <1>2, <1>5, <2>1, <3>1 DEF Accepted, LineRefused
      <4>3. Supported(i)
        BY <4>1, <4>2, ConditionSupported
      <4> QED BY <1>2, <1>5, <4>3, SupportStays
    <3>2. CASE ~Open(i)
      BY <1>2, <1>5, <2>1, <3>2, SupportStays
    <3> QED BY <3>1, <3>2
  <2>2. ASSUME Says(h, "ACCEPT WHEN")' PROVE Open(h)' /\ condition' # NoCondition /\ \E f : Enumerates(f, h)'
    <3>1. Rule(l, "ACCEPT WHEN") /\ l.dir = "ACCEPT WHEN"
      BY <1>3, <2>2 DEF Rule
    <3>2. AcceptWhen(l) /\ condition' = l.clauses
      BY <3>1 DEF Accepted, Using, BlankOrComment, Gap, Header, Goal, Claim, Invariant, Ensure, Forbid,
                  ForbidText, Verify, AcceptWhen, Require, Rule
    <3>3. l.clauses \in Seq({"required", "critical", "AND", "other"})
      BY ParserAssumption
    <3>4. condition' # NoCondition
      BY <3>2, <3>3 DEF NoCondition
    <3>5. PICK f : f = [k \in DOMAIN l.clauses |-> <<h, k>>]
      OBVIOUS
    <3>6. Clauses(h)' = {<<h, k>> : k \in DOMAIN l.clauses}
      <4>1. Continued(h)' = {}
        BY <1>1 DEF Continued
      <4>2. ClausesOf(h)' = {<<h, k>> : k \in DOMAIN l.clauses}
        BY <1>1 DEF ClausesOf
      <4>3. Clauses(h)' = ClausesOf(h)'
        BY <4>1 DEF Clauses
      <4> QED BY <4>2, <4>3
    <3>7. Enumerates(f, h)'
      <4>1. \A k \in DOMAIN l.clauses : f[k] = <<h, k>> /\ ClauseAt(<<h, k>>)' = l.clauses[k]
        BY <1>1, <3>5 DEF ClauseAt
      <4> QED BY <3>2, <3>6, <4>1 DEF Enumerates
    <3>8. Open(h)'
      BY <1>1 DEF Open
    <3> QED BY <3>4, <3>7, <3>8
  <2> QED BY <1>1, <1>4, <2>1, <2>2 DEF AcceptOK
<1>6. CASE l.dir = "CLAUSE" /\ condition = NoCondition
  <2>1. ~Says(h, "ACCEPT WHEN")'
    BY <1>3, <1>6 DEF Rule
  <2>2. ASSUME NEW i \in 1..h - 1, Says(i, "ACCEPT WHEN")' PROVE ~Open(i)' /\ Supported(i)'
    <3>1. ~Open(i) /\ Supported(i)
      BY <1>2, <1>6, <2>2
    <3> QED BY <1>2, <3>1, SupportStays
  <2> QED BY <1>1, <1>4, <2>1, <2>2 DEF AcceptOK
<1>7. CASE l.dir = "CLAUSE" /\ condition # NoCondition
  <2>1. ~Says(h, "ACCEPT WHEN")'
    BY <1>3, <1>7 DEF Rule
  <2>2. condition' = condition \o l.clauses
    BY <1>7 DEF Accepted, Using, BlankOrComment, Gap, Header, Goal, Claim, Invariant, Ensure, Forbid,
                ForbidText, Verify, AcceptWhen, Require, Rule, Forbidden, Prose, ConditionOK
  <2>3. l.clauses \in Seq({"required", "critical", "AND", "other"})
        /\ condition \in Seq({"required", "critical", "AND", "other"})
    BY <1>7, ParserAssumption DEF ConditionOK
  <2>4. condition' # NoCondition
    <3>1. condition' \in Seq({"required", "critical", "AND", "other"})
      BY <2>2, <2>3
    <3> QED BY <3>1 DEF NoCondition
  <2>5. ASSUME NEW i \in 1..h - 1, Says(i, "ACCEPT WHEN")', Open(i)' PROVE \E f : Enumerates(f, i)'
    <3>1. PICK f : Enumerates(f, i)
      BY <1>2, <2>5
    <3>2. PICK n : n = Len(condition)
      OBVIOUS
    <3>3. PICK g : g = [k \in DOMAIN (condition \o l.clauses) |-> IF k <= n THEN f[k] ELSE <<h, k - n>>]
      OBVIOUS
    <3>4. /\ n \in Nat /\ Len(l.clauses) \in Nat
          /\ DOMAIN condition = 1..n /\ DOMAIN l.clauses = 1..Len(l.clauses)
          /\ DOMAIN condition' = 1..n + Len(l.clauses)
          /\ \A k \in 1..n : condition'[k] = condition[k]
          /\ \A k \in 1..Len(l.clauses) : condition'[n + k] = l.clauses[k]
      BY <2>2, <2>3, <3>2
    <3>5. /\ \A k \in 1..n : k \in DOMAIN condition' /\ g[k] = f[k]
          /\ \A k \in 1..Len(l.clauses) : n + k \in DOMAIN condition' /\ g[n + k] = <<h, k>>
      BY <2>2, <3>3, <3>4
    <3>6. Open(i)
      BY <1>2, <2>5
    <3>7. /\ \A p \in Clauses(i) : ClauseAt(p)' = ClauseAt(p)
          /\ \A p : p \in Clauses(i)' <=> p \in Clauses(i) \/ \E k \in DOMAIN l.clauses : p = <<h, k>>
          /\ \A k : ClauseAt(<<h, k>>)' = l.clauses[k]
      BY <1>7, <3>6, ClausesChange
    <3>8. ASSUME NEW k \in DOMAIN condition' PROVE g[k] \in Clauses(i)' /\ ClauseAt(g[k])' = condition'[k]
      <4>1. CASE k \in 1..n
        BY <3>1, <3>4, <3>5, <3>7, <4>1 DEF Enumerates
      <4>2. CASE k \notin 1..n
        <5>1. PICK m \in 1..Len(l.clauses) : k = n + m
          <6>1. k - n \in 1..Len(l.clauses) /\ k = n + (k - n)
            BY <3>4, <4>2
          <6> QED BY <6>1
        <5> QED BY <3>4, <3>5, <3>7, <5>1
      <4> QED BY <4>1, <4>2
    <3>9. ASSUME NEW p \in Clauses(i)' PROVE \E k \in DOMAIN condition' : g[k] = p
      <4>1. CASE p \in Clauses(i)
        BY <3>1, <3>4, <3>5, <4>1 DEF Enumerates
      <4>2. CASE \E k \in DOMAIN l.clauses : p = <<h, k>>
        BY <3>4, <3>5, <4>2
      <4> QED BY <3>7, <4>1, <4>2
    <3>10. Enumerates(g, i)'
      BY <3>8, <3>9 DEF Enumerates
    <3> QED BY <3>10
  <2>6. ASSUME NEW i \in 1..h - 1, Says(i, "ACCEPT WHEN")', ~Open(i)' PROVE Supported(i)'
    BY <1>2, <1>7, <2>6, SupportStays
  <2> QED BY <1>1, <1>4, <2>1, <2>4, <2>5, <2>6 DEF AcceptOK
<1> QED BY <1>5, <1>6, <1>7

-----------------------------------------------------------------------------
(***************************************************************************)
(* The types of what the parser keeps.                                     *)
(***************************************************************************)
ClaimFits(c) ==
  /\ c.id \in Id \cup {ForbidId(n) : n \in 1..forbids}
  /\ c.critical => c.required /\ c.kind = "invariant"
  /\ c.line \in DOMAIN source

VerificationFits(v) == v.claim \in Id /\ v.requirement \in Text \cup {NoHash}

FieldsOK ==
  /\ Len(source) <= MaxLines
  /\ headers \subseteq Headers /\ inGoal \in BOOLEAN
  /\ goal \in Seq(Nat) /\ \A i \in DOMAIN goal : goal[i] \in DOMAIN source
  /\ \A i \in DOMAIN claims : ClaimFits(claims[i])
  /\ \A i \in DOMAIN verifications : VerificationFits(verifications[i])
  /\ pendingVerify \in [claim : Id, line : DOMAIN source] \cup {NoVerify}
  /\ {pendingForbid, forbids, lastUsing} \subseteq 0..Len(source)

LEMMA ClaimsFit ==
  ASSUME NEW l \in Lines, NEW h, Grown(l, h), ParserOK, FieldsOK, Accepted(l)
  PROVE  \A i \in DOMAIN claims' : ClaimFits(claims[i])'
<1>1. /\ h \in Nat \ {0} /\ h = Here /\ DOMAIN source = 1..h - 1 /\ DOMAIN source' = 1..h /\ Len(source) = h - 1
      /\ claims \in Seq(ClaimRecord) /\ forbids \in Nat /\ pendingForbid \in 0..h - 1
  BY GrownByOne DEF Grown, ParserOK, FieldsOK
<1>2. forbids' \in {forbids, forbids + 1}
  BY DEF Accepted, Using, BlankOrComment, Header, Goal, Claim, Invariant, Ensure, Forbid,
         ForbidText, Verify, AcceptWhen, Require
<1>3. ASSUME NEW c, ClaimFits(c) PROVE ClaimFits(c)'
  <2>1. \A n \in 1..forbids : n \in 1..forbids'
    BY <1>1, <1>2
  <2>2. \A n \in 1..h - 1 : n \in 1..h
    BY <1>1
  <2> QED BY <1>1, <1>3, <2>1, <2>2 DEF ClaimFits
<1>4. \A i \in DOMAIN claims : ClaimFits(claims[i])
  BY DEF FieldsOK
<1>5. ASSUME NEW c, claims' = Append(claims, c), ClaimFits(c)'
      PROVE  \A i \in DOMAIN claims' : ClaimFits(claims[i])'
  <2>1. ASSUME NEW i \in DOMAIN claims' PROVE \/ claims'[i] = c
                                              \/ i \in DOMAIN claims /\ claims'[i] = claims[i]
    BY <1>1, <1>5
  <2>2. ASSUME NEW i \in DOMAIN claims' PROVE ClaimFits(claims[i])'
    <3>1. PICK d : d = claims'[i]
      OBVIOUS
    <3>2. ClaimFits(d)'
      BY <1>3, <1>4, <1>5, <2>1, <3>1
    <3> QED BY <3>1, <3>2 DEF ClaimFits
  <2> QED BY <2>2
<1>6. CASE UNCHANGED claims
  <2>1. ASSUME NEW i \in DOMAIN claims' PROVE ClaimFits(claims[i])'
    <3>1. PICK d : d = claims'[i] /\ d = claims[i] /\ i \in DOMAIN claims
      BY <1>6
    <3>2. ClaimFits(d)'
      BY <1>3, <1>4, <3>1
    <3> QED BY <3>1, <3>2 DEF ClaimFits
  <2> QED BY <2>1
<1>7. CASE Ensure(l)
  <2>1. claims' = [claims EXCEPT ![Len(claims)].ensure = Here]
    BY <1>7 DEF Ensure
  <2>2. ASSUME NEW i \in DOMAIN claims' PROVE ClaimFits(claims[i])'
    <3>1. i \in DOMAIN claims /\ claims[i] \in ClaimRecord
      BY <1>1, <2>1
    <3>2. claims'[i] = IF i = Len(claims) THEN [claims[i] EXCEPT !.ensure = Here] ELSE claims[i]
      BY <1>1, <2>1, <3>1
    <3>3. PICK d : d = claims[i]
      OBVIOUS
    <3>4. ClaimFits(d)'
      BY <1>3, <1>4, <3>1, <3>3
    <3>5. /\ claims'[i].id = d.id /\ claims'[i].critical = d.critical /\ claims'[i].required = d.required
          /\ claims'[i].kind = d.kind /\ claims'[i].line = d.line
      BY <3>1, <3>2, <3>3 DEF ClaimRecord
    <3> QED BY <3>4, <3>5 DEF ClaimFits
  <2> QED BY <2>2
<1>8. CASE Claim(l)
  <2>1. l.id \in Id
    BY <1>8, PropertiesAssumption DEF Claim, Rule, Accepted, LineRefused, ClaimRefused
  <2>2. PICK c : c = [id |-> l.id, kind |-> "claim", required |-> "OPTIONAL" \notin l.modifiers,
                      critical |-> FALSE, ensure |-> 0, line |-> h]
    OBVIOUS
  <2>3. claims' = Append(claims, c)
    BY <1>1, <1>8, <2>2 DEF Claim, Claimed
  <2>4. ClaimFits(c)'
    BY <1>1, <2>1, <2>2 DEF ClaimFits
  <2> QED BY <1>5, <2>3, <2>4
<1>9. CASE Invariant(l)
  <2>1. l.id \in Id
    BY <1>9, PropertiesAssumption DEF Invariant, Rule, Accepted, LineRefused, InvariantRefused
  <2>2. PICK c : c = [id |-> l.id, kind |-> "invariant", required |-> TRUE,
                      critical |-> "CRITICAL" \in l.modifiers, ensure |-> 0, line |-> h]
    OBVIOUS
  <2>3. claims' = Append(claims, c)
    BY <1>1, <1>9, <2>2 DEF Invariant, Claimed
  <2>4. ClaimFits(c)'
    BY <1>1, <2>1, <2>2 DEF ClaimFits
  <2> QED BY <1>5, <2>3, <2>4
<1>10. CASE (Forbid(l) /\ l.text # "") \/ ForbidText(l)
  <2>1. PICK line \in 1..h : Claimed(ForbidId(forbids + 1), "invariant", TRUE, TRUE, Here, line)
    <3>1. CASE Forbid(l) /\ l.text # ""
      <4>1. Claimed(ForbidId(forbids + 1), "invariant", TRUE, TRUE, Here, h)
        BY <1>1, <3>1 DEF Forbid, Claimed
      <4>2. h \in 1..h
        BY <1>1
      <4> QED BY <4>1, <4>2
    <3>2. CASE ForbidText(l)
      <4>1. pendingForbid \in 1..h
        BY <1>1, <3>2 DEF ForbidText, Forbidden
      <4> QED BY <3>2, <4>1 DEF ForbidText
    <3> QED BY <1>10, <3>1, <3>2
  <2>2. forbids' = forbids + 1
    BY <1>10 DEF Forbid, ForbidText
  <2>3. PICK c : c = [id |-> ForbidId(forbids + 1), kind |-> "invariant", required |-> TRUE,
                      critical |-> TRUE, ensure |-> Here, line |-> line]
    OBVIOUS
  <2>4. claims' = Append(claims, c)
    BY <2>1, <2>3 DEF Claimed
  <2>5. ClaimFits(c)'
    <3>1. forbids + 1 \in 1..forbids'
      BY <1>1, <2>2
    <3> QED BY <1>1, <2>3, <3>1 DEF ClaimFits
  <2> QED BY <1>5, <2>4, <2>5
<1>11. CASE \/ Using(l) \/ BlankOrComment(l) \/ Header(l) \/ Goal(l) \/ Verify(l) \/ AcceptWhen(l)
            \/ Require(l) \/ (Forbid(l) /\ l.text = "")
  BY <1>6, <1>11 DEF Using, BlankOrComment, Header, Goal, Verify, AcceptWhen, Require, Forbid
<1> QED BY <1>7, <1>8, <1>9, <1>10, <1>11 DEF Accepted

LEMMA VerificationsFit ==
  ASSUME NEW l \in Lines, NEW h, Grown(l, h), ParserOK, FieldsOK, Accepted(l)
  PROVE  /\ \A i \in DOMAIN verifications' : VerificationFits(verifications'[i])
         /\ pendingVerify' \in [claim : Id, line : DOMAIN source'] \cup {NoVerify}
<1>1. /\ h \in Nat \ {0} /\ h = Here /\ DOMAIN source = 1..h - 1 /\ DOMAIN source' = 1..h
      /\ verifications \in Seq(VerificationRecord)
      /\ \A i \in DOMAIN verifications : VerificationFits(verifications[i])
      /\ pendingVerify \in [claim : Id, line : 1..h - 1] \cup {NoVerify}
  BY GrownByOne DEF Grown, ParserOK, FieldsOK
<1>2. pendingVerify \in [claim : Id, line : 1..h] \cup {NoVerify}
  <2>1. \A n \in 1..h - 1 : n \in 1..h
    BY <1>1
  <2> QED BY <1>1, <2>1
<1>3. ASSUME NEW claim \in Id, NEW line, Verified(claim, l, line)
      PROVE  \A i \in DOMAIN verifications' : VerificationFits(verifications'[i])
  <2> DEFINE v == [claim |-> claim, verifier_ref |-> l.ref, inline_shell |-> l.inline,
                   requirement |-> NoHash, line |-> line]
  <2>1. verifications' = Append(verifications, v)
    BY <1>3 DEF Verified
  <2>2. VerificationFits(v)
    BY DEF VerificationFits
  <2>3. ASSUME NEW i \in DOMAIN verifications'
        PROVE  verifications'[i] = v \/ (i \in DOMAIN verifications /\ verifications'[i] = verifications[i])
    <3> HIDE DEF v
    <3> QED BY <1>1, <2>1
  <2> QED BY <1>1, <2>2, <2>3
<1>4. CASE Using(l)
  <2>1. pendingVerify # NoVerify /\ Verified(pendingVerify.claim, l, pendingVerify.line) /\ pendingVerify' = NoVerify
    BY <1>4 DEF Using, Accepted, LineRefused
  <2>2. pendingVerify.claim \in Id
    BY <1>1, <2>1
  <2>3. PICK claim : claim = pendingVerify.claim
    OBVIOUS
  <2>4. PICK line : line = pendingVerify.line
    OBVIOUS
  <2>5. Verified(claim, l, line)
    BY <2>1, <2>3, <2>4
  <2> QED BY <1>3, <2>1, <2>2, <2>3, <2>5
<1>5. CASE Verify(l)
  <2>1. l.id \in Id
    BY <1>5, PropertiesAssumption DEF Verify, Rule, Accepted, LineRefused
  <2>2. CASE l.ref # NoHash
    <3>1. Verified(l.id, l, Here) /\ pendingVerify' = pendingVerify
      BY <1>5, <2>2 DEF Verify
    <3>2. Verified(l.id, l, h)
      BY <1>1, <3>1
    <3> QED BY <1>1, <1>2, <1>3, <2>1, <3>1, <3>2
  <2>3. CASE l.ref = NoHash
    <3>1. verifications' = verifications /\ pendingVerify' = [claim |-> l.id, line |-> h]
      BY <1>1, <1>5, <2>3 DEF Verify
    <3>2. h \in 1..h
      BY <1>1
    <3> QED BY <1>1, <2>1, <3>1, <3>2
  <2> QED BY <2>2, <2>3
<1>6. CASE Require(l)
  <2>1. /\ verifications' = [verifications EXCEPT ![Len(verifications)].requirement = l.text]
        /\ pendingVerify' = pendingVerify
    BY <1>6 DEF Require
  <2>2. l.text \in Text
    BY <1>6, PropertiesAssumption DEF Require, Rule, Accepted, LineRefused, RequireRefused
  <2>3. ASSUME NEW i \in DOMAIN verifications' PROVE VerificationFits(verifications'[i])
    <3>1. i \in DOMAIN verifications /\ verifications[i] \in VerificationRecord
      BY <1>1, <2>1
    <3>2. verifications'[i] = IF i = Len(verifications) THEN [verifications[i] EXCEPT !.requirement = l.text]
                                                        ELSE verifications[i]
      BY <1>1, <2>1, <3>1
    <3>3. verifications'[i].claim = verifications[i].claim
          /\ verifications'[i].requirement \in {l.text, verifications[i].requirement}
      BY <3>1, <3>2 DEF VerificationRecord
    <3> QED BY <1>1, <2>2, <3>1, <3>3 DEF VerificationFits
  <2> QED BY <1>1, <1>2, <2>1, <2>3
<1>7. CASE ~Using(l) /\ ~Verify(l) /\ ~Require(l)
  <2>1. verifications' = verifications /\ pendingVerify' = pendingVerify
    BY <1>7 DEF Accepted, BlankOrComment, Header, Goal, Claim, Invariant, Ensure, Forbid, ForbidText, AcceptWhen
  <2> QED BY <1>1, <1>2, <2>1
<1> QED BY <1>4, <1>5, <1>6, <1>7

LEMMA FieldsStay ==
  ASSUME NEW l \in Lines, NEW h, Grown(l, h), ParserOK, FieldsOK, Accepted(l), Len(source) < MaxLines
  PROVE  FieldsOK'
<1>1. /\ h \in Nat \ {0} /\ h = Here /\ DOMAIN source = 1..h - 1 /\ DOMAIN source' = 1..h
      /\ Len(source') = h /\ Len(source) = h - 1
  BY GrownByOne DEF Grown
<1>2. Len(source') <= MaxLines
  BY <1>1, ParserAssumption
<1>3. headers' \subseteq Headers
  <2>1. CASE Header(l)
    <3>1. l.id \in Headers
      BY <2>1, ParserAssumption DEF Header
    <3> QED BY <2>1, <3>1 DEF Header, FieldsOK
  <2>2. CASE ~Header(l)
    <3>1. headers' = headers
      BY <2>2 DEF Accepted, Using, BlankOrComment, Goal, Claim, Invariant, Ensure, Forbid,
                  ForbidText, Verify, AcceptWhen, Require
    <3> QED BY <3>1 DEF FieldsOK
  <2> QED BY <2>1, <2>2
<1>4. inGoal' \in BOOLEAN
  <2>1. CASE Using(l)
    BY <2>1 DEF Using, FieldsOK
  <2>2. CASE BlankOrComment(l)
    BY <2>2 DEF BlankOrComment
  <2>3. CASE ~Using(l) /\ ~BlankOrComment(l)
    BY <2>3 DEF Accepted, Header, Goal, Claim, Invariant, Ensure, Forbid, ForbidText, Verify,
                AcceptWhen, Require
  <2> QED BY <2>1, <2>2, <2>3
<1>5. goal' \in Seq(Nat) /\ \A i \in DOMAIN goal' : goal'[i] \in DOMAIN source'
  <2>1. goal \in Seq(Nat) /\ \A i \in DOMAIN goal : goal[i] \in 1..h
    BY <1>1 DEF FieldsOK
  <2>2. goal' = goal \/ goal' = Append(goal, h)
    BY <1>1 DEF Accepted, Using, BlankOrComment, Header, Goal, Claim, Invariant, Ensure, Forbid,
                ForbidText, Verify, AcceptWhen, Require
  <2>3. h \in 1..h
    BY <1>1
  <2>4. CASE goal' = goal
    BY <1>1, <2>1, <2>4
  <2>5. CASE goal' = Append(goal, h)
    <3>1. goal' \in Seq(Nat)
      BY <1>1, <2>1, <2>5
    <3>2. ASSUME NEW i \in DOMAIN goal' PROVE goal'[i] = h \/ (i \in DOMAIN goal /\ goal'[i] = goal[i])
      BY <1>1, <2>1, <2>5
    <3> QED BY <1>1, <2>1, <2>3, <3>1, <3>2
  <2> QED BY <2>2, <2>4, <2>5
<1>6. {pendingForbid, forbids, lastUsing}' \subseteq 0..Len(source')
  <2>1. {pendingForbid, forbids, lastUsing} \subseteq 0..h - 1
    BY <1>1 DEF FieldsOK
  <2>2. pendingForbid' \in {pendingForbid, h, 0} /\ forbids' \in {forbids, forbids + 1}
    BY <1>1 DEF Accepted, Using, BlankOrComment, Header, Goal, Claim, Invariant, Ensure, Forbid,
                ForbidText, Verify, AcceptWhen, Require
  <2>3. lastUsing' \in {lastUsing, h}
    BY <1>1 DEF Accepted, Using, Verified, BlankOrComment, Header, Goal, Claim, Invariant, Ensure, Forbid,
                ForbidText, Verify, AcceptWhen, Require
  <2> QED BY <1>1, <2>1, <2>2, <2>3
<1>7. /\ \A i \in DOMAIN claims' : ClaimFits(claims[i])'
      /\ \A i \in DOMAIN verifications' : VerificationFits(verifications'[i])
      /\ pendingVerify' \in [claim : Id, line : DOMAIN source'] \cup {NoVerify}
  BY ClaimsFit, VerificationsFit
<1> QED BY <1>2, <1>3, <1>4, <1>5, <1>6, <1>7 DEF FieldsOK, VerificationFits

-----------------------------------------------------------------------------
(***************************************************************************)
(* All of it, of every state.                                              *)
(***************************************************************************)
SourceOK ==
  /\ GoalOK /\ ForbidOK /\ ConditionOK /\ ClaimsOK
  /\ PendingOK /\ LastOK /\ VerificationsOK
  /\ ReservedOK /\ AcceptOK /\ FieldsOK

SInv ==
  /\ CInv /\ SourceOK
  /\ phase \in {"reading", "refused", "parsed", "compiled", "linted", "briefed"}
  /\ phase \in {"reading", "refused", "parsed"} => ir = NoIr
  /\ ContractRead => condition = NoCondition \/ ~ConditionRefused(condition)

\* Before the first line, and after an error, nothing has been read.
Empty ==
  /\ source = <<>> /\ headers = {} /\ inGoal = FALSE /\ goal = <<>>
  /\ claims = <<>> /\ verifications = <<>>
  /\ pendingVerify = NoVerify /\ pendingForbid = 0 /\ forbids = 0 /\ lastUsing = 0
  /\ condition = NoCondition

LEMMA EmptyOK == Empty => SourceOK
<1> SUFFICES ASSUME Empty PROVE SourceOK
  OBVIOUS
<1>1. DOMAIN source = {} /\ Len(source) = 0
  BY DEF Empty
<1>2. GoalOK /\ ForbidOK /\ ConditionOK /\ PendingOK /\ ReservedOK /\ AcceptOK
  BY <1>1 DEF Empty, GoalOK, ForbidOK, ConditionOK, PendingOK, ReservedOK, AcceptOK
<1>3. Forbidding = {} /\ Declaring = {} /\ Completing = {}
  BY <1>1 DEF Forbidding, Declaring, Completing
<1>4. Cardinality({}) = 0
  BY FS_EmptySet
<1>5. ClaimsOK /\ VerificationsOK /\ LastOK
  BY <1>3, <1>4 DEF Empty, ClaimsOK, VerificationsOK, LastOK
<1>6. FieldsOK
  <2>1. 0 <= MaxLines
    BY ParserAssumption
  <2>2. goal \in Seq(Nat) /\ DOMAIN goal = {} /\ DOMAIN claims = {} /\ DOMAIN verifications = {}
    BY DEF Empty
  <2>3. /\ headers = {} /\ inGoal = FALSE /\ pendingVerify = NoVerify
        /\ pendingForbid = 0 /\ forbids = 0 /\ lastUsing = 0
    BY DEF Empty
  <2>4. {pendingForbid, forbids, lastUsing} \subseteq 0..Len(source)
    BY <1>1, <2>3
  <2>5. inGoal \in BOOLEAN /\ headers \subseteq Headers
    BY <2>3
  <2>6. pendingVerify \in [claim : Id, line : DOMAIN source] \cup {NoVerify}
    BY <2>3
  <2>7. Len(source) <= MaxLines
    BY <1>1, <2>1
  <2> QED BY <1>1, <2>2, <2>4, <2>5, <2>6, <2>7, Zenon DEF FieldsOK
<1> QED BY <1>2, <1>5, <1>6 DEF SourceOK

\* The invariant is about what parse keeps.
LEMMA SourceUnchanged ==
  ASSUME SourceOK, UNCHANGED parsing
  PROVE  SourceOK'
<1>1. /\ source' = source /\ headers' = headers /\ inGoal' = inGoal /\ goal' = goal
      /\ claims' = claims /\ verifications' = verifications /\ pendingVerify' = pendingVerify
      /\ pendingForbid' = pendingForbid /\ forbids' = forbids /\ lastUsing' = lastUsing
      /\ condition' = condition
  BY DEF parsing
<1>2. ASSUME NEW i
      PROVE  (EndsGoal(i)' <=> EndsGoal(i)) /\ (IsProse(i)' <=> IsProse(i))
  <2>1. \A n : EndsGoal(n)' <=> EndsGoal(n)
    BY <1>1 DEF EndsGoal
  <2>2. \A g : Clear(g, i, EndsGoal)' <=> Clear(g, i, EndsGoal)
    BY <2>1 DEF Clear
  <2> QED BY <1>1, <2>1, <2>2 DEF IsProse
<1>3. ASSUME NEW i PROVE (Late(i)' <=> Late(i)) /\ (BareForbid(i)' <=> BareForbid(i))
  BY <1>1, <1>2 DEF Late, BareForbid
<1>4. ASSUME NEW i PROVE IsForbidText(i)' <=> IsForbidText(i)
  <2>1. \A f : Clear(f, i, Late)' <=> Clear(f, i, Late)
    BY <1>3 DEF Clear
  <2> QED BY <1>3, <2>1 DEF IsForbidText
<1>5. ASSUME NEW i
      PROVE  /\ \A dir : Says(i, dir)' <=> Says(i, dir)
             /\ Forbids(i)' <=> Forbids(i)
             /\ Declares(i)' <=> Declares(i)
             /\ Waits(i)' <=> Waits(i)
             /\ Inline(i)' <=> Inline(i)
             /\ Completes(i)' <=> Completes(i)
             /\ Substance(i)' <=> Substance(i)
  <2>1. \A dir : Says(i, dir)' <=> Says(i, dir)
    BY <1>1, <1>2, <1>4 DEF Says
  <2>2. Forbids(i)' <=> Forbids(i)
    BY <1>1, <1>4, <2>1 DEF Forbids
  <2>3. (Waits(i)' <=> Waits(i)) /\ (Inline(i)' <=> Inline(i))
    BY <1>1, <2>1 DEF Waits, Inline
  <2> QED BY <1>1, <2>1, <2>2, <2>3 DEF Declares, Completes, Substance
<1>6. Forbidding' = Forbidding /\ Declaring' = Declaring /\ Completing' = Completing
  BY <1>1, <1>5 DEF Forbidding, Declaring, Completing
<1>7. GoalOK' /\ ForbidOK'
  <2>1. \A g : Clear(g, Here, EndsGoal)' <=> Clear(g, Here, EndsGoal)
    BY <1>1, <1>2 DEF Clear, Here
  <2>2. \A f : Clear(f, Here, Late)' <=> Clear(f, Here, Late)
    BY <1>1, <1>3 DEF Clear, Here
  <2> QED BY <1>1, <1>3, <2>1, <2>2 DEF SourceOK, GoalOK, ForbidOK
<1>8. ClaimsOK'
  <2>1. ASSUME NEW i PROVE Declared(i)' = Declared(i)
    BY <1>1, <1>5, <1>6 DEF Declared
  <2> QED BY <1>1, <1>6, <2>1 DEF SourceOK, ClaimsOK, Written
<1>9. PendingOK'
  <2>1. ASSUME NEW v PROVE Clear(v, Here, Waits)' <=> Clear(v, Here, Waits)
    BY <1>1, <1>5 DEF Clear, Here
  <2>2. PICK v : v = pendingVerify.line
    OBVIOUS
  <2>3. pendingVerify # NoVerify => v \in DOMAIN source /\ Waits(v)
          /\ pendingVerify.claim = source[v].id /\ Clear(v, Here, Waits)
    BY <2>2 DEF SourceOK, PendingOK
  <2>4. pendingVerify'.line = v
    BY <1>1, <2>2
  <2> QED BY <1>1, <1>5, <2>1, <2>3, <2>4 DEF PendingOK
<1>10. LastOK'
  BY <1>1, <1>6 DEF SourceOK, LastOK
<1>11. ASSUME NEW v, NEW i PROVE Clear(v, i, Substance)' <=> Clear(v, i, Substance)
  BY <1>5 DEF Clear
<1>12. VerificationsOK'
  <2>1. ASSUME NEW i PROVE VerifyOf(i)' = VerifyOf(i) /\ Obligation(i)' = Obligation(i)
    <3>1. \A v : Clear(v, i, Waits)' <=> Clear(v, i, Waits)
      BY <1>5 DEF Clear
    <3>2. Waiting(i)' = Waiting(i)
      BY <1>5, <3>1 DEF Waiting
    <3>3. VerifyOf(i)' = VerifyOf(i)
      BY <1>5, <3>2 DEF VerifyOf
    <3>4. Requiring(i)' = Requiring(i)
      BY <1>1, <1>5, <1>11 DEF Requiring
    <3>5. RequirementOf(i)' = RequirementOf(i)
      BY <1>1, <3>4 DEF RequirementOf
    <3> QED BY <1>1, <3>3, <3>5 DEF Obligation
  <2> QED BY <1>1, <1>6, <2>1 DEF SourceOK, VerificationsOK, CompiledVerification
<1>13. ReservedOK'
  BY <1>1, <1>5, <1>11 DEF SourceOK, ReservedOK
<1>14. AcceptOK'
  <2>1. ASSUME NEW i
        PROVE  /\ Open(i)' <=> Open(i)
               /\ Clauses(i)' = Clauses(i)
    <3>1. Continued(i)' = Continued(i)
      BY <1>1 DEF Continued
    <3>2. \A n : ClausesOf(n)' = ClausesOf(n)
      BY <1>1 DEF ClausesOf
    <3> QED BY <1>1, <3>1, <3>2 DEF Open, Clauses
  <2>2. \A p : ClauseAt(p)' = ClauseAt(p)
    BY <1>1 DEF ClauseAt
  <2>3. ASSUME NEW i PROVE Supported(i)' <=> Supported(i)
    BY <2>1, <2>2 DEF Supported
  <2>4. ASSUME NEW f, NEW i PROVE Enumerates(f, i)' <=> Enumerates(f, i)
    BY <1>1, <2>1, <2>2 DEF Enumerates
  <2> QED BY <1>1, <1>5, <2>1, <2>3, <2>4 DEF SourceOK, AcceptOK
<1>15. ConditionOK'
  BY <1>1 DEF SourceOK, ConditionOK
<1>16. FieldsOK'
  BY <1>1 DEF SourceOK, FieldsOK, ClaimFits, VerificationFits
<1> QED BY <1>7, <1>8, <1>9, <1>10, <1>12, <1>13, <1>14, <1>15, <1>16 DEF SourceOK

\* A line that is no error keeps what is said of the source.
LEMMA LineKeeps ==
  ASSUME NEW l \in Lines, ParserOK, SourceOK, ReadLine(l), ~LineRefused(l)
  PROVE  SourceOK'
<1>1. PICK h : h = Here
  OBVIOUS
<1>2. Accepted(l) /\ Grown(l, h) /\ Len(source) < MaxLines
  BY <1>1 DEF ReadLine, Accepted, Grown, ParserOK
<1>3. GoalOK /\ ForbidOK /\ ConditionOK /\ ClaimsOK /\ PendingOK /\ LastOK /\ VerificationsOK
      /\ ReservedOK /\ AcceptOK /\ FieldsOK
  BY DEF SourceOK
<1>4. GoalOK' /\ ForbidOK' /\ ConditionOK'
  BY <1>2, <1>3, GoalStays, ForbidStays, ConditionStays
<1>5. ClaimsOK'
  BY <1>2, <1>3, ClaimsStay
<1>6. PendingOK' /\ LastOK' /\ VerificationsOK'
  BY <1>2, <1>3, PendingStays, LastStays, VerificationsStay
<1>7. ReservedOK' /\ AcceptOK'
  BY <1>2, <1>3, ReservedStays, AcceptStays
<1>8. FieldsOK'
  BY <1>2, <1>3, FieldsStay
<1> QED BY <1>4, <1>5, <1>6, <1>7, <1>8 DEF SourceOK

LEMMA SStepKeeps ==
  ASSUME SInv, [Next]_vars, SourceOK', CInv'
  PROVE  SInv'
<1>1. CASE UNCHANGED vars
  <2>1. phase' = phase /\ ir' = ir /\ condition' = condition
    BY <1>1 DEF vars, parserVars, parsing
  <2> QED BY <2>1 DEF SInv, ContractRead, ConditionRefused
<1>2. CASE Refuse /\ ir' = ir /\ ir = NoIr
  BY <1>2 DEF Refuse, SInv, ContractRead
<1>3. ASSUME NEW l \in Lines, ReadLine(l), UNCHANGED <<ir, report>>
      PROVE  SInv'
  <2>1. phase = "reading" /\ ir' = ir
    BY <1>3 DEF ReadLine
  <2>2. Refuse \/ phase' = phase
    BY <1>3 DEF ReadLine
  <2> QED BY <1>2, <2>1, <2>2 DEF SInv, ContractRead
<1>4. CASE EndOfSource /\ UNCHANGED <<ir, report>>
  <2>1. phase = "reading" /\ ir' = ir /\ ir = NoIr
    BY <1>4 DEF EndOfSource, SInv
  <2>2. CASE SourceRefused
    BY <1>2, <1>4, <2>1, <2>2 DEF EndOfSource
  <2>3. CASE ~SourceRefused
    <3>1. phase' = "parsed" /\ condition' = condition
      BY <1>4, <2>3 DEF EndOfSource, parsing
    <3>2. condition = NoCondition \/ ~ConditionRefused(condition)
      BY <2>3 DEF SourceRefused
    <3>3. condition' = NoCondition \/ ~ConditionRefused(condition)'
      BY <3>1, <3>2 DEF ConditionRefused
    <3> QED BY <2>1, <3>1, <3>3 DEF SInv
  <2> QED BY <2>2, <2>3
<1>5. CASE Compile
  <2>1. phase = "parsed" /\ ir = NoIr
    BY <1>5 DEF Compile, SInv
  <2>2. CASE Duplicated
    BY <1>2, <1>5, <2>1, <2>2 DEF Compile
  <2>3. CASE ~Duplicated
    <3>1. phase' = "compiled" /\ condition' = condition
      BY <1>5, <2>3 DEF Compile, parsing
    <3>2. condition = NoCondition \/ ~ConditionRefused(condition)
      BY <2>1 DEF SInv, ContractRead
    <3>3. condition' = NoCondition \/ ~ConditionRefused(condition)'
      BY <3>1, <3>2 DEF ConditionRefused
    <3> QED BY <3>1, <3>3 DEF SInv
  <2> QED BY <2>2, <2>3
<1>6. CASE Preflight
  <2>1. phase = "compiled" /\ phase' \in {"linted", "briefed"} /\ condition' = condition
    BY <1>6 DEF Preflight, Lint, Brief, parsing
  <2>2. condition = NoCondition \/ ~ConditionRefused(condition)
    BY <2>1 DEF SInv, ContractRead
  <2>3. condition' = NoCondition \/ ~ConditionRefused(condition)'
    BY <2>1, <2>2 DEF ConditionRefused
  <2> QED BY <2>1, <2>3 DEF SInv
<1> QED BY <1>1, <1>3, <1>4, <1>5, <1>6 DEF Next

LEMMA SInvHolds == Spec => []SInv
<1>1. Init => SInv
  <2> SUFFICES ASSUME Init PROVE SInv
    OBVIOUS
  <2>1. Empty /\ phase = "reading" /\ ir = NoIr
    BY DEF Init, ParserInit, Empty
  <2>2. SourceOK
    BY <2>1, EmptyOK
  <2>3. NoVerify \in [claim : Ids, line : Nat]
    BY DEF NoVerify, Ids
  <2>4. CInv
    BY <2>1, <2>3 DEF Empty, CInv, ParserOK
  <2> QED BY <2>1, <2>2, <2>4 DEF SInv, ContractRead
<1>2. Empty' => SourceOK'
  BY EmptyOK, PTL
<1>3. SInv /\ [Next]_vars => SInv'
  <2> SUFFICES ASSUME SInv, [Next]_vars PROVE SInv'
    OBVIOUS
  <2>1. CInv /\ SourceOK /\ ParserOK
    BY DEF SInv, CInv
  <2>2. CInv'
    BY <2>1, StepKeeps
  <2>3. CASE UNCHANGED parsing
    BY <2>1, <2>2, <2>3, SourceUnchanged, SStepKeeps
  <2>4. CASE Refuse
    <3>1. Empty'
      BY <2>4 DEF Refuse, Empty
    <3> QED BY <1>2, <2>2, <3>1, SStepKeeps
  <2>5. ASSUME NEW l \in Lines, ReadLine(l), ~LineRefused(l) PROVE SInv'
    BY <2>1, <2>2, <2>5, LineKeeps, SStepKeeps
  <2>6. UNCHANGED parsing \/ Refuse \/ \E l \in Lines : ReadLine(l) /\ ~LineRefused(l)
    <3>1. CASE UNCHANGED vars
      BY <3>1 DEF vars, parserVars
    <3>2. CASE \E l \in Lines : ReadLine(l) /\ UNCHANGED <<ir, report>>
      BY <3>2 DEF ReadLine
    <3>3. CASE EndOfSource /\ UNCHANGED <<ir, report>>
      BY <3>3 DEF EndOfSource
    <3>4. CASE Compile
      BY <3>4 DEF Compile
    <3>5. CASE Preflight
      BY <3>5 DEF Preflight
    <3> QED BY <3>1, <3>2, <3>3, <3>4, <3>5 DEF Next
  <2> QED BY <2>3, <2>4, <2>5, <2>6
<1> QED BY <1>1, <1>3, PTL DEF Spec

(***************************************************************************)
(* parse of crates/uni-parser keeps what the contract's model and the      *)
(* commands after it take for granted: ids and texts of the source, lines  *)
(* that exist, a critical claim that is a required invariant.              *)
(***************************************************************************)
THEOREM ContractTyped == Spec => []TypeOK
<1>1. SInv => TypeOK
  <2> SUFFICES ASSUME SInv PROVE TypeOK
    OBVIOUS
  <2>1. source \in Seq(Lines) /\ Len(source) \in Nat
    BY DEF SInv, CInv, ParserOK
  <2>2. FieldsOK /\ ConditionOK
    BY DEF SInv, SourceOK
  <2>3. Len(source) \in 0..MaxLines
    BY <2>1, <2>2, ParserAssumption DEF FieldsOK
  <2>4. condition = NoCondition \/ condition \in Seq({"required", "critical", "AND", "other"})
    BY <2>2 DEF ConditionOK
  <2>5. Len(ir.claims) \in {0, Len(claims)}
    <3>1. CASE ir = NoIr
      BY <3>1 DEF NoIr
    <3>2. CASE IrOfContract
      <4>1. claims \in Seq(ClaimRecord)
        BY DEF SInv, CInv, ParserOK
      <4>2. Len(claims) \in Nat /\ DOMAIN claims = 1..Len(claims)
        BY <4>1
      <4>3. ir.claims = [i \in 1..Len(claims) |-> CompiledClaim(claims[i])]
        BY <3>2, <4>2 DEF IrOfContract, MapSeq
      <4> QED BY <4>2, <4>3
    <3> QED BY <3>1, <3>2 DEF SInv, CInv
  <2>6. phase \in {"reading", "refused", "parsed", "compiled", "linted", "briefed"}
    BY DEF SInv
  <2> QED BY <2>1, <2>2, <2>3, <2>4, <2>5, <2>6 DEF TypeOK, FieldsOK, ClaimFits, VerificationFits
<1> QED BY <1>1, SInvHolds, PTL

(***************************************************************************)
(* push_claim and forbid_count of crates/uni-parser: the contract holds    *)
(* the claims of its source, whatever the source.                          *)
(***************************************************************************)
THEOREM ClaimsOfTheSource == Spec => []ClaimsAsWritten
<1>1. SInv => ClaimsAsWritten
  BY DEF SInv, SourceOK, ClaimsOK, ClaimsAsWritten, Written
<1> QED BY <1>1, SInvHolds, PTL

(***************************************************************************)
(* push_verification and the REQUIRE rule of crates/uni-parser: every      *)
(* verification is the one written, with the requirement written under it. *)
(***************************************************************************)
THEOREM ObligationsOfTheSource == Spec => []ObligationsAsWritten
<1>1. SInv => ObligationsAsWritten
  BY DEF SInv, SourceOK, VerificationsOK, ObligationsAsWritten
<1> QED BY <1>1, SInvHolds, PTL

(***************************************************************************)
(* validate_accept_condition and the reserved directives of                *)
(* crates/uni-parser: a contract that is read promises nothing inert.      *)
(***************************************************************************)
THEOREM NothingInertRead == Spec => []NothingInert
<1>1. SInv => NothingInert
  <2> SUFFICES ASSUME SInv, ContractRead, NEW i \in DOMAIN source, Says(i, "ACCEPT WHEN")
               PROVE  Supported(i)
    BY DEF SInv, SourceOK, ReservedOK, NothingInert
  <2>1. CASE Open(i)
    <3>1. condition # NoCondition /\ ConditionOK
      BY <2>1 DEF SInv, SourceOK, AcceptOK
    <3>2. PICK f : Enumerates(f, i)
      BY <2>1 DEF SInv, SourceOK, AcceptOK
    <3>3. ~ConditionRefused(condition)
      BY <3>1 DEF SInv
    <3> QED BY <3>1, <3>2, <3>3, ConditionSupported
  <2>2. CASE ~Open(i)
    BY <2>2 DEF SInv, SourceOK, AcceptOK
  <2> QED BY <2>1, <2>2
<1> QED BY <1>1, SInvHolds, PTL
=============================================================================
