------------------------------- MODULE Parser -------------------------------
(***************************************************************************)
(* The contract language: `parse` of crates/uni-parser, reading a source   *)
(* line by line.  Every order of lines up to MaxLines is a source.         *)
(*                                                                         *)
(* A line is a record: `dir` is the rule its first letters select, `word`  *)
(* says whether these letters are a whole word of the vocabulary (CLAIMANT *)
(* has the letters of CLAIM and is no directive), the other fields are what*)
(* the rule reads.  A claim id is <<name, number>>, forbid-1 is            *)
(* <<"forbid", 1>>; a text is the number of the line it stands on.         *)
(***************************************************************************)
EXTENDS Sequences, FiniteSets, SequencesExt, Evidence   \* NoHash: an absent Option

CONSTANTS
  Lines,      \* the lines a source is made of
  Often,      \* those of them that may occur more than once
  Headers,    \* VERSION, DOMAIN and INTENT
  Opening,    \* bound: the lines every source begins with
  MaxLines    \* bound: the length of a source

ASSUME ParserAssumption ==
  /\ Often \subseteq Lines /\ Opening \in Seq(Lines)
  /\ MaxLines \in Nat
  /\ \A l \in Lines :
       /\ l.ref = "shell" => l.inline # NoHash   \* its command, if empty
       /\ l.dir = "HEADER" => l.id \in Headers
       /\ l.clauses \in Seq({"required", "critical", "AND", "other"})

VARIABLES
  source,         \* the lines read so far
  phase,          \* "reading", "refused", or what has been made of the source
  headers,        \* the headers seen
  inGoal, goal,   \* in_goal; the lines of the goal
  claims, verifications,
  pendingVerify,  \* [claim, line] of a VERIFY that waits for its USING
  pendingForbid,  \* line of a bare FORBID that waits for its text, or 0
  forbids,        \* forbid_count
  lastUsing,      \* last_using_line, or 0
  condition       \* the clauses of an ACCEPT WHEN that may go on, or NoCondition

parsing == <<source, headers, inGoal, goal, claims, verifications, pendingVerify,
             pendingForbid, forbids, lastUsing, condition>>
parserVars == <<phase, parsing>>

NoId == <<>>
NoVerify == [claim |-> NoId, line |-> 0]
NoCondition == <<"none">>

ParserInit ==
  /\ source = <<>> /\ phase = "reading"
  /\ headers = {} /\ inGoal = FALSE /\ goal = <<>>
  /\ claims = <<>> /\ verifications = <<>>
  /\ pendingVerify = NoVerify /\ pendingForbid = 0 /\ forbids = 0 /\ lastUsing = 0
  /\ condition = NoCondition

\* An error ends the command: nothing of the contract is left.
Refuse ==
  /\ phase' = "refused"
  /\ source' = <<>> /\ headers' = {} /\ inGoal' = FALSE /\ goal' = <<>>
  /\ claims' = <<>> /\ verifications' = <<>>
  /\ pendingVerify' = NoVerify /\ pendingForbid' = 0 /\ forbids' = 0 /\ lastUsing' = 0
  /\ condition' = NoCondition

Here == Len(source) + 1

\* Rules that come before the goal, and before the text of a bare FORBID.
FirstRules == {"USING", "BLANK", "COMMENT", "HEADER", "GOAL"}
EarlyRules == FirstRules \cup {"CLAIM", "INVARIANT", "ENSURE", "FORBID"}

\* Goal text: anything up to a blank line or the first word of the vocabulary.
Prose(l) == inGoal /\ l.dir \notin FirstRules /\ ~l.word

Forbidden(l) == pendingForbid # 0 /\ l.dir \notin EarlyRules /\ ~Prose(l)

\* The line is read by the rule of its directive.
Rule(l, dir) == l.dir = dir /\ ~Prose(l) /\ ~Forbidden(l)

-----------------------------------------------------------------------------
(***************************************************************************)
(* What makes a line a hard error.                                         *)
(***************************************************************************)
\* push_verification: `shell` takes a command, a registry key may quote one.
UsingRefused(claim, l) == claim = NoId \/ l.ref = ""

\* Mutant of ConditionRefused: nothing has to be asked for.
ConditionRefusedForm(clauses) ==
  \/ \E i \in DOMAIN clauses : clauses[i] = "other"
  \/ \E i \in 1..Len(clauses) - 1 : clauses[i] # "AND" /\ clauses[i + 1] # "AND"

\* validate_accept_condition: clauses joined by AND, required_claims exactly once.
ConditionRefused(clauses) ==
  \/ \E i \in DOMAIN clauses : clauses[i] = "other"
  \/ \E i \in 1..Len(clauses) - 1 : clauses[i] # "AND" /\ clauses[i + 1] # "AND"
  \/ Cardinality({i \in DOMAIN clauses : clauses[i] = "required"}) # 1

Gap(l) == l.dir \in {"BLANK", "COMMENT"}

\* Mutant of RequireRefused: the lines in between are not looked at.
RequireRefusedAnywhere(l) ==
  \/ l.text = ""
  \/ pendingVerify # NoVerify
  \/ lastUsing = 0
  \/ Last(verifications).requirement # NoHash

\* Mutant of RequireRefused: an empty requirement is taken.
RequireRefusedButEmpty(l) ==
  \/ pendingVerify # NoVerify
  \/ lastUsing = 0
  \/ \E i \in lastUsing + 1..Len(source) : ~Gap(source[i])
  \/ Last(verifications).requirement # NoHash

\* REQUIRE belongs to the VERIFY/USING block right above it.
RequireRefused(l) ==
  \/ l.text = ""
  \/ pendingVerify # NoVerify
  \/ lastUsing = 0
  \/ \E i \in lastUsing + 1..Len(source) : ~Gap(source[i])
  \/ Last(verifications).requirement # NoHash

ClaimRefused(l) == l.id = NoId \/ ~(l.modifiers \subseteq {"REQUIRED", "OPTIONAL"})
InvariantRefused(l) == l.id = NoId \/ ~(l.modifiers \subseteq {"CRITICAL"})

LineRefused(l) ==
  \/ condition # NoCondition /\ l.dir # "CLAUSE" /\ ConditionRefused(condition)
  \/ l.dir = "USING" /\ (pendingVerify = NoVerify \/ UsingRefused(pendingVerify.claim, l))
  \/ Rule(l, "CLAIM") /\ ClaimRefused(l)
  \/ Rule(l, "INVARIANT") /\ InvariantRefused(l)
  \/ Rule(l, "ENSURE") /\ claims = <<>>
  \/ Rule(l, "VERIFY") /\ (l.id = NoId \/ (l.ref # NoHash /\ UsingRefused(l.id, l)))
  \/ Rule(l, "REQUIRE") /\ RequireRefused(l)
  \/ Rule(l, "REJECT WHEN") \/ Rule(l, "ESCALATE WHEN") \/ Rule(l, "OTHER")
  \/ Rule(l, "CLAUSE") /\ condition = NoCondition

-----------------------------------------------------------------------------
(***************************************************************************)
(* One action per rule.  LineFinished ends an ACCEPT WHEN: its condition   *)
(* goes on over the lines that start like one of its clauses.              *)
(***************************************************************************)
LineFinished == condition' = NoCondition

Claimed(id, kind, required, critical, ensure, line) ==
  claims' = Append(claims, [id |-> id, kind |-> kind, required |-> required,
                            critical |-> critical, ensure |-> ensure, line |-> line])

Verified(claim, l, line) ==
  /\ verifications' = Append(verifications,
       [claim |-> claim, verifier_ref |-> l.ref, inline_shell |-> l.inline,
        requirement |-> NoHash, line |-> line])
  /\ lastUsing' = Here

Using(l) ==
  /\ l.dir = "USING"
  /\ Verified(pendingVerify.claim, l, pendingVerify.line)
  /\ pendingVerify' = NoVerify
  /\ LineFinished
  /\ UNCHANGED <<headers, inGoal, goal, claims, pendingForbid, forbids>>

BlankOrComment(l) ==
  /\ Gap(l)
  /\ inGoal' = (inGoal /\ l.dir = "COMMENT")
  /\ LineFinished
  /\ UNCHANGED <<headers, goal, claims, verifications, pendingVerify, pendingForbid, forbids, lastUsing>>

Header(l) ==
  /\ l.dir = "HEADER"
  /\ headers' = headers \cup {l.id}
  /\ inGoal' = FALSE
  /\ LineFinished
  /\ UNCHANGED <<goal, claims, verifications, pendingVerify, pendingForbid, forbids, lastUsing>>

Goal(l) ==
  /\ l.dir = "GOAL" \/ Prose(l)
  /\ inGoal' = TRUE
  /\ goal' = IF Prose(l) THEN Append(goal, Here) ELSE goal
  /\ LineFinished
  /\ UNCHANGED <<headers, claims, verifications, pendingVerify, pendingForbid, forbids, lastUsing>>

\* OPTIONAL wins over REQUIRED; an INVARIANT is always required.
Claim(l) ==
  /\ Rule(l, "CLAIM")
  /\ Claimed(l.id, "claim", "OPTIONAL" \notin l.modifiers, FALSE, 0, Here)
  /\ inGoal' = FALSE
  /\ LineFinished
  /\ UNCHANGED <<headers, goal, verifications, pendingVerify, pendingForbid, forbids, lastUsing>>

\* Mutant of Invariant: CRITICAL is accepted and thrown away.
InvariantNotCritical(l) ==
  /\ Rule(l, "INVARIANT")
  /\ Claimed(l.id, "invariant", TRUE, FALSE, 0, Here)
  /\ inGoal' = FALSE
  /\ LineFinished
  /\ UNCHANGED <<headers, goal, verifications, pendingVerify, pendingForbid, forbids, lastUsing>>

Invariant(l) ==
  /\ Rule(l, "INVARIANT")
  /\ Claimed(l.id, "invariant", TRUE, "CRITICAL" \in l.modifiers, 0, Here)
  /\ inGoal' = FALSE
  /\ LineFinished
  /\ UNCHANGED <<headers, goal, verifications, pendingVerify, pendingForbid, forbids, lastUsing>>

Ensure(l) ==
  /\ Rule(l, "ENSURE")
  /\ claims' = [claims EXCEPT ![Len(claims)].ensure = Here]
  /\ inGoal' = FALSE
  /\ LineFinished
  /\ UNCHANGED <<headers, goal, verifications, pendingVerify, pendingForbid, forbids, lastUsing>>

ForbidId(n) == <<"forbid", n>>

\* FORBID with its expression, a bare FORBID, and the text of a bare one.
Forbid(l) ==
  /\ Rule(l, "FORBID")
  /\ IF l.text # ""
     THEN /\ Claimed(ForbidId(forbids + 1), "invariant", TRUE, TRUE, Here, Here)
          /\ forbids' = forbids + 1
          /\ UNCHANGED pendingForbid
     ELSE /\ pendingForbid' = Here
          /\ UNCHANGED <<claims, forbids>>
  /\ inGoal' = FALSE
  /\ LineFinished
  /\ UNCHANGED <<headers, goal, verifications, pendingVerify, lastUsing>>

ForbidText(l) ==
  /\ Forbidden(l)
  /\ Claimed(ForbidId(forbids + 1), "invariant", TRUE, TRUE, Here, pendingForbid)
  /\ forbids' = forbids + 1
  /\ pendingForbid' = 0
  /\ inGoal' = FALSE
  /\ LineFinished
  /\ UNCHANGED <<headers, goal, verifications, pendingVerify, lastUsing>>

Verify(l) ==
  /\ Rule(l, "VERIFY")
  /\ IF l.ref # NoHash
     THEN Verified(l.id, l, Here) /\ UNCHANGED pendingVerify
     ELSE /\ pendingVerify' = [claim |-> l.id, line |-> Here]
          /\ UNCHANGED <<verifications, lastUsing>>
  /\ inGoal' = FALSE
  /\ LineFinished
  /\ UNCHANGED <<headers, goal, claims, pendingForbid, forbids>>

AcceptWhen(l) ==
  /\ \/ Rule(l, "ACCEPT WHEN") /\ condition' = l.clauses
     \/ l.dir = "CLAUSE" /\ condition # NoCondition /\ condition' = condition \o l.clauses
  /\ inGoal' = FALSE
  /\ UNCHANGED <<headers, goal, claims, verifications, pendingVerify, pendingForbid, forbids, lastUsing>>

Require(l) ==
  /\ Rule(l, "REQUIRE")
  /\ verifications' = [verifications EXCEPT ![Len(verifications)].requirement = l.text]
  /\ inGoal' = FALSE
  /\ LineFinished
  /\ UNCHANGED <<headers, goal, claims, pendingVerify, pendingForbid, forbids, lastUsing>>

ReadLine(l) ==
  /\ phase = "reading"
  /\ Len(source) < MaxLines
  /\ Here \in DOMAIN Opening => l = Opening[Here]
  /\ l \in Often \/ \A i \in DOMAIN source : source[i] # l
  /\ IF LineRefused(l)
     THEN Refuse
     ELSE /\ source' = Append(source, l)
          /\ \/ Using(l) \/ BlankOrComment(l) \/ Header(l) \/ Goal(l)
             \/ Claim(l) \/ Invariant(l) \/ Ensure(l) \/ Forbid(l) \/ ForbidText(l)
             \/ Verify(l) \/ AcceptWhen(l) \/ Require(l)
          /\ UNCHANGED phase

(***************************************************************************)
(* The end of the source: a VERIFY that still waits for its USING and a    *)
(* bare FORBID without text are forgotten.                                 *)
(***************************************************************************)
SourceRefused ==
  \/ condition # NoCondition /\ ConditionRefused(condition)
  \/ headers # Headers
  \/ claims = <<>>
  \/ \E i \in DOMAIN verifications :
       \A k \in DOMAIN claims : claims[k].id # verifications[i].claim

EndOfSource ==
  /\ phase = "reading"
  /\ IF SourceRefused
     THEN Refuse
     ELSE phase' = "parsed" /\ UNCHANGED parsing
=============================================================================
