----------------------------- MODULE MCContract -----------------------------
(***************************************************************************)
(* Instances of ContractProperties for TLC: the lines of small contracts,  *)
(* good and bad.                                                           *)
(***************************************************************************)
EXTENDS ContractProperties

Line(dir) ==
  [dir |-> dir, word |-> TRUE, id |-> NoId, modifiers |-> {}, ref |-> NoHash,
   inline |-> NoHash, text |-> "", clauses |-> <<>>]

A == <<"a", 0>>
F == ForbidId(1)
Ids == {A, F}
Texts == {"r"}
Header1 == {<<"INTENT", 0>>}

\* Free text; CLAIMANT, which has the letters of CLAIM; a clause of ACCEPT WHEN.
Text1 == [Line("OTHER") EXCEPT !.word = FALSE]
Claimant == [Line("CLAIM") EXCEPT !.word = FALSE, !.id = A]
Clause(clauses) == [Line("CLAUSE") EXCEPT !.word = FALSE, !.clauses = clauses]

UsingTests == [Line("USING") EXCEPT !.word = FALSE, !.ref = "t"]
UsingShell == [UsingTests EXCEPT !.ref = "shell", !.inline = "cmd"]

INTENT == [Line("HEADER") EXCEPT !.id = <<"INTENT", 0>>]

ManyLines == {[Line("COMMENT") EXCEPT !.word = FALSE], UsingTests}

AllLines == ManyLines \cup
  {INTENT, Line("BLANK"), Line("GOAL"), Text1, Claimant,
   [Line("CLAIM") EXCEPT !.id = A],
   [Line("CLAIM") EXCEPT !.id = F, !.modifiers = {"OPTIONAL"}],
   [Line("CLAIM") EXCEPT !.id = A, !.modifiers = {"CRITICAL"}],
   [Line("INVARIANT") EXCEPT !.id = A, !.modifiers = {"CRITICAL"}],
   Line("ENSURE"),
   Line("FORBID"), [Line("FORBID") EXCEPT !.text = "r"],
   [Line("VERIFY") EXCEPT !.id = A],
   [Line("VERIFY") EXCEPT !.id = A, !.ref = "t"],
   [Line("VERIFY") EXCEPT !.id = F, !.ref = "tt"],
   UsingShell,
   Line("REQUIRE"), [Line("REQUIRE") EXCEPT !.text = "r"],
   Line("REJECT WHEN"),
   Line("ACCEPT WHEN"), Clause(<<"required">>), Clause(<<"AND", "critical">>)}

First == <<INTENT>>

Tests == ShellSpec("tests")
Template == [Tests EXCEPT !.kind = "string", !.template = TRUE]
Tomls == {NoHash, [x \in {"t"} |-> Tests], [x \in {"t", "tt"} |-> IF x = "tt" THEN Template ELSE Tests]}

Bound(ref, requirement, selector) ==
  [verifier_ref |-> ref, requirement |-> requirement, selector |-> selector]
Tables ==
  {[c \in Ids |-> b] : b \in {NoHash, Bound("t", "r", NoHash), Bound("tt", NoHash, "name"),
                              Bound("t", NoHash, NoHash)}}
Pinned == {"pinned"}
Unused == NoHash
=============================================================================
