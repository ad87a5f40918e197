------------------------------ MODULE MCVerify ------------------------------
(***************************************************************************)
(* Small instances of Verify for TLC.                                      *)
(*                                                                         *)
(* k1  a critical claim proved by a shell command that watches nothing and *)
(*     expires, and a required claim proved by file hashes                 *)
(* k2  a claim with a requirement, proved by a template: needs a binding   *)
(* k3  the claim proved by file hashes alone                               *)
(* k4  a claim proved by an inline command and by a verifier whose entry   *)
(*     is not usable                                                       *)
(* k5  a critical claim with two verifications                             *)
(* k6  a claim with a requirement, proved by file hashes: the selector of  *)
(*     its binding runs nothing, only the binding's hash tells it          *)
(*                                                                         *)
(* Registry g2 differs from g1 in the expected hash only; g0 does not      *)
(* parse.  The inline command passes on t1 and t3, the suite everywhere    *)
(* with its test, the file hashes of g1 on t1 and those of g2 on t3.       *)
(***************************************************************************)
EXTENDS VerifyProperties, TLC

Spec0(kind, cmd, template, files, sum) ==
  [kind |-> kind, run |-> cmd, template |-> template, selector |-> NoHash,
   expect |-> NoHash, files |-> files, expect_sha256 |-> sum, max_age |-> 0]

Unit  == [Spec0("shell", "test", FALSE, NoHash, NoHash) EXCEPT !.max_age = 1]
Suite == Spec0("shell", "suite", TRUE, "src", NoHash)
Sum(h) == Spec0("file-hash", "", FALSE, "src", h)

Table(h) ==
  [unit |-> Unit, suite |-> Suite, sum |-> Sum(h), empty |-> Sum(NoHash)]

MCVerifiers == [g0 |-> NoHash, g1 |-> Table("h1"), g2 |-> Table("h2")]

V(c, ref, inline, req) ==
  [claim |-> c, verifier_ref |-> ref, inline_shell |-> inline, requirement |-> req]

MCIr ==
  [k1 |-> [claims |-> {"a", "b"}, required |-> {"b"}, critical |-> {"a"},
           plan |-> <<V("a", "unit", NoHash, NoHash), V("b", "sum", NoHash, NoHash)>>],
   k2 |-> [claims |-> {"a"}, required |-> {"a"}, critical |-> {},
           plan |-> <<V("a", "suite", NoHash, "behavior")>>],
   k3 |-> [claims |-> {"b"}, required |-> {"b"}, critical |-> {},
           plan |-> <<V("b", "sum", NoHash, NoHash)>>],
   k4 |-> [claims |-> {"a"}, required |-> {"a"}, critical |-> {},
           plan |-> <<V("a", "shell", "test", NoHash), V("a", "empty", NoHash, NoHash)>>],
   k5 |-> [claims |-> {"b"}, required |-> {}, critical |-> {"b"},
           plan |-> <<V("b", "unit", NoHash, NoHash), V("b", "sum", NoHash, NoHash)>>],
   k6 |-> [claims |-> {"a"}, required |-> {"a"}, critical |-> {},
           plan |-> <<V("a", "sum", NoHash, "behavior")>>]]

Bound(ref, requirement, selector) ==
  [verifier_ref |-> ref, requirement |-> requirement, selector |-> selector]

MCBinding == {Bound("suite", r, "sel") : r \in {"behavior", "other"}}

\* A claim bound to one verifier, rebound to another selector, another
\* requirement, another verifier.
MCRebinding ==
  {Bound("suite", "behavior", "sel"), Bound("sum", "other", NoHash)}
  \cup {Bound("sum", "behavior", s) : s \in {NoHash, "sel"}}

\* Nothing reads the binding of the other claim, and nothing reads a binding
\* while no claim of the contract has a requirement or a template.
BindsWhatIsRead ==
  bindings' # bindings =>
    contract \in {"k2", "k6"} /\ \A c \in Claim \ {"a"} : bindings'[c] = bindings[c]

\* At s2, t3 differs from t2 in a file git does not track; without a repository
\* no tree is dirty.
MCCleanAt == [s1 |-> {"t1"}, s2 |-> {"t2", "t3"} \cap Tree, nogit |-> Tree]

MCWatched == [src |-> [t1 |-> "w1", t2 |-> "w2", t3 |-> "w3"]]

MCPassesOn ==
  (<<"test", NoHash, NoHash>> :> {"t1", "t3"}) @@ (<<"suite", "sel", NoHash>> :> {"t1", "t2", "t3"})
  @@ (<<"h1">> :> {"t1"}) @@ (<<"h2">> :> {"t3"})

Escalating(e) ==
  [reject_on_invalid |-> TRUE, escalate_on_stale |-> e,
   escalate_on_missing |-> FALSE, min_verified_ratio |-> 0]

MCPolicies == {Escalating(FALSE), Escalating(TRUE)}
MCDefaultPolicy == {Escalating(FALSE)}

MCActorOf == [p \in Proc |-> "local"]
MCPlatformOf == [p \in Proc |-> "linux"]

\* The processes have the same actor and platform: they are interchangeable.
Symmetry == Permutations(Proc)
=============================================================================
