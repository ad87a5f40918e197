------------------------------ MODULE MCBundle ------------------------------
(***************************************************************************)
(* Instances of Bundle for TLC: a contract that verifies its claim twice,  *)
(* its intent rewritten with another claim, and another intent about both  *)
(* claims, one of which nothing verifies.  Runs of u depend on who goes,   *)
(* runs of w on the registry.                                              *)
(***************************************************************************)
EXTENDS Bundle, TLC

CONSTANTS c1, c2, c3, k1, k2, a, b, u, w, s1, s2

Contracts == {c1, c2, c3}
Intents == c1 :> "x" @@ c2 :> "x" @@ c3 :> "y"
ClaimsIn == c1 :> {a} @@ c2 :> {b} @@ c3 :> {a, b}
VerificationsIn == c1 :> {<<a, u>>, <<a, w>>} @@ c2 :> {<<b, u>>} @@ c3 :> {<<a, u>>}
RequiresIn == c1 :> <<a>> @@ c2 :> <<>> @@ c3 :> <<>>
PolicyFiles == <<"strict">>
Configs == {k1, k2}
Verifiers == {u, w}
Settings == {s1, s2}
Fingerprints ==
  [x \in Verifiers \X Configs \X Settings |-> IF x[1] = u THEN <<u, x[3]>> ELSE <<w, x[2]>>]
EvidencePaths ==
  LET own == <<<<a, <<u, s1>>>>, <<a, <<u, s2>>>>, <<a, <<w, k1>>>>, <<a, <<w, k2>>>>,
               <<b, <<u, s1>>>>, <<b, <<u, s2>>>>>>
  IN  [i \in 1..2 * Len(own) |->
         IF i % 2 = 1 THEN own[(i + 1) \div 2] ELSE TempOf(own[i \div 2])]

\* A bundle that is made depends on the workspace no more: what runs beside it
\* from then on is left out.
OnlyTheBundle == bundle = None \/ UNCHANGED <<files, verify>>
=============================================================================
