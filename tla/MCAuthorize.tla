---------------------------- MODULE MCAuthorize ----------------------------
(***************************************************************************)
(* Instances of Authorize for TLC.                                         *)
(***************************************************************************)
EXTENDS Authorize, TLC

\* One claim alone, or a reviewed file that lists both.
SomeOrAll == {{1}, {2}, {1, 2}}

\* Of three acts the second is about the other claim, or about both.
InTurn ==
  \A p \in Process : act'[p].claims \in {{}} \cup (IF act'[p].nr = 2 THEN {{2}, {1, 2}} ELSE {{1}})

Alike == Permutations(Process)
=============================================================================
