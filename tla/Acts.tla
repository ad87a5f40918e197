-------------------------------- MODULE Acts --------------------------------
(***************************************************************************)
(* An authorization act and the two records it leaves: the entries it      *)
(* stamps in bindings.toml and the events it causes in the event journal.  *)
(* The number of the act stands for both its authorized_at and the         *)
(* timestamps of its events: no two acts leave the same record.            *)
(***************************************************************************)
EXTENDS Naturals

CONSTANT Process      \* whoever runs uni on the workspace
CONSTANT Claim        \* numbered in the order in which a table of them is written
CONSTANT MaxCommands  \* bound: commands started, each with the next number

ASSUME ActsAssumption ==
  /\ MaxCommands \in Nat
  /\ \A c \in Claim : c \in Nat /\ c > 0

\* BindingEntry: `authorized_*` and the hash are stamped by the act.
Stamp == 1..MaxCommands

\* BindingFile: one entry per claim at most.
NoBinding == 0
Entries == [Claim -> {NoBinding} \cup Stamp]

\* Event: what was done about which claim; an ExecutionRun is about none.
NoClaim == 0
Event == [act : Stamp, about : Claim \cup {NoClaim}]
=============================================================================
