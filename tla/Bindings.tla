------------------------------ MODULE Bindings ------------------------------
(***************************************************************************)
(* The authorized bindings of crates/uni-evidence/src/binding.rs: the      *)
(* reviewed file .uni/bindings.toml, read, changed and written back whole  *)
(* without a lock, beside the per-claim files of older repositories.       *)
(* A binding is the number of the act that stamped it; re-binding is a new *)
(* act.                                                                    *)
(***************************************************************************)
EXTENDS Acts

CONSTANT Legacy   \* the claims with a file under .uni/bindings/

ASSUME BindingsAssumption == Legacy \subseteq Claim

VARIABLES
  toml,      \* bindings.toml: its entries, and whether it parses
  act        \* [process -> its authorization act]

bindingVars == <<toml, act>>

\* No act of this history: the file was there before.
LegacyBinding == MaxCommands + 1

IdleAct == [pc |-> "idle", nr |-> 0, claims |-> {}, seen |-> [c \in Claim |-> NoBinding]]

BindingsInit ==
  /\ toml = [entries |-> [c \in Claim |-> NoBinding], parses |-> TRUE]
  /\ act = [p \in Process |-> IdleAct]

\* read_file: a file that does not parse reads as one without entries.
ReadFile == IF toml.parses THEN toml.entries ELSE [c \in Claim |-> NoBinding]

\* load_all: a legacy file counts for claims the reviewed file does not mention.
LoadAll ==
  [c \in Claim |-> IF ReadFile[c] # NoBinding THEN ReadFile[c]
                   ELSE IF c \in Legacy THEN LegacyBinding ELSE NoBinding]

Doing(p, pc) == act[p].pc = pc

\* authorize for one claim, authorize_from_file for all a reviewed file lists;
\* a file that lists none is refused.  The act begins with its read.
StartAct(p, nr, claims) ==
  /\ Doing(p, "idle")
  /\ claims # {}
  /\ act' = [act EXCEPT ![p] = [pc |-> "write", nr |-> nr, claims |-> claims, seen |-> ReadFile]]
  /\ UNCHANGED toml

\* Mutant of Merged: the listed entries replace the file.
ListedOnly(seen, claims, nr) == [c \in Claim |-> IF c \in claims THEN nr ELSE NoBinding]

Merged(seen, claims, nr) == [c \in Claim |-> IF c \in claims THEN nr ELSE seen[c]]

\* write_file: a temporary file of the process's own, renamed over the target.
WriteToml(p) ==
  /\ Doing(p, "write")
  /\ toml' = [entries |-> Merged(act[p].seen, act[p].claims, act[p].nr), parses |-> TRUE]
  /\ act' = [act EXCEPT ![p].pc = "returning"]

\* Somebody editing the reviewed file leaves it unparseable.
BreakToml ==
  /\ toml.parses
  /\ toml' = [toml EXCEPT !.parses = FALSE]
  /\ UNCHANGED act
=============================================================================
