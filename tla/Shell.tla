------------------------------- MODULE Shell -------------------------------
(***************************************************************************)
(* How crates/uni-verify/src/lib.rs (run_shell) and cmd_run of crates/     *)
(* uni-cli run a command: `sh -c` with its output in a pipe, a wait with a *)
(* timeout, a kill, and only then the reading of the pipe up to its end.   *)
(*                                                                         *)
(* A command is whatever its processes do: the shell writes, starts others *)
(* that keep the pipe or not and that it waits for or not, and exits.  Of  *)
(* the two pipes, stdout and stderr, one is modelled.                      *)
(***************************************************************************)
EXTENDS Naturals, FiniteSets

CONSTANTS
  Run,          \* the commands one process runs
  Descendant,   \* what a shell may start
  Capacity,     \* of the pipe, in blocks
  Output,       \* bound: blocks a process writes
  Timeout       \* the deadline of a run, in ticks of its clock

ASSUME ShellAssumption == Capacity \in Nat \ {0} /\ Output \in Nat /\ Timeout \in Nat \ {0}

VARIABLES
  parent,   \* [run -> what the process that waits for it knows]
  proc,     \* [run -> [process of the run -> its state]]
  pipe      \* [run -> blocks in its pipe]

shellVars == <<parent, proc, pipe>>

TheShell == "sh"
Worker == Descendant \cup {TheShell}

NotKnown == 2
Failing == 3     \* exit code -1: killed, by the timeout or by somebody else

NotStarted == [state |-> "absent", left |-> 0, holds |-> FALSE, awaited |-> FALSE, code |-> NotKnown]

ShellInit ==
  /\ parent = [r \in Run |-> [pc |-> "idle", clock |-> 0, late |-> FALSE,
                              code |-> NotKnown, got |-> 0]]
  /\ proc = [r \in Run |-> [w \in Worker |-> NotStarted]]
  /\ pipe = [r \in Run |-> 0]

Alive(r, w) == proc[r][w].state = "running"
Holders(r) == {w \in Worker : Alive(r, w) /\ proc[r][w].holds}
Waits(r, pc) == parent[r].pc = pc

-----------------------------------------------------------------------------
(***************************************************************************)
(* The processes of the command.                                           *)
(***************************************************************************)
Started(left, holds, awaited) ==
  [state |-> "running", left |-> left, holds |-> holds, awaited |-> awaited, code |-> NotKnown]

\* The shell starts a command, in the foreground or with &, redirected or not.
Fork(r, d, left, holds, awaited) ==
  /\ Alive(r, TheShell)
  /\ ~\E e \in Descendant : Alive(r, e) /\ proc[r][e].awaited
  /\ holds \/ left = 0
  /\ proc[r][d].state = "absent"
  /\ proc' = [proc EXCEPT ![r][d] = Started(left, holds, awaited)]
  /\ UNCHANGED <<parent, pipe>>

\* A writer blocks while the pipe is full.
Write(r, w) ==
  /\ w \in Holders(r)
  /\ proc[r][w].left > 0
  /\ ~Waits(r, "returned")
  /\ pipe[r] < Capacity
  /\ pipe' = [pipe EXCEPT ![r] = @ + 1]
  /\ proc' = [proc EXCEPT ![r][w].left = @ - 1]
  /\ UNCHANGED parent

\* The shell waits for what it runs in the foreground.
Exit(r, w, code) ==
  /\ Alive(r, w)
  /\ proc[r][w].left = 0
  /\ w = TheShell => ~\E d \in Descendant : Alive(r, d) /\ proc[r][d].awaited
  /\ proc' = [proc EXCEPT ![r][w].state = "exited", ![r][w].code = code]
  /\ UNCHANGED <<parent, pipe>>

\* Somebody else kills it.
Signal(r, w) ==
  /\ Alive(r, w)
  /\ proc' = [proc EXCEPT ![r][w].state = "killed", ![r][w].code = Failing]
  /\ UNCHANGED <<parent, pipe>>

Tick(r) ==
  /\ Waits(r, "waiting")
  /\ parent[r].clock < Timeout
  /\ parent' = [parent EXCEPT ![r].clock = @ + 1]
  /\ UNCHANGED <<proc, pipe>>

Works(r) ==
  \/ \E w \in Worker : Write(r, w) \/ Signal(r, w)
  \/ \E code \in {0, 1} : Exit(r, TheShell, code)
  \/ \E d \in Descendant : Exit(r, d, NotKnown)   \* only the shell's code is looked at
  \/ \E d \in Descendant : \E left \in 0..Output : \E holds, awaited \in BOOLEAN :
       Fork(r, d, left, holds, awaited)

-----------------------------------------------------------------------------
(***************************************************************************)
(* run_shell                                                               *)
(***************************************************************************)
Spawn(r, left) ==
  /\ Waits(r, "idle")
  /\ parent' = [parent EXCEPT ![r].pc = "waiting"]
  /\ proc' = [proc EXCEPT ![r][TheShell] = Started(left, TRUE, FALSE)]
  /\ UNCHANGED pipe

\* wait_timeout returns the status of the shell, whatever the deadline.
Exited(r) ==
  /\ Waits(r, "waiting")
  /\ proc[r][TheShell].state \in {"exited", "killed"}
  /\ parent' = [parent EXCEPT ![r].pc = "draining"]
  /\ UNCHANGED <<proc, pipe>>

TimedOut(r) ==
  /\ Waits(r, "waiting")
  /\ parent[r].clock >= Timeout
  /\ Alive(r, TheShell)
  /\ parent' = [parent EXCEPT ![r].pc = "killing", ![r].late = TRUE]
  /\ UNCHANGED <<proc, pipe>>

\* Mutant of Kill: nobody is killed.
KillNobody(r) ==
  /\ Waits(r, "killing")
  /\ parent' = [parent EXCEPT ![r].pc = "draining"]
  /\ UNCHANGED <<proc, pipe>>

\* The shell and nothing else is killed; it may have exited by itself meanwhile.
Kill(r) ==
  /\ Waits(r, "killing")
  /\ parent' = [parent EXCEPT ![r].pc = "draining"]
  /\ proc' = IF Alive(r, TheShell)
             THEN [proc EXCEPT ![r][TheShell].state = "killed", ![r][TheShell].code = Failing]
             ELSE proc
  /\ UNCHANGED pipe

\* wait_with_output: reads until the pipe is empty and nobody can write any more.
Drain(r) ==
  /\ Waits(r, "draining")
  /\ pipe[r] > 0
  /\ pipe' = [pipe EXCEPT ![r] = @ - 1]
  /\ parent' = [parent EXCEPT ![r].got = @ + 1]
  /\ UNCHANGED proc

\* Mutant of EndOfFile: the pipe being empty is taken for its end.
EndOfFileEmpty(r) == pipe[r] = 0

EndOfFile(r) == pipe[r] = 0 /\ Holders(r) = {}

\* Mutant of CodeOf: the status of the shell is reported after a kill, too.
CodeOfStatus(r) == proc[r][TheShell].code

CodeOf(r) == IF parent[r].late THEN Failing ELSE proc[r][TheShell].code

Return(r) ==
  /\ Waits(r, "draining")
  /\ EndOfFile(r)
  /\ ~Alive(r, TheShell)
  /\ parent' = [parent EXCEPT ![r].pc = "returned", ![r].code = CodeOf(r)]
  /\ UNCHANGED <<proc, pipe>>

Runs(r) == Exited(r) \/ TimedOut(r) \/ Kill(r) \/ Drain(r) \/ Return(r)
=============================================================================
