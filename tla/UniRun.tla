------------------------------- MODULE UniRun -------------------------------
(***************************************************************************)
(* `uni run` (cmd_run of crates/uni-cli/src/cmd/verify.rs): the executor   *)
(* the human named runs first, then the verifiers of the contract that have*)
(* to, one after the other.  All of them run the way Shell says; whether   *)
(* the executor failed or ran out of time changes nothing of what follows. *)
(***************************************************************************)
EXTENDS Shell

CONSTANT Verifiers   \* how many verifications the contract has

ASSUME UniRunAssumption == Verifiers \in Nat \ {0} /\ Run = 0..Verifiers

VARIABLES
  at,          \* the run the command is at; 0 is the executor
  outcome      \* "none" while it goes on, then "verified" or "failed"

vars == <<shellVars, at, outcome>>

Executor == 0

Init ==
  /\ ShellInit
  /\ at = Executor
  /\ outcome = "none"

Going == outcome = "none"

Start ==
  /\ Going
  /\ \E left \in 0..Output : Spawn(at, left)
  /\ UNCHANGED <<at, outcome>>

\* spawn fails: the command ends there, and nothing is decided.
StartFails ==
  /\ Going
  /\ Waits(at, "idle")
  /\ outcome' = "failed"
  /\ UNCHANGED <<shellVars, at>>

\* Mutant of Continue: one verifier too many.
ContinuePast ==
  /\ Going
  /\ Waits(at, "returned")
  /\ at' = at + 1
  /\ UNCHANGED <<shellVars, outcome>>

\* cmd_run goes on to cmd_verify, cmd_verify from verifier to verifier.
Continue ==
  /\ Going
  /\ at < Verifiers
  /\ Waits(at, "returned")
  /\ at' = at + 1
  /\ UNCHANGED <<shellVars, outcome>>

Verified ==
  /\ Going
  /\ at = Verifiers
  /\ Waits(at, "returned")
  /\ outcome' = "verified"
  /\ UNCHANGED <<shellVars, at>>

Waiting(r) == Runs(r) /\ UNCHANGED <<at, outcome>>
Working(r) == Works(r) /\ UNCHANGED <<at, outcome>>
Passing(r) == Tick(r) /\ UNCHANGED <<at, outcome>>

UniStep == Start \/ Continue \/ Verified \/ \E r \in Run : Waiting(r)

Next == UniStep \/ StartFails \/ \E r \in Run : Working(r) \/ Passing(r)

\* The waiting process and its clock go on; the commands need not.
Fairness == WF_vars(UniStep) /\ WF_vars(\E r \in Run : Passing(r))

Spec == Init /\ [][Next]_vars /\ Fairness

-----------------------------------------------------------------------------
TypeOK ==
  /\ parent \in [Run -> [pc : {"idle", "waiting", "killing", "draining", "returned"},
                         clock : 0..Timeout, late : BOOLEAN,
                         code : {0, 1, NotKnown, Failing}, got : Nat]]
  /\ proc \in [Run -> [Worker -> [state : {"absent", "running", "exited", "killed"},
                                 left : 0..Output, holds : BOOLEAN, awaited : BOOLEAN,
                                 code : {0, 1, NotKnown, Failing}]]]
  /\ pipe \in [Run -> 0..Capacity]
  /\ at \in Run
  /\ outcome \in {"none", "verified", "failed"}

(***************************************************************************)
(* A run passes only if its shell exited 0 by itself: a run that reached   *)
(* its deadline is recorded as failing even when the shell exits 0 between *)
(* the deadline and the kill (lib.rs: "never as pass").                    *)
(***************************************************************************)
PassMeansExitedInTime ==
  \A r \in Run : parent[r].code = 0 =>
    /\ ~parent[r].late
    /\ proc[r][TheShell].state = "exited" /\ proc[r][TheShell].code = 0

(***************************************************************************)
(* What `expect` is looked for in is all the output there will ever be, and*)
(* no verifier starts while a process of the executor, left over by a kill *)
(* or sent to the background, still holds the executor's output.           *)
(***************************************************************************)
NobodyWritesLater ==
  \A r \in Run : Waits(r, "returned") \/ r < at => pipe[r] = 0 /\ Holders(r) = {}

(***************************************************************************)
(* The command ends, however long the output (a shell blocked on a full    *)
(* pipe nobody reads runs into its deadline) and whether or not a shell    *)
(* ends by itself, if no other process keeps the pipe open for ever.       *)
(***************************************************************************)
LetGo == \A r \in Run : Holders(r) \subseteq {TheShell}

Returns == <>[]LetGo => <>~Going
=============================================================================
