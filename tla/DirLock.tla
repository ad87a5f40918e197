------------------------------- MODULE DirLock -------------------------------
(***************************************************************************)
(* DirLock of crates/uni-evidence: the lock file `.uni/.lock` that `uni`   *)
(* processes take around their persist phase.                              *)
(*                                                                         *)
(* The file is created exclusively, judged stale by its modification time, *)
(* removed by whoever judged it stale, and removed by the holder's Drop.   *)
(* It records no owner: `owner` is history, it says whose create made the  *)
(* file that is there.  Time is counted in ticks, a few of which make the  *)
(* ten minutes of STALE_AFTER.                                             *)
(***************************************************************************)
EXTENDS Naturals

CONSTANTS
  Proc,
  Free, Orphan,   \* owners that are not a process: no file, a dead process
  Retries,        \* the argument of acquire_lock_with
  StaleAfter,     \* STALE_AFTER
  MaxHold,        \* the longest a live process holds the lock
  MaxCrashes      \* bound on the processes killed while they run

ASSUME OwnersDistinct == Free # Orphan /\ Free \notin Proc /\ Orphan \notin Proc
ASSUME RetriesNat == Retries \in Nat
ASSUME TimesNat == StaleAfter \in Nat /\ MaxHold \in Nat

\* A persist phase writes a handful of small files.
ASSUME HoldersAreQuick == MaxHold <= StaleAfter

VARIABLES
  owner,    \* of the lock file; Free when there is none
  age,      \* ticks since the file was created, counted up to StaleAfter + 1
  pc,       \* where each process is in acquire_lock_with
  tries,    \* iterations of its loop each process has left
  held,     \* ticks each holder has held
  raced,    \* history: two processes were about to reap at the same time
  crashes

vars == <<owner, age, pc, tries, held, raced, crashes>>

Label == {"idle", "create", "judge", "remove", "sleep", "holding"}

Init ==
  /\ owner = Free /\ age = 0
  /\ pc = [p \in Proc |-> "idle"]
  /\ tries = [p \in Proc |-> 0]
  /\ held = [p \in Proc |-> 0]
  /\ raced = FALSE
  /\ crashes = 0

At(p, label) == pc[p] = label
Goto(p, label) == pc' = [pc EXCEPT ![p] = label]

Attempts == IF Retries = 0 THEN 1 ELSE Retries   \* retries.max(1)

Start(p) ==
  /\ At(p, "idle") /\ Goto(p, "create")
  /\ tries' = [tries EXCEPT ![p] = Attempts]
  /\ UNCHANGED <<owner, age, held, raced, crashes>>

\* Mutant of Create: the file is opened with create, not create_new.
CreateOverExisting(p) ==
  /\ At(p, "create")
  /\ Goto(p, "holding")
  /\ owner' = p /\ age' = 0 /\ held' = [held EXCEPT ![p] = 0]
  /\ UNCHANGED <<tries, raced, crashes>>

\* create_new succeeds exactly when no file is there.
Create(p) ==
  /\ At(p, "create") /\ owner = Free
  /\ Goto(p, "holding")
  /\ owner' = p /\ age' = 0 /\ held' = [held EXCEPT ![p] = 0]
  /\ UNCHANGED <<tries, raced, crashes>>

AlreadyExists(p) ==
  /\ At(p, "create") /\ owner # Free
  /\ Goto(p, "judge")
  /\ UNCHANGED <<owner, age, tries, held, raced, crashes>>

CreateFails(p) ==
  /\ At(p, "create")
  /\ Goto(p, "idle")
  /\ UNCHANGED <<owner, age, tries, held, raced, crashes>>

\* Mutants of Stale: one tick early, and whatever the age.
StaleEarly == owner # Free /\ age >= StaleAfter
StaleAtOnce == owner # Free

Stale == owner # Free /\ age > StaleAfter

JudgeStale(p) ==
  /\ At(p, "judge") /\ Stale
  /\ Goto(p, "remove")
  /\ raced' = (raced \/ \E q \in Proc : At(q, "remove"))
  /\ UNCHANGED <<owner, age, tries, held, crashes>>

\* The file is young, or gone since the create failed.
JudgeLive(p) ==
  /\ At(p, "judge") /\ ~Stale
  /\ Goto(p, "sleep")
  /\ UNCHANGED <<owner, age, tries, held, raced, crashes>>

\* Mutants of NextIteration: one iteration too many, and a loop without end.
NextIterationOffByOne(p) ==
  /\ tries' = [tries EXCEPT ![p] = tries[p] - 1]
  /\ Goto(p, IF tries[p] = 0 THEN "idle" ELSE "create")

NextIterationUncounted(p) == UNCHANGED tries /\ Goto(p, "create")

\* Every iteration counts, the one that reaps too; after the last comes
\* "another uni process holds ...".
NextIteration(p) ==
  /\ tries' = [tries EXCEPT ![p] = tries[p] - 1]
  /\ Goto(p, IF tries[p] = 1 THEN "idle" ELSE "create")

\* Mutant of Remove: the failure of remove_file goes unnoticed for good.
RemoveNothing(p) ==
  /\ At(p, "remove") /\ NextIteration(p)
  /\ UNCHANGED <<owner, age, held, raced, crashes>>

\* Removes whatever file is at the path by now.
Remove(p) ==
  /\ At(p, "remove") /\ NextIteration(p)
  /\ owner' = Free
  /\ UNCHANGED <<age, held, raced, crashes>>

Sleep(p) ==
  /\ At(p, "sleep") /\ NextIteration(p)
  /\ UNCHANGED <<owner, age, held, raced, crashes>>

\* Drop: removes whatever file is at the path by now.
Release(p) ==
  /\ At(p, "holding") /\ Goto(p, "idle")
  /\ owner' = Free
  /\ UNCHANGED <<age, tries, held, raced, crashes>>

\* A killed process runs no destructor.
Crash(p) ==
  /\ ~At(p, "idle") /\ Goto(p, "idle")
  /\ crashes < MaxCrashes /\ crashes' = crashes + 1
  /\ owner' = IF owner = p THEN Orphan ELSE owner
  /\ UNCHANGED <<age, tries, held, raced>>

Tick ==
  /\ \A p \in Proc : At(p, "holding") => held[p] < MaxHold
  /\ age' = IF age <= StaleAfter THEN age + 1 ELSE age
  /\ held' = [p \in Proc |-> IF At(p, "holding") THEN held[p] + 1 ELSE held[p]]
  /\ UNCHANGED <<owner, pc, tries, raced, crashes>>

Step(p) ==
  \/ Create(p) \/ AlreadyExists(p) \/ CreateFails(p)
  \/ JudgeStale(p) \/ JudgeLive(p) \/ Remove(p) \/ Sleep(p) \/ Release(p)

Next == Tick \/ \E p \in Proc : Start(p) \/ Step(p) \/ Crash(p)

Spec == Init /\ [][Next]_vars

\* A running process takes its next step and time passes.
FairSpec == Spec /\ WF_vars(Tick) /\ \A p \in Proc : WF_vars(Step(p))

---------------------------------------------------------------------------
(* Properties *)

TypeOK ==
  /\ owner \in Proc \cup {Free, Orphan}
  /\ age \in 0..(StaleAfter + 1)
  /\ pc \in [Proc -> Label]
  /\ tries \in [Proc -> 0..Attempts]
  /\ held \in [Proc -> 0..MaxHold]
  /\ raced \in BOOLEAN
  /\ crashes \in Nat

\* "Exclusive, process-safe lock": two processes never hold it together.
Mutex == \A p, q \in Proc : At(p, "holding") /\ At(q, "holding") => p = q

\* What is left of it: as long as two processes never reap at the same time,
\* the lock is exclusive, and a holder's Drop removes the holder's own file.
ExclusiveUnlessRaced ==
  ~raced => Mutex /\ \A p \in Proc : At(p, "holding") => owner = p

\* A lock that is judged stale is the lock of a dead process, so reaping never
\* takes it from a live one, unless two processes reap at the same time.
OnlyOrphansReaped == \A p \in Proc : At(p, "remove") /\ ~raced => owner = Orphan

Lock == INSTANCE ExclusiveLock WITH holding <- {p \in Proc : At(p, "holding")}

\* The lock file is the lock Verify.tla is written over, step by step, until
\* two processes reap at the same time.
ActsAsExclusiveLock ==
  Lock!Init /\ [][raced' \/ Lock!Next]_<<owner, {p \in Proc : At(p, "holding")}>>

\* Nobody waits forever, whatever the other processes do.
AcquireReturns ==
  \A p \in Proc : At(p, "create") ~> pc[p] \in {"idle", "holding"}

\* "A lock older than STALE_AFTER is treated as orphaned and reaped": as long
\* as some process keeps trying, the lock of a dead process goes away.
OrphansGoAway ==
  (\E p \in Proc : []<>At(p, "judge")) => (owner = Orphan ~> owner # Orphan)
=============================================================================
