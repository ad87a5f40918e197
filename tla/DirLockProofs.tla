---------------------------- MODULE DirLockProofs ----------------------------
(***************************************************************************)
(* The lock file is an exclusive lock until two processes reap at the same *)
(* time: proofs for any number of processes, retries, crashes, and any     *)
(* time-out that is not shorter than the longest persist phase.            *)
(***************************************************************************)
EXTENDS DirLock, TLAPS

\* A process inside the loop has an iteration left.
IterationLeft ==
  \A p \in Proc : pc[p] \in {"create", "judge", "remove", "sleep"} => tries[p] >= 1

\* The file is the holder's, and no older than the hold.
FileIsHolders ==
  /\ \A p \in Proc : At(p, "holding") => owner = p /\ age <= held[p]
  /\ \A p \in Proc : owner = p => At(p, "holding")

\* The file about to be reaped is a dead process's, and nobody else is at it.
OneReaper ==
  /\ \A p \in Proc : At(p, "remove") => owner = Orphan
  /\ \A p, q \in Proc : At(p, "remove") /\ At(q, "remove") => p = q

IInv ==
  /\ TypeOK
  /\ IterationLeft
  /\ ~raced => FileIsHolders /\ OneReaper

\* retries.max(1): the loop runs at least once.
LEMMA AttemptsPositive == Attempts \in Nat /\ Attempts >= 1
  BY RetriesNat DEF Attempts

\* The strengthened invariant holds in the initial state.
LEMMA InitIInv == Init => IInv
<1> SUFFICES ASSUME Init PROVE IInv
  OBVIOUS
<1>1. TypeOK
  <2>1. 0 \in 0..Attempts /\ 0 \in 0..MaxHold /\ 0 \in 0..(StaleAfter + 1)
    BY AttemptsPositive, TimesNat
  <2>2. pc \in [Proc -> Label]
    BY DEF Init, Label
  <2>3. held \in [Proc -> 0..MaxHold] /\ tries \in [Proc -> 0..Attempts]
    BY <2>1 DEF Init
  <2> QED BY <2>1, <2>2, <2>3 DEF Init, TypeOK
<1>2. IterationLeft
  BY DEF Init, IterationLeft
<1>3. FileIsHolders /\ OneReaper
  BY OwnersDistinct DEF Init, FileIsHolders, OneReaper, At
<1> QED BY <1>1, <1>2, <1>3 DEF IInv

\* Every step keeps the types, the iterations left and, while nobody raced,
\* the file in the hands of its holder.
LEMMA NextIInv == IInv /\ [Next]_vars => IInv'
<1> SUFFICES ASSUME IInv, [Next]_vars PROVE IInv'
  OBVIOUS
<1> USE AttemptsPositive, TimesNat, OwnersDistinct DEF IInv, TypeOK, Label, At
<1>1. CASE Tick
  <2>1. TypeOK' /\ IterationLeft'
    BY <1>1 DEF Tick, IterationLeft
  <2>2. (~raced => FileIsHolders /\ OneReaper)'
    BY <1>1 DEF Tick, FileIsHolders, OneReaper
  <2> QED BY <2>1, <2>2
<1>2. ASSUME NEW p \in Proc, Start(p) PROVE IInv'
  BY <1>2 DEF Start, Goto, IterationLeft, FileIsHolders, OneReaper
<1>3. ASSUME NEW p \in Proc, Create(p) PROVE IInv'
  BY <1>3 DEF Create, Goto, IterationLeft, FileIsHolders, OneReaper
<1>4. ASSUME NEW p \in Proc, AlreadyExists(p) PROVE IInv'
  BY <1>4 DEF AlreadyExists, Goto, IterationLeft, FileIsHolders, OneReaper
<1>5. ASSUME NEW p \in Proc, CreateFails(p) PROVE IInv'
  BY <1>5 DEF CreateFails, Goto, IterationLeft, FileIsHolders, OneReaper
<1>6. ASSUME NEW p \in Proc, JudgeStale(p) PROVE IInv'
  <2>1. TypeOK' /\ IterationLeft'
    BY <1>6 DEF JudgeStale, Goto, IterationLeft
  <2>2. ASSUME ~raced' PROVE FileIsHolders' /\ OneReaper'
    <3>1. ~raced /\ \A q \in Proc : ~At(q, "remove")
      BY <1>6, <2>2 DEF JudgeStale
    <3>2. owner = Orphan
      BY <1>6, <3>1, HoldersAreQuick DEF JudgeStale, Stale, FileIsHolders
    <3> QED BY <1>6, <3>1, <3>2 DEF JudgeStale, Goto, FileIsHolders, OneReaper
  <2> QED BY <2>1, <2>2
<1>7. ASSUME NEW p \in Proc, JudgeLive(p) PROVE IInv'
  BY <1>7 DEF JudgeLive, Goto, IterationLeft, FileIsHolders, OneReaper
<1>8. ASSUME NEW p \in Proc, Remove(p) PROVE IInv'
  BY <1>8 DEF Remove, NextIteration, Goto, IterationLeft, FileIsHolders, OneReaper
<1>9. ASSUME NEW p \in Proc, Sleep(p) PROVE IInv'
  BY <1>9 DEF Sleep, NextIteration, Goto, IterationLeft, FileIsHolders, OneReaper
<1>10. ASSUME NEW p \in Proc, Release(p) PROVE IInv'
  BY <1>10 DEF Release, Goto, IterationLeft, FileIsHolders, OneReaper
<1>11. ASSUME NEW p \in Proc, Crash(p) PROVE IInv'
  BY <1>11 DEF Crash, Goto, IterationLeft, FileIsHolders, OneReaper
<1>12. CASE UNCHANGED vars
  BY <1>12 DEF vars, IterationLeft, FileIsHolders, OneReaper
<1> QED
  BY <1>1, <1>2, <1>3, <1>4, <1>5, <1>6, <1>7, <1>8, <1>9, <1>10, <1>11, <1>12
  DEF Next, Step

\* The strengthened invariant holds in every reachable state.
THEOREM Invariance == Spec => []IInv
  BY InitIInv, NextIInv, PTL DEF Spec

\* Type correctness of the lock: no counter of acquire_lock_with leaves its
\* range, the retry countdown included.
THEOREM TypeCorrect == Spec => []TypeOK
  <1>1. IInv => TypeOK
    BY DEF IInv
  <1> QED BY <1>1, Invariance, PTL

\* Two processes hold `.uni/.lock` together, or a Drop removes a file that is
\* not its holder's, only after two processes were about to reap at once.
THEOREM Exclusive == Spec => []ExclusiveUnlessRaced
  <1>1. IInv => ExclusiveUnlessRaced
    BY DEF IInv, ExclusiveUnlessRaced, Mutex, FileIsHolders, At
  <1> QED BY <1>1, Invariance, PTL

\* With one reaper at a time, what is reaped is the lock of a dead process.
THEOREM ReapsOrphans == Spec => []OnlyOrphansReaped
  <1>1. IInv => OnlyOrphansReaped
    BY DEF IInv, OnlyOrphansReaped, OneReaper, At
  <1> QED BY <1>1, Invariance, PTL

\* A step of the lock file is a step of the exclusive lock or leaves its owner
\* and its holders alone, until two processes reap at the same time.
LEMMA StepRefines ==
  IInv /\ [Next]_vars => [raced' \/ Lock!Next]_<<owner, {p \in Proc : At(p, "holding")}>>
<1> DEFINE Holders == {p \in Proc : At(p, "holding")}
<1> SUFFICES ASSUME IInv, [Next]_vars, ~raced'
             PROVE  Lock!Next \/ (owner' = owner /\ Holders' = Holders)
  OBVIOUS
<1>0. pc \in [Proc -> Label]
  BY DEF IInv, TypeOK
<1>1. ASSUME NEW p \in Proc, Create(p) PROVE Lock!Acquire(p)
  <2>1. Holders' = Holders \cup {p}
    BY <1>0, <1>1 DEF Create, Goto, At
  <2> QED BY <1>1, <2>1 DEF Create, Lock!Acquire
<1>2. ASSUME NEW p \in Proc, Remove(p) PROVE Lock!Reap
  <2>1. owner = Orphan
    BY <1>2 DEF Remove, IInv, OneReaper, At
  <2>2. Holders' = Holders
    BY <1>0, <1>2 DEF Remove, NextIteration, Goto, At
  <2> QED BY <1>2, <2>1, <2>2 DEF Remove, Lock!Reap
<1>3. ASSUME NEW p \in Proc, Release(p) PROVE Lock!Release(p)
  <2>1. owner = p
    BY <1>3 DEF Release, IInv, FileIsHolders, At
  <2>2. Holders' = Holders \ {p}
    BY <1>0, <1>3 DEF Release, Goto, At
  <2> QED BY <1>3, <2>1, <2>2 DEF Release, Lock!Release
<1>4. ASSUME NEW p \in Proc, Crash(p)
      PROVE  Lock!Die(p) \/ (owner' = owner /\ Holders' = Holders)
  <2>1. ~raced /\ Holders' = Holders \ {p}
    BY <1>0, <1>4 DEF Crash, Goto, At
  <2>2. CASE owner = p
    BY <1>4, <2>1, <2>2 DEF Crash, Lock!Die
  <2>3. CASE owner # p
    <3>1. p \notin Holders
      BY <2>1, <2>3 DEF IInv, FileIsHolders
    <3> QED BY <1>4, <2>1, <2>3, <3>1 DEF Crash
  <2> QED BY <2>2, <2>3
<1>5. ASSUME NEW p \in Proc,
             Start(p) \/ AlreadyExists(p) \/ CreateFails(p)
               \/ JudgeStale(p) \/ JudgeLive(p) \/ Sleep(p)
      PROVE  owner' = owner /\ Holders' = Holders
  BY <1>0, <1>5 DEF Start, AlreadyExists, CreateFails, JudgeStale, JudgeLive, Sleep,
                    NextIteration, Goto, At
<1>6. CASE Tick \/ UNCHANGED vars
  BY <1>6 DEF Tick, vars, At
<1> HIDE DEF Holders
<1> QED BY <1>1, <1>2, <1>3, <1>4, <1>5, <1>6 DEF Next, Step, Lock!Next

\* The lock file implements the lock `uni verify` is modelled over, until two
\* processes reap at the same time.
THEOREM Refinement == Spec => ActsAsExclusiveLock
  <1>1. Init => Lock!Init
    BY DEF Init, Lock!Init, At
  <1> QED BY <1>1, StepRefines, Invariance, PTL DEF Spec, ActsAsExclusiveLock
=============================================================================
