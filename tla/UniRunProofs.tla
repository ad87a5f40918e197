---------------------------- MODULE UniRunProofs ----------------------------
(***************************************************************************)
(* What a passing run of a command means, for any number of verifiers, any *)
(* processes they start, any capacity of the pipe and any deadline.        *)
(***************************************************************************)
EXTENDS UniRun, TLAPS

\* Of one run: before it starts it has no processes; only a process that exited
\* by itself has exit code 0; when it is over, so are its writers.
RunOK(r) ==
  /\ Waits(r, "idle") => pipe[r] = 0 /\ \A w \in Worker : proc[r][w].state = "absent"
  /\ ~Waits(r, "returned") => parent[r].code = NotKnown
  /\ \A w \in Worker : proc[r][w].code = 0 => proc[r][w].state = "exited"
  /\ Waits(r, "returned") =>
       pipe[r] = 0 /\ Holders(r) = {} /\ ~Alive(r, TheShell) /\ parent[r].code = CodeOf(r)

\* The runs before the present one are over, those after it have not begun.
InTurn ==
  \A r \in Run : /\ r < at => Waits(r, "returned")
                 /\ r > at => Waits(r, "idle")

Inv == TypeOK /\ InTurn /\ \A r \in Run : RunOK(r)

ParentState == [pc : {"idle", "waiting", "killing", "draining", "returned"},
                clock : 0..Timeout, late : BOOLEAN,
                code : {0, 1, NotKnown, Failing}, got : Nat]
ProcState == [state : {"absent", "running", "exited", "killed"},
              left : 0..Output, holds : BOOLEAN, awaited : BOOLEAN,
              code : {0, 1, NotKnown, Failing}]

LEMMA InitHolds == Init => Inv
<1> SUFFICES ASSUME Init PROVE Inv
  OBVIOUS
<1> USE ShellAssumption, UniRunAssumption DEF Init, ShellInit, NotStarted, Executor
<1>1. TypeOK
  BY DEF TypeOK, NotKnown, Failing
<1>2. InTurn
  BY DEF InTurn, Waits
<1>3. ASSUME NEW r \in Run PROVE RunOK(r)
  BY <1>3 DEF RunOK, Waits, NotKnown
<1> QED BY <1>1, <1>2, <1>3 DEF Inv


\* What a step of the processes of a run comes down to: one of them changes, the
\* waiting process learns nothing of it, and nobody begins to run whom no running
\* shell starts.
Changes(r, w, s) ==
  /\ s \in ProcState /\ w \in Worker
  /\ proc' = [proc EXCEPT ![r][w] = s]
  /\ parent' = parent
  /\ s.code = 0 => s.state = "exited"
  /\ Alive(r, w) \/ Alive(r, TheShell)
  /\ w = TheShell => Alive(r, TheShell)
  /\ s.state = "running" /\ s.holds => (Alive(r, w) /\ proc[r][w].holds) \/ Alive(r, TheShell)

Fills(r) ==
  /\ pipe' \in [Run -> 0..Capacity]
  /\ \A q \in Run : q # r \/ Waits(r, "returned") => pipe'[q] = pipe[q]

LEMMA WorkChanges ==
  ASSUME Inv, NEW r \in Run, Works(r)
  PROVE  Fills(r) /\ \E w \in Worker, s \in ProcState : Changes(r, w, s)
<1> USE ShellAssumption
<1>1. /\ proc \in [Run -> [Worker -> ProcState]] /\ pipe \in [Run -> 0..Capacity]
      /\ RunOK(r) /\ TheShell \in Worker
  BY DEF Inv, TypeOK, ProcState, Worker
<1>2. \A w \in Worker : proc[r][w] \in ProcState
  BY <1>1
<1>3. pipe' = pipe => Fills(r)
  BY <1>1 DEF Fills
<1>4. ASSUME NEW w \in Worker, Write(r, w)
      PROVE  Fills(r) /\ \E s \in ProcState : Changes(r, w, s)
  <2> DEFINE s == [proc[r][w] EXCEPT !.left = proc[r][w].left - 1]
  <2>1. proc[r][w] \in ProcState /\ pipe[r] \in 0..Capacity /\ Alive(r, w) /\ proc[r][w].left > 0
    BY <1>1, <1>4 DEF Write, Holders
  <2>2. s \in ProcState /\ s.code = proc[r][w].code /\ s.state = "running" /\ s.holds = proc[r][w].holds
    BY <2>1 DEF ProcState, Alive
  <2>3. proc' = [proc EXCEPT ![r][w] = s]
    <3>1. proc' = [proc EXCEPT ![r][w].left = proc[r][w].left - 1]
      BY <1>4 DEF Write
    <3> QED BY <1>1, <2>1, <3>1 DEF ProcState
  <2>4. s.code # 0
    BY <1>1, <2>1, <2>2 DEF RunOK, Alive
  <2>5. Fills(r)
    BY <1>1, <1>4, <2>1 DEF Write, Fills
  <2>6. proc[r][w].holds /\ parent' = parent
    BY <1>4 DEF Write, Holders
  <2> HIDE DEF s
  <2>7. Changes(r, w, s)
    BY <2>1, <2>2, <2>3, <2>4, <2>6 DEF Changes, Alive
  <2> QED BY <2>2, <2>5, <2>7
<1>5. ASSUME NEW w \in Worker, NEW state \in {"exited", "killed"}, NEW code \in {0, 1, NotKnown, Failing},
             Alive(r, w), proc' = [proc EXCEPT ![r][w].state = state, ![r][w].code = code],
             UNCHANGED <<parent, pipe>>, code = 0 => state = "exited"
      PROVE  Fills(r) /\ \E s \in ProcState : Changes(r, w, s)
  <2> DEFINE s == [proc[r][w] EXCEPT !.state = state, !.code = code]
  <2>1. proc[r][w] \in ProcState
    BY <1>1
  <2>2. s \in ProcState /\ s.code = code /\ s.state = state
    BY <2>1 DEF ProcState
  <2>3. proc' = [proc EXCEPT ![r][w] = s]
    BY <1>1, <1>5 DEF ProcState
  <2> HIDE DEF s
  <2>4. Changes(r, w, s)
    BY <1>5, <2>2, <2>3 DEF Changes
  <2> QED BY <1>3, <1>5, <2>2, <2>4
<1>6. ASSUME NEW d \in Descendant, NEW left \in 0..Output, NEW holds \in BOOLEAN, NEW awaited \in BOOLEAN,
             Fork(r, d, left, holds, awaited)
      PROVE  Fills(r) /\ \E w \in Worker, s \in ProcState : Changes(r, w, s)
  <2> DEFINE s == Started(left, holds, awaited)
  <2>1. s \in ProcState /\ s.code # 0 /\ d \in Worker
    BY DEF Started, ProcState, NotKnown, Worker
  <2>2. Changes(r, d, s)
    BY <1>6, <2>1 DEF Changes, Fork, Alive
  <2> QED BY <1>3, <1>6, <2>1, <2>2 DEF Fork
<1>7. ASSUME NEW w \in Worker, NEW code \in {0, 1, NotKnown}, Exit(r, w, code)
      PROVE  Fills(r) /\ \E s \in ProcState : Changes(r, w, s)
  BY <1>5, <1>7 DEF Exit
<1>8. ASSUME NEW w \in Worker, Signal(r, w)
      PROVE  Fills(r) /\ \E s \in ProcState : Changes(r, w, s)
  <2>1. Failing # 0
    BY DEF Failing
  <2> QED BY <1>5, <1>8, <2>1 DEF Signal
<1>9. Descendant \subseteq Worker
  BY DEF Worker
<1>10. CASE \E w \in Worker : Write(r, w) \/ Signal(r, w)
  BY <1>4, <1>8, <1>10
<1>11. CASE \E code \in {0, 1} : Exit(r, TheShell, code)
  BY <1>1, <1>7, <1>11
<1>12. CASE \E d \in Descendant : Exit(r, d, NotKnown)
  BY <1>7, <1>9, <1>12
<1>13. CASE \E d \in Descendant : \E left \in 0..Output : \E holds, awaited \in BOOLEAN :
               Fork(r, d, left, holds, awaited)
  BY <1>6, <1>13
<1> QED BY <1>10, <1>11, <1>12, <1>13 DEF Works

LEMMA WorkKeeps ==
  ASSUME Inv, NEW r \in Run, Works(r), UNCHANGED <<at, outcome>>
  PROVE  Inv'
<1>1. /\ proc \in [Run -> [Worker -> ProcState]] /\ TheShell \in Worker
      /\ \A q \in Run : RunOK(q)
  BY DEF Inv, TypeOK, ProcState, Worker
<1>2. PICK w \in Worker, s \in ProcState : Changes(r, w, s)
  BY WorkChanges
<1>3. Fills(r)
  BY WorkChanges
<1>4. /\ proc' \in [Run -> [Worker -> ProcState]]
      /\ \A q \in Run, v \in Worker :
           proc'[q][v] = IF q = r /\ v = w THEN s ELSE proc[q][v]
  BY <1>1, <1>2 DEF Changes
<1>5. TypeOK'
  BY <1>2, <1>3, <1>4 DEF Inv, TypeOK, Changes, Fills, ProcState
<1>6. InTurn'
  BY <1>2 DEF Inv, InTurn, Changes, Waits
<1>7. ASSUME NEW q \in Run PROVE RunOK(q)'
  <2>1. CASE q # r
    <3>1. \A v \in Worker : proc'[q][v] = proc[q][v]
      BY <1>4, <2>1
    <3>2. parent' = parent /\ pipe'[q] = pipe[q]
      BY <1>2, <1>3, <2>1 DEF Changes, Fills
    <3> QED BY <1>1, <3>1, <3>2 DEF RunOK, Waits, Holders, Alive, CodeOf
  <2>2. CASE q = r
    <3>1. parent' = parent /\ RunOK(r) /\ ~Waits(r, "idle")
      BY <1>1, <1>2 DEF Changes, RunOK, Alive
    <3>2. \A v \in Worker : proc'[r][v].code = 0 => proc'[r][v].state = "exited"
      BY <1>2, <1>4, <3>1 DEF Changes, RunOK
    <3>3. ASSUME Waits(r, "returned")
          PROVE  pipe'[r] = 0 /\ Holders(r)' = {} /\ ~Alive(r, TheShell)' /\ parent'[r].code = CodeOf(r)'
      <4>1. pipe'[r] = 0
        BY <1>3, <3>1, <3>3 DEF Fills, RunOK
      <4>2. ~Alive(r, TheShell) /\ w # TheShell /\ Holders(r) = {}
        BY <1>2, <3>1, <3>3 DEF Changes, RunOK
      <4>3. Holders(r)' = {}
        BY <1>2, <1>4, <4>2 DEF Changes, Holders, Alive
      <4>4. proc'[r][TheShell] = proc[r][TheShell]
        BY <1>1, <1>4, <4>2
      <4> QED BY <3>1, <3>3, <4>1, <4>2, <4>3, <4>4 DEF RunOK, Alive, CodeOf
    <3> QED BY <2>2, <3>1, <3>2, <3>3 DEF RunOK, Waits
  <2> QED BY <2>1, <2>2
<1> QED BY <1>5, <1>6, <1>7 DEF Inv

\* A step of the waiting process, or of its clock.
LEMMA WaitKeeps ==
  ASSUME Inv, NEW r \in Run, Runs(r) \/ Tick(r), UNCHANGED <<at, outcome>>
  PROVE  Inv'
<1> USE ShellAssumption
<1>1. /\ proc \in [Run -> [Worker -> ProcState]] /\ pipe \in [Run -> 0..Capacity]
      /\ parent \in [Run -> ParentState] /\ TheShell \in Worker
      /\ \A q \in Run : RunOK(q)
  BY DEF Inv, TypeOK, ProcState, ParentState, Worker
<1>2. /\ parent[r] \in ParentState /\ pipe[r] \in 0..Capacity /\ proc[r][TheShell] \in ProcState
      /\ RunOK(r)
  BY <1>1
<1>3. CodeOf(r) \in {0, 1, NotKnown, Failing}
  BY <1>2 DEF CodeOf, ProcState
<1>4. /\ ~Waits(r, "idle") /\ ~Waits(r, "returned") /\ ~Waits(r, "idle")'
      /\ \E s \in ParentState : parent' = [parent EXCEPT ![r] = s]
  <2>1. CASE Tick(r)
    <3> DEFINE s == [parent[r] EXCEPT !.clock = parent[r].clock + 1]
    <3>1. s \in ParentState /\ s.pc = "waiting"
      BY <1>2, <2>1 DEF Tick, ParentState, Waits
    <3>2. parent' = [parent EXCEPT ![r] = s]
      BY <1>1, <2>1 DEF Tick, ParentState
    <3> HIDE DEF s
    <3> QED BY <1>1, <2>1, <3>1, <3>2 DEF Tick, Waits
  <2>2. CASE Exited(r)
    <3> DEFINE s == [parent[r] EXCEPT !.pc = "draining"]
    <3>1. s \in ParentState /\ s.pc = "draining"
      BY <1>2 DEF ParentState
    <3>2. parent' = [parent EXCEPT ![r] = s]
      BY <1>1, <2>2 DEF Exited, ParentState
    <3> HIDE DEF s
    <3> QED BY <1>1, <2>2, <3>1, <3>2 DEF Exited, Waits
  <2>3. CASE TimedOut(r)
    <3> DEFINE s == [parent[r] EXCEPT !.pc = "killing", !.late = TRUE]
    <3>1. s \in ParentState /\ s.pc = "killing"
      BY <1>2 DEF ParentState
    <3>2. parent' = [parent EXCEPT ![r] = s]
      BY <1>1, <2>3 DEF TimedOut, ParentState
    <3> HIDE DEF s
    <3> QED BY <1>1, <2>3, <3>1, <3>2 DEF TimedOut, Waits
  <2>4. CASE Kill(r)
    <3> DEFINE s == [parent[r] EXCEPT !.pc = "draining"]
    <3>1. s \in ParentState /\ s.pc = "draining"
      BY <1>2 DEF ParentState
    <3>2. parent' = [parent EXCEPT ![r] = s]
      BY <1>1, <2>4 DEF Kill, ParentState
    <3> HIDE DEF s
    <3> QED BY <1>1, <2>4, <3>1, <3>2 DEF Kill, Waits
  <2>5. CASE Drain(r)
    <3> DEFINE s == [parent[r] EXCEPT !.got = parent[r].got + 1]
    <3>1. s \in ParentState /\ s.pc = "draining"
      BY <1>2, <2>5 DEF Drain, ParentState, Waits
    <3>2. parent' = [parent EXCEPT ![r] = s]
      BY <1>1, <2>5 DEF Drain, ParentState
    <3> HIDE DEF s
    <3> QED BY <1>1, <2>5, <3>1, <3>2 DEF Drain, Waits
  <2>6. CASE Return(r)
    <3> DEFINE s == [parent[r] EXCEPT !.pc = "returned", !.code = CodeOf(r)]
    <3>1. s \in ParentState /\ s.pc = "returned"
      BY <1>2, <1>3 DEF ParentState
    <3>2. parent' = [parent EXCEPT ![r] = s]
      BY <1>1, <2>6 DEF Return, ParentState
    <3> HIDE DEF s
    <3> QED BY <1>1, <2>6, <3>1, <3>2 DEF Return, Waits
  <2> QED BY <2>1, <2>2, <2>3, <2>4, <2>5, <2>6 DEF Runs
<1>5. /\ proc' \in [Run -> [Worker -> ProcState]] /\ pipe' \in [Run -> 0..Capacity]
      /\ \A q \in Run : q # r => proc'[q] = proc[q] /\ pipe'[q] = pipe[q]
      /\ \A w \in Worker : proc'[r][w].code = 0 => proc'[r][w].state = "exited"
  <2>1. CASE Kill(r)
    <3> DEFINE s == [proc[r][TheShell] EXCEPT !.state = "killed", !.code = Failing]
    <3>1. s \in ProcState /\ s.code = Failing
      BY <1>2 DEF ProcState
    <3>2. s.code # 0
      BY <3>1 DEF Failing
    <3>3. UNCHANGED pipe /\ (proc' = proc \/ proc' = [proc EXCEPT ![r][TheShell] = s])
      BY <1>1, <2>1 DEF Kill, ProcState
    <3> HIDE DEF s
    <3>4. CASE proc' = proc
      BY <1>1, <1>2, <3>3, <3>4 DEF RunOK
    <3>5. CASE proc' = [proc EXCEPT ![r][TheShell] = s]
      <4>1. /\ proc' \in [Run -> [Worker -> ProcState]]
            /\ \A q \in Run : q # r => proc'[q] = proc[q]
            /\ \A w \in Worker : proc'[r][w] = IF w = TheShell THEN s ELSE proc[r][w]
        BY <1>1, <3>1, <3>5
      <4> QED BY <1>1, <1>2, <3>2, <3>3, <4>1 DEF RunOK
    <3> QED BY <3>3, <3>4, <3>5
  <2>2. CASE Drain(r)
    BY <1>1, <1>2, <2>2 DEF Drain, RunOK
  <2>3. CASE Tick(r) \/ Exited(r) \/ TimedOut(r) \/ Return(r)
    BY <1>1, <1>2, <2>3 DEF Tick, Exited, TimedOut, Return, RunOK
  <2> QED BY <2>1, <2>2, <2>3 DEF Runs
<1>6. TypeOK'
  <2>1. parent' \in [Run -> ParentState]
    BY <1>1, <1>4
  <2>2. at' \in Run /\ outcome' \in {"none", "verified", "failed"}
    BY DEF Inv, TypeOK
  <2> QED BY <1>5, <2>1, <2>2 DEF TypeOK, ParentState, ProcState
<1>7. \A q \in Run : q # r => parent'[q] = parent[q]
  BY <1>1, <1>4
<1>8. InTurn'
  BY <1>4, <1>7 DEF Inv, InTurn, Waits
<1>9. ASSUME NEW q \in Run PROVE RunOK(q)'
  <2>1. CASE q # r
    BY <1>1, <1>5, <1>7, <2>1 DEF RunOK, Waits, Holders, Alive, CodeOf
  <2>2. CASE q = r
    <3>1. CASE Return(r)
      <4>1. parent'[r].code = CodeOf(r) /\ parent'[r].late = parent[r].late /\ Waits(r, "returned")'
        BY <1>1, <1>2, <3>1 DEF Return, Waits, ParentState
      <4>2. UNCHANGED <<proc, pipe>> /\ EndOfFile(r) /\ ~Alive(r, TheShell)
        BY <3>1 DEF Return
      <4> QED BY <1>2, <1>4, <2>2, <4>1, <4>2 DEF RunOK, EndOfFile, Holders, Alive, CodeOf, Waits
    <3>2. CASE ~Return(r)
      <4>1. ~Waits(r, "returned")' /\ parent'[r].code = parent[r].code
        BY <1>1, <1>2, <3>2 DEF Runs, Tick, Exited, TimedOut, Kill, Drain, Waits, ParentState
      <4> QED BY <1>2, <1>4, <1>5, <2>2, <4>1 DEF RunOK, Waits
    <3> QED BY <3>1, <3>2
  <2> QED BY <2>1, <2>2
<1> QED BY <1>6, <1>8, <1>9 DEF Inv

LEMMA StepKeeps == Inv /\ [Next]_vars => Inv'
<1> SUFFICES ASSUME Inv, [Next]_vars PROVE Inv'
  OBVIOUS
<1> USE ShellAssumption, UniRunAssumption
<1>1. /\ proc \in [Run -> [Worker -> ProcState]] /\ pipe \in [Run -> 0..Capacity]
      /\ parent \in [Run -> ParentState] /\ TheShell \in Worker /\ at \in Run
      /\ \A q \in Run : RunOK(q)
  BY DEF Inv, TypeOK, ProcState, ParentState, Worker
<1>2. CASE Start
  <2>1. PICK left \in 0..Output : Spawn(at, left)
    BY <1>2 DEF Start
  <2> DEFINE s == Started(left, TRUE, FALSE)
             t == [parent[at] EXCEPT !.pc = "waiting"]
  <2>2. s \in ProcState /\ s.code # 0
    BY DEF Started, ProcState, NotKnown
  <2>3. t \in ParentState /\ t.pc = "waiting" /\ t.code = parent[at].code
    BY <1>1 DEF ParentState
  <2>4. parent' = [parent EXCEPT ![at] = t] /\ proc' = [proc EXCEPT ![at][TheShell] = s]
        /\ UNCHANGED <<pipe, at, outcome>> /\ Waits(at, "idle")
    BY <1>1, <1>2, <2>1 DEF Start, Spawn, ParentState
  <2> HIDE DEF s, t
  <2>5. /\ parent' \in [Run -> ParentState] /\ proc' \in [Run -> [Worker -> ProcState]]
        /\ \A q \in Run : q # at => parent'[q] = parent[q] /\ proc'[q] = proc[q]
        /\ parent'[at] = t
        /\ \A w \in Worker : proc'[at][w] = IF w = TheShell THEN s ELSE proc[at][w]
    BY <1>1, <2>2, <2>3, <2>4
  <2>6. TypeOK'
    BY <2>4, <2>5 DEF Inv, TypeOK, ParentState, ProcState
  <2>7. InTurn'
    BY <1>1, <2>4, <2>5 DEF Inv, InTurn, Waits
  <2>8. ASSUME NEW q \in Run PROVE RunOK(q)'
    <3>1. CASE q # at
      BY <1>1, <2>4, <2>5, <3>1 DEF RunOK, Waits, Holders, Alive, CodeOf
    <3>2. CASE q = at
      BY <1>1, <2>2, <2>3, <2>4, <2>5, <3>2 DEF RunOK, Waits
    <3> QED BY <3>1, <3>2
  <2> QED BY <2>6, <2>7, <2>8 DEF Inv
<1>3. CASE Continue \/ Verified \/ StartFails \/ UNCHANGED vars
  <2>1. UNCHANGED shellVars /\ at' \in Run /\ outcome' \in {"none", "verified", "failed"}
    <3>1. outcome \in {"none", "verified", "failed"}
      BY DEF Inv, TypeOK
    <3>2. CASE Continue
      <4>1. at + 1 \in Run
        BY <1>1, <3>2 DEF Continue
      <4> QED BY <3>1, <3>2, <4>1 DEF Continue
    <3>3. CASE Verified \/ StartFails \/ UNCHANGED vars
      BY <1>1, <3>1, <3>3 DEF Verified, StartFails, vars
    <3> QED BY <1>3, <3>2, <3>3
  <2>2. TypeOK'
    BY <2>1 DEF Inv, TypeOK, shellVars
  <2>3. at' = at \/ (at' = at + 1 /\ Waits(at, "returned"))
    BY <1>3 DEF Continue, Verified, StartFails, vars
  <2>4. InTurn'
    BY <1>1, <2>1, <2>3 DEF Inv, InTurn, Waits, shellVars
  <2>5. ASSUME NEW q \in Run PROVE RunOK(q)'
    BY <1>1, <2>1 DEF RunOK, Waits, Holders, Alive, CodeOf, shellVars
  <2> QED BY <2>2, <2>4, <2>5 DEF Inv
<1>4. CASE \E r \in Run : Waiting(r) \/ Passing(r)
  BY <1>4, WaitKeeps DEF Waiting, Passing
<1>5. CASE \E r \in Run : Working(r)
  BY <1>5, WorkKeeps DEF Working
<1> QED BY <1>2, <1>3, <1>4, <1>5 DEF Next, UniStep

LEMMA InvHolds == Spec => []Inv
BY InitHolds, StepKeeps, PTL DEF Spec

\* The clocks, codes and pipes of every run stay in their ranges.
THEOREM TypeCorrect == Spec => []TypeOK
<1>1. Inv => TypeOK
  BY DEF Inv
<1> QED BY <1>1, InvHolds, PTL

\* A run counts as passing only if its shell exited 0 by itself in time,
\* whatever other processes of it were killed or went on meanwhile.
THEOREM PassesInTime == Spec => []PassMeansExitedInTime
<1>1. Inv => PassMeansExitedInTime
  <2> SUFFICES ASSUME Inv, NEW r \in Run, parent[r].code = 0
               PROVE  ~parent[r].late /\ proc[r][TheShell].state = "exited" /\ proc[r][TheShell].code = 0
    BY DEF PassMeansExitedInTime
  <2>1. RunOK(r) /\ TheShell \in Worker
    BY DEF Inv, Worker
  <2>2. 0 = CodeOf(r)
    BY <2>1 DEF RunOK, NotKnown
  <2> QED BY <2>1, <2>2 DEF RunOK, CodeOf, Failing
<1> QED BY <1>1, InvHolds, PTL

\* When a run is over, nobody is left who could write into its pipe, and no
\* later run begins before: the verifiers never race the executor's processes.
THEOREM WritersGone == Spec => []NobodyWritesLater
<1>1. Inv => NobodyWritesLater
  BY DEF Inv, InTurn, RunOK, NobodyWritesLater
<1> QED BY <1>1, InvHolds, PTL
=============================================================================
