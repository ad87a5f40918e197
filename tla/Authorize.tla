----------------------------- MODULE Authorize -----------------------------
(***************************************************************************)
(* `uni bind` and the other commands that append to the journal: the       *)
(* bindings of Bindings and the journal of Journal, put together the way   *)
(* cmd_bind and cmd_run do, for any number of processes, with kills, a     *)
(* reviewed file that people edit, and readers of both.                    *)
(*                                                                         *)
(* `commands` and `faults` only count.  `history` is read by no action.     *)
(***************************************************************************)
EXTENDS Bindings, Journal

CONSTANTS
  Lists,      \* the sets of claims one act may authorize
  MaxFaults   \* bound: kills, failing writes and slips of a hand over all processes

ASSUME AuthorizeAssumption == Lists \subseteq SUBSET Claim /\ MaxFaults \in Nat

VARIABLES commands, faults, history

counters == <<commands, faults>>
vars == <<bindingVars, journalVars, counters, history>>

\* authorized: the entries that ever were in force; latest: of each claim the
\* last one; acked: the events whose append returned; order: all events, in the
\* order they were written.  The flags name what has gone wrong on the way.
NoHistory ==
  [authorized |-> {}, latest |-> [c \in Claim |-> NoBinding], acked |-> {}, order |-> <<>>,
   flags |-> {}]
Flag == {"overlapped", "mangled", "torn", "crossed", "collided", "passed"}
When(flag, condition) == IF condition THEN {flag} ELSE {}

Init ==
  /\ BindingsInit
  /\ JournalInit
  /\ commands = 0 /\ faults = 0
  /\ history = NoHistory

-----------------------------------------------------------------------------
(***************************************************************************)
(* cmd_bind: authorize, then one event per binding, then the display.      *)
(***************************************************************************)
Free(p) == Doing(p, "idle") /\ At(p, "idle")

Bind(p, claims) ==
  /\ Free(p)
  /\ commands < MaxCommands
  /\ StartAct(p, commands + 1, claims)
  /\ commands' = commands + 1
  /\ UNCHANGED <<journalVars, faults, history>>

EventsOf(p) ==
  IF act[p].claims = {} THEN {[act |-> act[p].nr, about |-> NoClaim]}
  ELSE {[act |-> act[p].nr, about |-> c] : c \in act[p].claims}

\* Mutant of BindWrites: the result of write_file is not looked at.
BindWritesUnchecked(p) ==
  /\ Doing(p, "write")
  /\ Call(p, EventsOf(p))
  /\ act' = [act EXCEPT ![p].pc = "returning"]
  /\ UNCHANGED <<toml, counters, history>>

BindWrites(p) ==
  /\ WriteToml(p)
  /\ Call(p, EventsOf(p))
  /\ history' = [history EXCEPT
       !.authorized = @ \cup EventsOf(p),
       !.latest = [c \in Claim |-> IF c \in act[p].claims THEN act[p].nr ELSE @[c]],
       !.flags = @ \cup When("overlapped", \E q \in Process \ {p} : Doing(q, "write"))]
  /\ UNCHANGED counters

\* write_file fails: the old file stays, nothing is journaled.
BindFails(p) ==
  /\ Doing(p, "write")
  /\ faults < MaxFaults
  /\ act' = [act EXCEPT ![p] = IdleAct]
  /\ faults' = faults + 1
  /\ UNCHANGED <<toml, journalVars, commands, history>>

\* cmd_run after the executor ended: one ExecutionRun, a failure ignored.
RecordRun(p) ==
  /\ Free(p)
  /\ commands < MaxCommands
  /\ Call(p, {[act |-> commands + 1, about |-> NoClaim]})
  /\ act' = [act EXCEPT ![p] = [IdleAct EXCEPT !.pc = "returning", !.nr = commands + 1]]
  /\ commands' = commands + 1
  /\ UNCHANGED <<toml, faults, history>>

\* The command returns, with the error of append if it had one.
Finish(p) ==
  /\ Return(p)
  /\ act' = [act EXCEPT ![p] = IdleAct]
  /\ history' = [history EXCEPT !.acked = IF At(p, "written") THEN @ \cup EventsOf(p) ELSE @]
  /\ UNCHANGED <<toml, counters>>

(***************************************************************************)
(* A step of append, and what history remembers of it.                     *)
(*   torn: a text written into a line another writer has open, or left open*)
(*   crossed: a rename while another process is past its size check        *)
(*   collided: a rename over an archive of the same second                 *)
(*   passed: while a reader was on its way, a rename, or the removal of an *)
(*           archive it has listed and not opened yet                      *)
(***************************************************************************)
Others(p) == Process \ {p}
Renames(p) == At(p, "rename") /\ live # NoFile
Overtakes(p) ==
  \/ Renames(p) /\ view.pc = "reading"
  \/ \E s \in view.listed : archive'[s] # archive[s]

Appends(p) ==
  /\ AppendStep(p)
  /\ history' = [history EXCEPT
       !.order = IF At(p, "text") THEN Append(@, NextEvent(p)) ELSE @,
       !.flags = @
         \cup When("torn", At(p, "text") /\ \E q \in Others(p) :
                     append[q].pc \in {"newline", "cut"} /\ append[q].fd = append[p].fd)
         \cup When("crossed", Renames(p) /\ \E q \in Others(p) :
                     append[q].pc \in {"stamp", "rename", "text", "newline"})
         \cup When("collided", Renames(p) /\ archive[append[p].stamp] # NoFile)
         \cup When("passed", Overtakes(p))]
  /\ UNCHANGED <<bindingVars, counters>>

Kill(p) ==
  /\ ~Free(p)
  /\ faults < MaxFaults
  /\ act[p].pc # "dead"
  /\ Die(p)
  /\ act' = [act EXCEPT ![p].pc = "dead"]
  /\ faults' = faults + 1
  /\ UNCHANGED <<toml, commands, history>>

EditByHand ==
  /\ faults < MaxFaults
  /\ BreakToml
  /\ faults' = faults + 1
  /\ history' = [history EXCEPT !.flags = @ \cup {"mangled"}]
  /\ UNCHANGED <<journalVars, commands>>

-----------------------------------------------------------------------------
Retained == UNION {Parsed(files[i]) : i \in Named}

\* uni events --all, uni doctor, and the clock.
Events ==
  /\ \/ /\ ListToRead(history.acked \cap Retained)
        /\ history' = [history EXCEPT !.flags = @ \ {"passed"}]
     \/ (ReadArchive \/ ReadLive) /\ UNCHANGED history
  /\ UNCHANGED <<bindingVars, counters>>

Doctor == Touch /\ UNCHANGED <<bindingVars, counters, history>>

Time == Tick /\ UNCHANGED <<bindingVars, counters, history>>

Command(p) ==
  BindWrites(p) \/ BindFails(p) \/ Appends(p) \/ Finish(p)

Next ==
  \/ \E p \in Process : \E claims \in Lists : Bind(p, claims)
  \/ \E p \in Process : RecordRun(p) \/ Command(p) \/ Kill(p)
  \/ EditByHand \/ Events \/ Doctor \/ Time

Spec == Init /\ [][Next]_vars

-----------------------------------------------------------------------------
TypeOK ==
  /\ toml \in [entries : Entries, parses : BOOLEAN]
  /\ act \in [Process -> [pc : {"idle", "write", "returning", "dead"},
                          nr : 0..MaxCommands, claims : SUBSET Claim, seen : Entries]]
  /\ files \in Seq(File)
  /\ live \in 0..Len(files)
  /\ archive \in [Second -> 0..Len(files)]
  /\ clock \in Second
  /\ append \in [Process ->
       [pc : {"idle", "stamp", "rename", "list", "prune", "open", "text", "newline",
              "written", "failed", "cut", "dead"},
        batch : SUBSET Event, fd : 0..Len(files), stamp : Second, doomed : SUBSET Second]]
  /\ view \in [pc : {"idle", "reading"}, lacking : SUBSET Event, listed : SUBSET Second]
  /\ commands \in 0..MaxCommands /\ faults \in 0..MaxFaults
  /\ history \in [authorized : SUBSET Event, latest : Entries, acked : SUBSET Event,
                   order : Seq(Event), flags : SUBSET Flag]

(***************************************************************************)
(* The journal never tells of an authorization that did not happen: its    *)
(* record is written after the binding is in force, whatever is killed.    *)
(***************************************************************************)
RecordedActsHappened ==
  \A i \in Named : \A e \in Parsed(files[i]) : e.about # NoClaim => e \in history.authorized

(***************************************************************************)
(* The binding in force for a claim is the one authorized last, however    *)
(* many acts authorized other claims, one by one or from a file, and       *)
(* whatever older repositories left: unless two acts were between reading  *)
(* and writing bindings.toml at once, or somebody broke the file.          *)
(***************************************************************************)
LastAuthorizationStands ==
  history.flags \cap {"overlapped", "mangled"} = {} =>
    \A c \in Claim : history.latest[c] # NoBinding => LoadAll[c] = history.latest[c]

(***************************************************************************)
(* Auditability of the recent window: the last KeepArchives full files of  *)
(* events can be read back through every rotation and prune, unless two    *)
(* processes rotate or write across a rotation, or within one second.      *)
(***************************************************************************)
Recent(i) == Len(history.order) - i < KeepArchives * (MaxBytes + 1)

WindowKept ==
  history.flags \cap {"torn", "crossed", "collided"} = {} =>
    \A i \in DOMAIN history.order : Recent(i) => history.order[i] \in Retained

(***************************************************************************)
(* Whatever the interleaving of unlocked writers, renames and kills, an    *)
(* acknowledged event still in a file with a name is on a line of its own, *)
(* unless a writer came between another's text and its newline.            *)
(***************************************************************************)
WrittenIn(i) == {e \in Event : \E n \in DOMAIN files[i].lines :
                                 \E k \in DOMAIN files[i].lines[n] : files[i].lines[n][k] = e}

RecordsReadable ==
  "torn" \notin history.flags => \A i \in Named : WrittenIn(i) = Parsed(files[i])

(***************************************************************************)
(* `uni events --all` shows every acknowledged event that was retained     *)
(* when it listed the archives, unless before its last read the journal    *)
(* was rotated, or an archive it had still to open was pruned.             *)
(***************************************************************************)
ReaderSeesAll ==
  view.pc = "idle" /\ "passed" \notin history.flags => view.lacking = {}

(***************************************************************************)
(* docs/verification.md: every bind is journaled.  A binding in force whose*)
(* act is over, killed ones aside, has been acknowledged by the journal.   *)
(***************************************************************************)
EveryBindJournaled ==
  \A e \in history.authorized :
    e \in history.acked \/ \E p \in Process : act[p].nr = e.act
=============================================================================
