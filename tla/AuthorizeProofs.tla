-------------------------- MODULE AuthorizeProofs --------------------------
(***************************************************************************)
(* What bindings and journal may be relied on for, whatever processes,     *)
(* claims, sizes and faults there are.  Three invariants, each on top of   *)
(* the one before:                                                         *)
(*   Inv        only events of authorizations in force are on their way    *)
(*              into the journal or in it, and who is about to write       *)
(*              bindings.toml has seen what is in it;                      *)
(*   LineInv    an open line belongs to commands that are not acknowledged;*)
(*   WindowInv  what prune removes is older than KeepArchives full files.  *)
(***************************************************************************)
EXTENDS Authorize, WellFoundedInduction, FiniteSetTheorems, TLAPS

FileOf(S) == [lines : Seq(Seq(S)), size : Nat]

\* Files of some events are files of more events.
LEMMA FilesGrow ==
  ASSUME NEW S, NEW T, S \subseteq T
  PROVE  Seq(FileOf(S)) \subseteq Seq(FileOf(T))
<1>1. Seq(S) \subseteq Seq(T)
  OBVIOUS
<1>2. Seq(Seq(S)) \subseteq Seq(Seq(T))
  BY <1>1
<1>3. FileOf(S) \subseteq FileOf(T)
  BY <1>2 DEF FileOf
<1> QED BY <1>3

\* writeln! adds the text to the last line,
LEMMA TextAdded ==
  ASSUME NEW S, NEW file \in FileOf(S), NEW e \in S
  PROVE  WithText(file, e) \in FileOf(S)
<1> DEFINE lines == file.lines
           longer == [lines EXCEPT ![Len(lines)] = Append(@, e)]
<1>1. lines \in Seq(Seq(S)) /\ Len(lines) \in Nat /\ DOMAIN lines = 1..Len(lines)
  BY DEF FileOf
<1>2. \A i \in 1..Len(lines) : longer[i] \in Seq(S)
  <2>1. \A i \in 1..Len(lines) : lines[i] \in Seq(S) /\ Append(lines[i], e) \in Seq(S)
    BY <1>1
  <2> QED BY <1>1, <2>1
<1>3. longer \in Seq(Seq(S))
  <2>1. longer \in [1..Len(lines) -> Seq(S)]
    BY <1>1, <1>2
  <2> QED BY <1>1, <2>1
<1>4. WithText(file, e).lines = longer /\ WithText(file, e).size \in Nat
  BY DEF WithText, FileOf
<1>5. WithText(file, e) = [lines |-> longer, size |-> file.size + 1]
  BY DEF WithText
<1> HIDE DEF longer
<1> QED BY <1>3, <1>5 DEF FileOf

\* and opens the next one.
LEMMA NewlineAdded ==
  ASSUME NEW S, NEW file \in FileOf(S)
  PROVE  WithNewline(file) \in FileOf(S)
<1>1. Append(file.lines, <<>>) \in Seq(Seq(S))
  <2>1. <<>> \in Seq(S)
    OBVIOUS
  <2> QED BY <2>1 DEF FileOf
<1> QED BY <1>1 DEF FileOf, WithNewline

\* One file changed, the others stay.
LEMMA FileReplaced ==
  ASSUME NEW S, NEW seq \in Seq(S), NEW i, NEW v, i \in DOMAIN seq => v \in S
  PROVE  [seq EXCEPT ![i] = v] \in Seq(S) /\ Len([seq EXCEPT ![i] = v]) = Len(seq)
<1> DEFINE new == [seq EXCEPT ![i] = v]
<1>1. Len(seq) \in Nat /\ DOMAIN seq = 1..Len(seq) /\ \A k \in 1..Len(seq) : seq[k] \in S
  OBVIOUS
<1>2. new \in [1..Len(seq) -> S]
  BY <1>1
<1>3. new \in Seq(S) /\ DOMAIN new = 1..Len(seq)
  BY <1>1, <1>2
<1> HIDE DEF new
<1>4. Len(new) = Len(seq)
  BY <1>1, <1>3
<1> QED BY <1>3, <1>4 DEF new

\* A created file is one.
LEMMA EmptyIsFile ==
  ASSUME NEW S
  PROVE  EmptyFile \in FileOf(S)
BY DEF EmptyFile, FileOf


Less == {ss \in Nat \X Nat : ss[1] < ss[2]}

\* The library's order on numbers, as a set of pairs.
LEMMA LessWellFounded == IsWellFoundedOn(Less, Nat)
<1>1. OpToRel(<, Nat) = Less
  BY Zenon DEF OpToRel, Less
<1> QED BY <1>1, NatLessThanWellFounded

\* A set of numbers has a least one.
LEMMA LeastOf ==
  ASSUME NEW T, T \subseteq Nat, T # {}
  PROVE  \E m \in T : \A k \in T : m <= k
<1>1. PICK m \in T : \A k \in T : ~(<<k, m>> \in Less)
  BY LessWellFounded, WFMin
<1>2. ASSUME NEW k \in T PROVE m <= k
  <2>1. <<k, m>> \notin Less
    BY <1>1
  <2>2. <<k, m>> \in Nat \X Nat /\ <<k, m>>[1] = k /\ <<k, m>>[2] = m
    OBVIOUS
  <2>3. ~(k < m)
    BY <2>1, <2>2 DEF Less
  <2> QED BY <2>3
<1> QED BY <1>2

\* The events of a batch have a first one.
LEMMA NextOfBatch ==
  ASSUME NEW p, append[p].batch # {}, append[p].batch \subseteq Event
  PROVE  NextEvent(p) \in append[p].batch
<1> DEFINE Numbers == {e.about : e \in append[p].batch}
<1>1. \A e \in Event : e.about \in Nat
  <2>1. Claim \cup {NoClaim} \subseteq Nat
    BY ActsAssumption DEF NoClaim
  <2> QED BY <2>1 DEF Event
<1>2. Numbers \subseteq Nat /\ Numbers # {}
  BY <1>1
<1>3. PICK n \in Numbers : \A k \in Numbers : n <= k
  BY <1>2, LeastOf
<1>4. \E e \in append[p].batch : \A f \in append[p].batch : e.about <= f.about
  BY <1>3
<1> QED BY <1>4 DEF NextEvent

-----------------------------------------------------------------------------
\* The events that may be written: those of an authorization only once it is in force.
Allowed == {e \in Event : e.about # NoClaim => e \in history.authorized}

\* Only what may be written is on its way into the journal, or in it.
Recorded ==
  /\ files \in Seq(FileOf(Allowed))
  /\ \A p \in Process : append[p].batch \subseteq Allowed

\* A call of append belongs to a command, and comes after the command's own write.
Acting(p) ==
  /\ ~Doing(p, "idle") => act[p].nr > 0
  /\ ~At(p, "idle") => ~Doing(p, "idle")
  /\ Doing(p, "write") => At(p, "idle")
  /\ append[p].pc \in {"stamp", "rename", "list", "prune", "open", "text"} => append[p].batch # {}

\* Whoever is about to write bindings.toml has seen what is in it.
InForce ==
  history.flags \cap {"overlapped", "mangled"} = {} =>
    /\ toml.parses
    /\ \A p \in Process : Doing(p, "write") => act[p].seen = toml.entries
    /\ \A c \in Claim : history.latest[c] # NoBinding => toml.entries[c] = history.latest[c]

Inv == TypeOK /\ Recorded /\ InForce /\ \A p \in Process : Acting(p)

ActState == [pc : {"idle", "write", "returning", "dead"},
             nr : 0..MaxCommands, claims : SUBSET Claim, seen : Entries]
AppendState(n) ==
  [pc : {"idle", "stamp", "rename", "list", "prune", "open", "text", "newline",
         "written", "failed", "cut", "dead"},
   batch : SUBSET Event, fd : 0..n, stamp : Second, doomed : SUBSET Second]
HistoryState ==
  [authorized : SUBSET Event, latest : Entries, acked : SUBSET Event,
   order : Seq(Event), flags : SUBSET Flag]

LEMMA InitHolds == Init => Inv
<1> SUFFICES ASSUME Init PROVE Inv
  OBVIOUS
<1> USE ActsAssumption, JournalAssumption, AuthorizeAssumption
    DEF Init, BindingsInit, JournalInit, IdleAct, IdleAppend, IdleView, NoHistory,
        NoBinding, NoFile, Entries, Second
<1>1. TypeOK
  <2>1. toml \in [entries : Entries, parses : BOOLEAN] /\ act \in [Process -> ActState]
    BY DEF ActState
  <2>2. files \in Seq(File) /\ files = <<>> /\ Len(files) = 0
    OBVIOUS
  <2>3. append \in [Process -> AppendState(0)]
    BY DEF AppendState
  <2>4. history \in HistoryState
    BY DEF HistoryState
  <2>5. /\ live \in 0..0 /\ archive \in [Second -> 0..0] /\ clock \in Second
        /\ view \in [pc : {"idle", "reading"}, lacking : SUBSET Event, listed : SUBSET Second]
        /\ commands \in 0..MaxCommands /\ faults \in 0..MaxFaults
    OBVIOUS
  <2> QED BY <2>1, <2>2, <2>3, <2>4, <2>5 DEF TypeOK, ActState, AppendState, HistoryState
<1>2. Recorded /\ InForce /\ \A p \in Process : Acting(p)
  BY DEF Recorded, InForce, Acting, Doing, At
<1> QED BY <1>1, <1>2 DEF Inv

-----------------------------------------------------------------------------
\* What holds of the events of a command that acts.
LEMMA CommandEvents ==
  ASSUME Inv, NEW p \in Process, ~Doing(p, "idle")
  PROVE  /\ EventsOf(p) \subseteq Event
         /\ EventsOf(p) # {}
<1>1. act[p].nr \in 1..MaxCommands /\ act[p].claims \in SUBSET Claim
  BY ActsAssumption DEF Inv, TypeOK, Acting
<1>2. CASE act[p].claims = {}
  BY <1>1, <1>2 DEF EventsOf, Event, Stamp
<1>3. CASE act[p].claims # {}
  <2>1. EventsOf(p) = {[act |-> act[p].nr, about |-> c] : c \in act[p].claims}
    BY <1>3 DEF EventsOf
  <2>2. \A c \in act[p].claims : [act |-> act[p].nr, about |-> c] \in Event
    BY <1>1 DEF Event, Stamp
  <2> QED BY <1>3, <2>1, <2>2
<1> QED BY <1>2, <1>3

\* A call of append, by a process that has none.
LEMMA CallKeeps ==
  ASSUME Inv, NEW p \in Process, NEW batch, Call(p, batch), batch # {},
         batch \subseteq Allowed'
  PROVE  /\ append' \in [Process -> AppendState(Len(files))]
         /\ \A q \in Process : q # p => append'[q] = append[q]
         /\ append'[p].batch = batch /\ append'[p].pc \in {"stamp", "open"}
         /\ UNCHANGED <<files, live, archive, clock, view>>
<1> DEFINE s == [IdleAppend EXCEPT !.pc = IF live # NoFile /\ Oversized(files[live]) THEN "stamp" ELSE "open",
                                   !.batch = batch]
<1>1. append \in [Process -> AppendState(Len(files))] /\ clock \in Second /\ Len(files) \in Nat
  BY DEF Inv, TypeOK, AppendState
<1>2. batch \subseteq Event
  BY DEF Allowed
<1>3. s \in AppendState(Len(files)) /\ s.batch = batch /\ s.pc \in {"stamp", "open"}
  <2>1. IdleAppend \in AppendState(Len(files))
    BY <1>1, JournalAssumption DEF IdleAppend, AppendState, NoFile, Second
  <2>2. (IF live # NoFile /\ Oversized(files[live]) THEN "stamp" ELSE "open") \in {"stamp", "open"}
    OBVIOUS
  <2> QED BY <1>1, <1>2, <2>1, <2>2 DEF AppendState
<1>4. append' = [append EXCEPT ![p] = s] /\ UNCHANGED <<files, live, archive, clock, view>>
  BY Zenon DEF Call
<1> HIDE DEF s
<1> QED BY <1>1, <1>3, <1>4

\* A step that leaves the journal alone, or opens no new way into it.
LEMMA RecordedGrows ==
  ASSUME NEW S, files' \in Seq(FileOf(S)), S \subseteq Allowed',
         \A q \in Process : append'[q].batch \subseteq Allowed'
  PROVE  Recorded'
<1>1. files' \in Seq(FileOf(Allowed'))
  BY FilesGrow
<1> QED BY <1>1 DEF Recorded

-----------------------------------------------------------------------------
\* One lemma per action.
LEMMA BindKeeps ==
  ASSUME Inv, NEW p \in Process, NEW claims \in Lists, Bind(p, claims)
  PROVE  Inv'
<1> USE ActsAssumption, AuthorizeAssumption
<1> DEFINE s == [pc |-> "write", nr |-> commands + 1, claims |-> claims, seen |-> ReadFile]
<1>1. /\ act' = [act EXCEPT ![p] = s] /\ At(p, "idle") /\ commands < MaxCommands
      /\ commands' = commands + 1 /\ UNCHANGED <<toml, journalVars, faults, history>>
  BY DEF Bind, StartAct, Free
<1>2. ReadFile \in Entries
  BY DEF Inv, TypeOK, ReadFile, Entries, NoBinding
<1>3. s \in ActState /\ s.pc = "write" /\ s.nr > 0 /\ s.seen = ReadFile
  BY <1>1, <1>2 DEF Inv, TypeOK, ActState
<1> HIDE DEF s
<1>4. /\ act \in [Process -> ActState] /\ act' \in [Process -> ActState]
      /\ act'[p] = s /\ \A q \in Process : q # p => act'[q] = act[q]
  BY <1>1, <1>3 DEF Inv, TypeOK, ActState
<1>5. TypeOK'
  BY <1>1, <1>4 DEF Inv, TypeOK, ActState, journalVars
<1>6. Recorded'
  BY <1>1 DEF Inv, Recorded, Allowed, journalVars
<1>7. InForce'
  BY <1>1, <1>3, <1>4 DEF Inv, InForce, Doing, ReadFile
<1>8. ASSUME NEW q \in Process PROVE Acting(q)'
  BY <1>1, <1>3, <1>4 DEF Inv, Acting, Doing, At, journalVars
<1> QED BY <1>5, <1>6, <1>7, <1>8 DEF Inv

LEMMA BindWritesKeeps ==
  ASSUME Inv, NEW p \in Process, BindWrites(p)
  PROVE  Inv'
<1> USE ActsAssumption
<1> DEFINE s == [act[p] EXCEPT !.pc = "returning"]
<1>1. /\ act[p] \in ActState /\ act[p].pc = "write" /\ act[p].nr > 0 /\ act \in [Process -> ActState]
      /\ history \in HistoryState
      /\ toml \in [entries : Entries, parses : BOOLEAN]
  BY DEF BindWrites, WriteToml, Inv, TypeOK, Acting, Doing, ActState, HistoryState
<1>2. /\ toml' = [entries |-> Merged(act[p].seen, act[p].claims, act[p].nr), parses |-> TRUE]
      /\ act' = [act EXCEPT ![p] = s]
      /\ Call(p, EventsOf(p)) /\ UNCHANGED counters
  BY <1>1 DEF BindWrites, WriteToml, ActState
<1>3. s \in ActState /\ s.pc = "returning" /\ s.nr > 0
  BY <1>1 DEF ActState
<1> HIDE DEF s
<1>4. act' \in [Process -> ActState] /\ act'[p] = s /\ \A q \in Process : q # p => act'[q] = act[q]
  BY <1>1, <1>2, <1>3
<1>5. EventsOf(p) \subseteq Event /\ EventsOf(p) # {}
  BY <1>1, CommandEvents DEF Doing
<1> DEFINE latest == [c \in Claim |-> IF c \in act[p].claims THEN act[p].nr ELSE history.latest[c]]
<1>6. /\ history' \in HistoryState
      /\ history'.authorized = history.authorized \cup EventsOf(p)
      /\ history'.latest = latest
      /\ history.flags \subseteq history'.flags
      /\ "overlapped" \notin history'.flags => \A q \in Process \ {p} : ~Doing(q, "write")
  <2> DEFINE more == When("overlapped", \E q \in Process \ {p} : Doing(q, "write"))
  <2>1. history' = [history EXCEPT !.authorized = history.authorized \cup EventsOf(p),
                                   !.latest = latest, !.flags = history.flags \cup more]
    BY DEF BindWrites
  <2>2. more \subseteq Flag /\ ("overlapped" \notin more => \A q \in Process \ {p} : ~Doing(q, "write"))
    BY DEF When, Flag
  <2>3. latest \in Entries
    BY <1>1 DEF Entries, Stamp, ActState, HistoryState
  <2> HIDE DEF more, latest
  <2> QED BY <1>1, <1>5, <2>1, <2>2, <2>3 DEF HistoryState
<1>7. toml' \in [entries : Entries, parses : BOOLEAN]
  BY <1>1, <1>2 DEF Merged, Entries, Stamp, ActState
<1>8. Allowed \subseteq Allowed'
  BY <1>6 DEF Allowed
<1>9. EventsOf(p) \subseteq Allowed'
  BY <1>5, <1>6 DEF Allowed
<1>10. /\ append' \in [Process -> AppendState(Len(files))]
       /\ \A q \in Process : q # p => append'[q] = append[q]
       /\ append'[p].batch = EventsOf(p) /\ append'[p].pc \in {"stamp", "open"}
       /\ UNCHANGED <<files, live, archive, clock, view>>
  BY <1>2, <1>5, <1>9, CallKeeps
<1>11. TypeOK'
  BY <1>2, <1>4, <1>6, <1>7, <1>10
     DEF Inv, TypeOK, ActState, AppendState, HistoryState, counters
<1>12. Recorded'
  <2>1. \A q \in Process : append'[q].batch \subseteq Allowed'
    BY <1>8, <1>9, <1>10 DEF Inv, Recorded
  <2> QED BY <1>8, <1>10, <2>1, RecordedGrows DEF Inv, Recorded
<1>13. InForce'
  <2> SUFFICES ASSUME history'.flags \cap {"overlapped", "mangled"} = {}
               PROVE  /\ toml'.parses
                      /\ \A q \in Process : Doing(q, "write")' => act'[q].seen = toml'.entries
                      /\ \A c \in Claim : history'.latest[c] # NoBinding => toml'.entries[c] = history'.latest[c]
    BY DEF InForce
  <2>1. history.flags \cap {"overlapped", "mangled"} = {} /\ \A q \in Process \ {p} : ~Doing(q, "write")
    BY <1>6
  <2>2. act[p].seen = toml.entries
    BY <1>1, <2>1 DEF Inv, InForce, Doing
  <2>3. \A c \in Claim : history'.latest[c] # NoBinding => toml'.entries[c] = history'.latest[c]
    BY <1>2, <1>6, <2>1, <2>2 DEF Merged, Inv, InForce
  <2>4. \A q \in Process : ~Doing(q, "write")'
    BY <1>3, <1>4, <2>1 DEF Doing
  <2> QED BY <1>2, <2>3, <2>4
<1>14. ASSUME NEW q \in Process PROVE Acting(q)'
  BY <1>3, <1>4, <1>5, <1>10 DEF Inv, Acting, Doing, At
<1> QED BY <1>11, <1>12, <1>13, <1>14 DEF Inv

LEMMA BindFailsKeeps ==
  ASSUME Inv, NEW p \in Process, BindFails(p)
  PROVE  Inv'
<1>1. /\ act' = [act EXCEPT ![p] = IdleAct] /\ Doing(p, "write") /\ At(p, "idle")
      /\ UNCHANGED <<toml, journalVars, commands, history>> /\ faults' \in 0..MaxFaults
  BY AuthorizeAssumption DEF BindFails, Inv, TypeOK, Acting
<1>2. IdleAct \in ActState /\ IdleAct.pc = "idle"
  BY ActsAssumption DEF IdleAct, ActState, Entries
<1>3. act' \in [Process -> ActState] /\ act'[p] = IdleAct /\ \A q \in Process : q # p => act'[q] = act[q]
  BY <1>1, <1>2 DEF Inv, TypeOK, ActState
<1>4. TypeOK'
  BY <1>1, <1>3 DEF Inv, TypeOK, ActState, journalVars
<1>5. Recorded'
  BY <1>1 DEF Inv, Recorded, Allowed, journalVars
<1>6. InForce'
  BY <1>1, <1>2, <1>3 DEF Inv, InForce, Doing
<1>7. ASSUME NEW q \in Process PROVE Acting(q)'
  BY <1>1, <1>2, <1>3 DEF Inv, Acting, Doing, At, journalVars
<1> QED BY <1>4, <1>5, <1>6, <1>7 DEF Inv

LEMMA RecordRunKeeps ==
  ASSUME Inv, NEW p \in Process, RecordRun(p)
  PROVE  Inv'
<1> USE ActsAssumption
<1> DEFINE e == [act |-> commands + 1, about |-> NoClaim]
           s == [IdleAct EXCEPT !.pc = "returning", !.nr = commands + 1]
<1>1. /\ Call(p, {e}) /\ At(p, "idle") /\ Doing(p, "idle")
      /\ act' = [act EXCEPT ![p] = s] /\ commands' = commands + 1 /\ commands' \in 1..MaxCommands
      /\ UNCHANGED <<toml, faults, history>>
  BY DEF RecordRun, Free, Inv, TypeOK
<1>2. e \in Event /\ e.about = NoClaim
  BY <1>1 DEF Event, Stamp
<1>3. e \in Allowed' /\ Allowed' = Allowed
  BY <1>1, <1>2 DEF Allowed
<1>4. s \in ActState /\ s.pc = "returning" /\ s.nr > 0
  <2>1. IdleAct \in ActState
    BY DEF IdleAct, ActState, Entries
  <2>2. commands + 1 \in 0..MaxCommands /\ commands + 1 > 0
    BY <1>1
  <2> QED BY <2>1, <2>2 DEF ActState
<1> HIDE DEF e, s
<1>5. act' \in [Process -> ActState] /\ act'[p] = s /\ \A q \in Process : q # p => act'[q] = act[q]
  BY <1>1, <1>4 DEF Inv, TypeOK, ActState
<1>6. /\ append' \in [Process -> AppendState(Len(files))]
      /\ \A q \in Process : q # p => append'[q] = append[q]
      /\ append'[p].batch = {e} /\ append'[p].pc \in {"stamp", "open"}
      /\ UNCHANGED <<files, live, archive, clock, view>>
  BY <1>1, <1>3, CallKeeps
<1>7. TypeOK'
  <2>1. /\ append' \in [Process -> AppendState(Len(files'))] /\ act' \in [Process -> ActState]
        /\ files' = files /\ live' = live /\ archive' = archive /\ clock' = clock /\ view' = view
        /\ toml' = toml /\ faults' = faults /\ history' = history /\ commands' \in 0..MaxCommands
    BY <1>1, <1>5, <1>6
  <2> QED BY <2>1 DEF Inv, TypeOK, ActState, AppendState
<1>8. Recorded'
  BY <1>3, <1>6 DEF Inv, Recorded
<1>9. InForce'
  BY <1>1, <1>4, <1>5 DEF Inv, InForce, Doing
<1>10. ASSUME NEW q \in Process PROVE Acting(q)'
  <2>1. CASE q = p
    BY <1>4, <1>5, <1>6, <2>1 DEF Acting, Doing, At
  <2>2. CASE q # p
    <3>1. act'[q] = act[q] /\ append'[q] = append[q] /\ Acting(q)
      BY <1>5, <1>6, <2>2 DEF Inv
    <3> QED BY <3>1 DEF Acting, Doing, At
  <2> QED BY <2>1, <2>2
<1> QED BY <1>7, <1>8, <1>9, <1>10 DEF Inv

LEMMA FinishKeeps ==
  ASSUME Inv, NEW p \in Process, Finish(p)
  PROVE  Inv'
<1>1. /\ act' = [act EXCEPT ![p] = IdleAct] /\ append' = [append EXCEPT ![p] = IdleAppend]
      /\ append[p].pc \in {"written", "failed"}
      /\ UNCHANGED <<files, live, archive, clock, view, toml, counters>>
  BY DEF Finish, Return
<1>2. IdleAct \in ActState /\ IdleAct.pc = "idle"
  BY ActsAssumption DEF IdleAct, ActState, Entries
<1>3. IdleAppend \in AppendState(Len(files)) /\ IdleAppend.pc = "idle" /\ IdleAppend.batch = {}
  <2>1. Len(files) \in Nat
    BY DEF Inv, TypeOK
  <2> QED BY <2>1, JournalAssumption DEF IdleAppend, AppendState, NoFile, Second
<1>4. /\ act' \in [Process -> ActState] /\ act'[p] = IdleAct
      /\ \A q \in Process : q # p => act'[q] = act[q]
  BY <1>1, <1>2 DEF Inv, TypeOK, ActState
<1>5. /\ append' \in [Process -> AppendState(Len(files))] /\ append'[p] = IdleAppend
      /\ \A q \in Process : q # p => append'[q] = append[q]
  BY <1>1, <1>3 DEF Inv, TypeOK, AppendState
<1>6. EventsOf(p) \subseteq Event
  BY <1>1, CommandEvents DEF Inv, Acting, At
<1>7. /\ history' \in HistoryState
      /\ history'.authorized = history.authorized /\ history'.latest = history.latest
      /\ history'.flags = history.flags
  <2> DEFINE acked == IF At(p, "written") THEN history.acked \cup EventsOf(p) ELSE history.acked
  <2>1. history' = [history EXCEPT !.acked = acked]
    BY DEF Finish
  <2>2. history \in HistoryState
    BY DEF Inv, TypeOK, HistoryState
  <2>3. acked \subseteq Event
    BY <1>6, <2>2 DEF HistoryState
  <2> HIDE DEF acked
  <2> QED BY <2>1, <2>2, <2>3 DEF HistoryState
<1>8. TypeOK'
  BY <1>1, <1>4, <1>5, <1>7 DEF Inv, TypeOK, ActState, AppendState, HistoryState, counters
<1>9. Recorded'
  <2>1. Allowed' = Allowed
    BY <1>7 DEF Allowed
  <2> QED BY <1>1, <1>3, <1>5, <2>1 DEF Inv, Recorded
<1>10. InForce'
  BY <1>1, <1>2, <1>4, <1>7 DEF Inv, InForce, Doing
<1>11. ASSUME NEW q \in Process PROVE Acting(q)'
  BY <1>2, <1>3, <1>4, <1>5 DEF Inv, Acting, Doing, At
<1> QED BY <1>8, <1>9, <1>10, <1>11 DEF Inv

LEMMA KillKeeps ==
  ASSUME Inv, NEW p \in Process, Kill(p)
  PROVE  Inv'
<1> DEFINE s == [act[p] EXCEPT !.pc = "dead"]
           a == [append[p] EXCEPT !.pc = IF @ = "newline" THEN "cut" ELSE "dead"]
<1>1. /\ act[p] \in ActState /\ act \in [Process -> ActState]
      /\ append[p] \in AppendState(Len(files)) /\ append \in [Process -> AppendState(Len(files))]
  BY DEF Inv, TypeOK, ActState, AppendState
<1>2. ~Doing(p, "idle")
  BY DEF Kill, Free, Inv, Acting
<1>3. /\ act' = [act EXCEPT ![p] = s] /\ append' = [append EXCEPT ![p] = a]
      /\ UNCHANGED <<files, live, archive, clock, view, toml, commands, history>>
      /\ faults' \in 0..MaxFaults
  BY <1>1, AuthorizeAssumption DEF Kill, Die, Inv, TypeOK, ActState, AppendState
<1>4. s \in ActState /\ s.pc = "dead" /\ s.nr = act[p].nr
  BY <1>1 DEF ActState
<1>5. a \in AppendState(Len(files)) /\ a.pc \in {"cut", "dead"} /\ a.batch = append[p].batch
  BY <1>1 DEF AppendState
<1> HIDE DEF s, a
<1>6. /\ act' \in [Process -> ActState] /\ act'[p] = s
      /\ \A q \in Process : q # p => act'[q] = act[q]
      /\ append' \in [Process -> AppendState(Len(files))] /\ append'[p] = a
      /\ \A q \in Process : q # p => append'[q] = append[q]
  BY <1>1, <1>3, <1>4, <1>5
<1>7. TypeOK'
  BY <1>3, <1>6 DEF Inv, TypeOK, ActState, AppendState
<1>8. Recorded'
  <2>1. Allowed' = Allowed
    BY <1>3 DEF Allowed
  <2> QED BY <1>3, <1>5, <1>6, <2>1 DEF Inv, Recorded
<1>9. InForce'
  BY <1>3, <1>4, <1>6 DEF Inv, InForce, Doing
<1>10. ASSUME NEW q \in Process PROVE Acting(q)'
  BY <1>2, <1>4, <1>5, <1>6 DEF Inv, Acting, Doing, At
<1> QED BY <1>7, <1>8, <1>9, <1>10 DEF Inv

\* What the other steps have in common: they change nothing but the journal.
LEMMA JournalKeeps ==
  ASSUME Inv, UNCHANGED <<toml, act, counters>>,
         files' \in Seq(FileOf(Allowed)), Len(files') >= Len(files),
         live' \in 0..Len(files'), archive' \in [Second -> 0..Len(files')], clock' \in Second,
         append' \in [Process -> AppendState(Len(files'))],
         \A q \in Process : \/ append'[q] = append[q]
                            \/ /\ append'[q].batch \subseteq append[q].batch
                               /\ append[q].pc # "idle"
                               /\ append'[q].pc \in {"stamp", "rename", "list", "prune", "open", "text"} =>
                                    append'[q].batch # {},
         view' \in [pc : {"idle", "reading"}, lacking : SUBSET Event, listed : SUBSET Second],
         history' \in HistoryState,
         history'.authorized = history.authorized, history'.latest = history.latest,
         history.flags \ {"passed"} \subseteq history'.flags
  PROVE  Inv'
<1>1. Allowed' = Allowed
  BY DEF Allowed
<1>2. Recorded'
  <2>1. \A q \in Process : append'[q].batch \subseteq Allowed
    BY DEF Inv, Recorded
  <2> QED BY <1>1, <2>1 DEF Recorded
<1>3. files' \in Seq(File)
  <2>1. Allowed \subseteq Event
    BY DEF Allowed
  <2>2. FileOf(Event) = File
    BY DEF FileOf, File
  <2> QED BY <2>1, <2>2, FilesGrow
<1>4. TypeOK'
  BY <1>3 DEF Inv, TypeOK, AppendState, HistoryState, counters
<1>5. InForce'
  BY DEF Inv, InForce, Doing
<1>6. ASSUME NEW q \in Process PROVE Acting(q)'
  BY DEF Inv, Acting, Doing, At
<1> QED BY <1>2, <1>4, <1>5, <1>6 DEF Inv

\* What a step of append does to the caller: it stays within its batch.
Goes(p, n) ==
  \E a \in AppendState(n) :
    /\ append' = [append EXCEPT ![p] = a]
    /\ a.batch \subseteq append[p].batch
    /\ a.pc \in {"stamp", "rename", "list", "prune", "open", "text"} => a.batch # {}

LEMMA BatchStays ==
  ASSUME Inv, NEW p \in Process, NEW n \in Nat, NEW a \in AppendState(n),
         append' = [append EXCEPT ![p] = a], a.batch = append[p].batch,
         append[p].pc \in {"stamp", "rename", "list", "prune", "open"}
  PROVE  Goes(p, n)
<1>1. a.batch # {}
  BY DEF Inv, Acting
<1> QED BY <1>1 DEF Goes

LEMMA AppendEffect ==
  ASSUME Inv, NEW p \in Process, AppendStep(p)
  PROVE  /\ files' \in Seq(FileOf(Allowed)) /\ Len(files') >= Len(files)
         /\ live' \in 0..Len(files') /\ archive' \in [Second -> 0..Len(files')]
         /\ UNCHANGED <<clock, view>>
         /\ append[p].pc # "idle"
         /\ Goes(p, Len(files'))
<1>1. /\ append \in [Process -> AppendState(Len(files))] /\ append[p] \in AppendState(Len(files))
      /\ files \in Seq(FileOf(Allowed)) /\ Len(files) \in Nat
      /\ live \in 0..Len(files) /\ archive \in [Second -> 0..Len(files)]
  BY DEF Inv, TypeOK, AppendState, Recorded
<1>2. append[p].fd \in 0..Len(files) /\ append[p].doomed \in SUBSET Second
  BY <1>1 DEF AppendState
<1>3. CASE Rename(p)
  <2> DEFINE a == [append[p] EXCEPT !.pc = "list"]
  <2>1. append' = [append EXCEPT ![p] = a]
    BY <1>1, <1>3 DEF Rename, Goto, AppendState
  <2>2. a \in AppendState(Len(files)) /\ a.batch = append[p].batch
    BY <1>1 DEF AppendState
  <2> HIDE DEF a
  <2>3. Goes(p, Len(files))
    BY <1>1, <1>3, <2>1, <2>2, BatchStays DEF Rename, At
  <2>4. archive' \in [Second -> 0..Len(files)]
    <3>1. archive' = [archive EXCEPT ![append[p].stamp] = live]
      BY <1>3 DEF Rename
    <3> QED BY <1>1, <3>1
  <2>5. live' \in 0..Len(files) /\ UNCHANGED <<files, clock, view>>
    BY <1>1, <1>3 DEF Rename, NoFile
  <2> QED BY <1>1, <1>3, <2>3, <2>4, <2>5 DEF Rename, At
<1>4. CASE RenameFails(p)
  <2> DEFINE a == [append[p] EXCEPT !.pc = "failed"]
  <2>1. append' = [append EXCEPT ![p] = a]
    BY <1>1, <1>4 DEF RenameFails, Goto, AppendState
  <2>2. a \in AppendState(Len(files)) /\ a.batch = append[p].batch
    BY <1>1 DEF AppendState
  <2> HIDE DEF a
  <2>3. Goes(p, Len(files))
    BY <1>1, <1>4, <2>1, <2>2, BatchStays DEF RenameFails, At
  <2> QED BY <1>1, <1>4, <2>3 DEF RenameFails, At
<1>5. CASE ListArchives(p)
  <2> DEFINE pc == IF Surplus = {} THEN "open" ELSE "prune"
             a == [append[p] EXCEPT !.doomed = Surplus, !.pc = pc]
  <2>1. Surplus \in SUBSET Second /\ pc \in {"open", "prune"}
    BY DEF Surplus, Archives
  <2>2. append' = [append EXCEPT ![p] = a]
    BY <1>1, <1>5 DEF ListArchives, AppendState
  <2>3. a \in AppendState(Len(files)) /\ a.batch = append[p].batch
    BY <1>1, <2>1 DEF AppendState
  <2> HIDE DEF a
  <2>4. Goes(p, Len(files))
    BY <1>1, <1>5, <2>2, <2>3, BatchStays DEF ListArchives, At
  <2> QED BY <1>1, <1>5, <2>4 DEF ListArchives, At
<1>6. CASE RemoveOldest(p)
  <2>1. PICK s \in append[p].doomed :
          /\ archive' = [archive EXCEPT ![s] = NoFile]
          /\ append' = [append EXCEPT ![p].doomed = @ \ {s},
                                      ![p].pc = IF append[p].doomed = {s} THEN "open" ELSE "prune"]
    BY <1>6 DEF RemoveOldest
  <2> DEFINE pc == IF append[p].doomed = {s} THEN "open" ELSE "prune"
             a == [append[p] EXCEPT !.doomed = append[p].doomed \ {s}, !.pc = pc]
  <2>2. append' = [append EXCEPT ![p] = a]
    BY <1>1, <2>1 DEF AppendState
  <2>3. append[p].doomed \ {s} \in SUBSET Second /\ pc \in {"open", "prune"}
    BY <1>2
  <2>4. a \in AppendState(Len(files)) /\ a.batch = append[p].batch
    BY <1>1, <2>3 DEF AppendState
  <2> HIDE DEF a
  <2>5. Goes(p, Len(files))
    BY <1>1, <1>6, <2>2, <2>4, BatchStays DEF RemoveOldest, At
  <2>6. archive' \in [Second -> 0..Len(files)]
    BY <1>1, <1>2, <2>1 DEF NoFile
  <2> QED BY <1>1, <1>6, <2>5, <2>6 DEF RemoveOldest, At
<1>7. CASE Open(p)
  <2> DEFINE fd == IF live = NoFile THEN Len(files) + 1 ELSE live
             a == [append[p] EXCEPT !.pc = "text", !.fd = fd]
  <2>1. append' = [append EXCEPT ![p] = a]
    <3>1. CASE live = NoFile
      BY <1>1, <1>7, <3>1 DEF Open, AppendState
    <3>2. CASE live # NoFile
      BY <1>1, <1>7, <3>2 DEF Open, AppendState
    <3> QED BY <3>1, <3>2
  <2>2. /\ files' \in Seq(FileOf(Allowed)) /\ Len(files') >= Len(files) /\ Len(files') \in Nat
        /\ live' \in 0..Len(files') /\ fd \in 0..Len(files')
    <3>1. CASE live = NoFile
      <4>1. files' = Append(files, EmptyFile) /\ live' = Len(files) + 1
        BY <1>7, <3>1 DEF Open
      <4>2. EmptyFile \in FileOf(Allowed)
        BY EmptyIsFile
      <4>3. files' \in Seq(FileOf(Allowed)) /\ Len(files') = Len(files) + 1
        BY <1>1, <4>1, <4>2
      <4> QED BY <1>1, <3>1, <4>1, <4>3
    <3>2. CASE live # NoFile
      BY <1>1, <1>7, <3>2 DEF Open
    <3> QED BY <3>1, <3>2
  <2>3. a \in AppendState(Len(files')) /\ a.batch = append[p].batch
    BY <1>1, <2>2 DEF AppendState
  <2> HIDE DEF a
  <2>4. Goes(p, Len(files'))
    BY <1>1, <1>7, <2>1, <2>2, <2>3, BatchStays DEF Open, At
  <2> QED BY <1>1, <1>7, <2>2, <2>4 DEF Open, At
<1>8. CASE WriteText(p)
  <2> DEFINE e == NextEvent(p)
             a == [append[p] EXCEPT !.pc = "newline", !.batch = append[p].batch \ {e}]
  <2>1. e \in Allowed
    <3>1. append[p].batch # {} /\ append[p].batch \subseteq Allowed
      BY <1>8 DEF WriteText, At, Inv, Acting, Recorded
    <3>2. append[p].batch \subseteq Event
      BY <1>1 DEF AppendState
    <3> QED BY <3>1, <3>2, NextOfBatch
  <2>2. /\ append' = [append EXCEPT ![p] = a]
        /\ files' = [files EXCEPT ![append[p].fd] = WithText(files[append[p].fd], e)]
        /\ append[p].pc = "text" /\ UNCHANGED <<live, archive, clock, view>>
    BY <1>1, <1>8 DEF WriteText, At, AppendState
  <2>3. a \in AppendState(Len(files)) /\ a.pc = "newline" /\ a.batch \subseteq append[p].batch
    <3>1. append[p].batch \ {e} \in SUBSET Event
      BY <1>1 DEF AppendState
    <3> HIDE DEF e
    <3>2. a \in AppendState(Len(files))
      BY <1>1, <3>1 DEF AppendState
    <3>3. a.pc = "newline" /\ a.batch = append[p].batch \ {e}
      BY <1>1 DEF AppendState
    <3> QED BY <3>2, <3>3
  <2> HIDE DEF a, e
  <2>4. \A i \in DOMAIN files : WithText(files[i], e) \in FileOf(Allowed)
    BY <1>1, <2>1, TextAdded
  <2>5. files' \in Seq(FileOf(Allowed)) /\ Len(files') = Len(files)
    <3> DEFINE fd == append[p].fd
               text == WithText(files[fd], e)
    <3>1. fd \in DOMAIN files => text \in FileOf(Allowed)
      BY <2>4
    <3>2. files' = [files EXCEPT ![fd] = text]
      BY <2>2
    <3> HIDE DEF fd, text
    <3> QED BY <1>1, <3>1, <3>2, FileReplaced
  <2>6. Goes(p, Len(files))
    BY <2>2, <2>3 DEF Goes
  <2>7. append[p].pc # "idle"
    BY <2>2
  <2> QED BY <1>1, <2>2, <2>5, <2>6, <2>7
<1>9. CASE WriteNewline(p)
  <2> DEFINE pc == IF append[p].batch = {} THEN "written" ELSE "text"
             a == [append[p] EXCEPT !.pc = pc]
  <2>1. /\ append' = [append EXCEPT ![p] = a]
        /\ files' = [files EXCEPT ![append[p].fd] = WithNewline(files[append[p].fd])]
        /\ append[p].pc = "newline" /\ UNCHANGED <<live, archive, clock, view>>
    BY <1>1, <1>9 DEF WriteNewline, Goto, At, AppendState
  <2>2. /\ a \in AppendState(Len(files)) /\ a.batch = append[p].batch
        /\ a.pc = "written" \/ (a.pc = "text" /\ a.batch # {})
    <3>1. pc = "written" \/ (pc = "text" /\ append[p].batch # {})
      OBVIOUS
    <3> HIDE DEF pc
    <3>2. a \in AppendState(Len(files))
      BY <1>1, <3>1 DEF AppendState
    <3>3. a.pc = pc /\ a.batch = append[p].batch
      BY <1>1 DEF AppendState
    <3> QED BY <3>1, <3>2, <3>3
  <2> HIDE DEF a
  <2>3. \A i \in DOMAIN files : WithNewline(files[i]) \in FileOf(Allowed)
    BY <1>1, NewlineAdded
  <2>4. files' \in Seq(FileOf(Allowed)) /\ Len(files') = Len(files)
    <3> DEFINE fd == append[p].fd
               text == WithNewline(files[fd])
    <3>1. fd \in DOMAIN files => text \in FileOf(Allowed)
      BY <2>3
    <3>2. files' = [files EXCEPT ![fd] = text]
      BY <2>1
    <3> HIDE DEF fd, text
    <3> QED BY <1>1, <3>1, <3>2, FileReplaced
  <2>5. a.pc \in {"stamp", "rename", "list", "prune", "open", "text"} => a.batch # {}
    BY <2>2
  <2>6. Goes(p, Len(files))
    BY <2>1, <2>2, <2>5 DEF Goes
  <2>7. append[p].pc # "idle"
    BY <2>1
  <2> QED BY <1>1, <2>1, <2>4, <2>6, <2>7
<1>10. CASE NameArchive(p)
  <2> DEFINE a == [append[p] EXCEPT !.pc = "rename", !.stamp = clock]
  <2>1. append' = [append EXCEPT ![p] = a]
    BY <1>1, <1>10 DEF NameArchive, AppendState
  <2>2. a \in AppendState(Len(files)) /\ a.batch = append[p].batch
    BY <1>1 DEF AppendState, Inv, TypeOK
  <2> HIDE DEF a
  <2>3. Goes(p, Len(files))
    BY <1>1, <1>10, <2>1, <2>2, BatchStays DEF NameArchive, At
  <2> QED BY <1>1, <1>10, <2>3 DEF NameArchive, At
<1> QED BY <1>3, <1>4, <1>5, <1>6, <1>7, <1>8, <1>9, <1>10 DEF AppendStep

LEMMA AppendsKeeps ==
  ASSUME Inv, NEW p \in Process, Appends(p)
  PROVE  Inv'
<1>1. AppendStep(p) /\ UNCHANGED <<toml, act, counters>>
  BY DEF Appends, bindingVars
<1>2. /\ files' \in Seq(FileOf(Allowed)) /\ Len(files') >= Len(files)
      /\ live' \in 0..Len(files') /\ archive' \in [Second -> 0..Len(files')]
      /\ UNCHANGED <<clock, view>> /\ append[p].pc # "idle"
  BY <1>1, AppendEffect
<1>3. PICK a \in AppendState(Len(files')) :
        /\ append' = [append EXCEPT ![p] = a]
        /\ a.batch \subseteq append[p].batch
        /\ a.pc \in {"stamp", "rename", "list", "prune", "open", "text"} => a.batch # {}
  BY <1>1, AppendEffect DEF Goes
<1>4. append' \in [Process -> AppendState(Len(files'))]
  <2>1. append \in [Process -> AppendState(Len(files'))]
    <3>1. append \in [Process -> AppendState(Len(files))] /\ Len(files) \in Nat /\ Len(files') \in Nat
      <4>1. append \in [Process -> AppendState(Len(files))]
        BY DEF Inv, TypeOK, AppendState
      <4>2. files \in Seq(FileOf(Allowed)) /\ files' \in Seq(FileOf(Allowed))
        BY <1>2 DEF Inv, Recorded
      <4> QED BY <4>1, <4>2
    <3>2. 0..Len(files) \subseteq 0..Len(files')
      BY <1>2, <3>1
    <3>3. AppendState(Len(files)) \subseteq AppendState(Len(files'))
      BY <3>2 DEF AppendState
    <3> QED BY <3>1, <3>3
  <2> QED BY <1>3, <2>1
<1>5. \A q \in Process : \/ append'[q] = append[q]
                         \/ /\ append'[q].batch \subseteq append[q].batch
                            /\ append[q].pc # "idle"
                            /\ append'[q].pc \in {"stamp", "rename", "list", "prune", "open", "text"} =>
                                 append'[q].batch # {}
  <2>1. append \in [Process -> AppendState(Len(files))]
    BY DEF Inv, TypeOK, AppendState
  <2> QED BY <1>2, <1>3, <2>1
<1>6. /\ history' \in HistoryState
      /\ history'.authorized = history.authorized /\ history'.latest = history.latest
      /\ history.flags \subseteq history'.flags
  <2> DEFINE order == IF At(p, "text") THEN Append(history.order, NextEvent(p)) ELSE history.order
  <2>1. PICK more \in SUBSET Flag :
          history' = [history EXCEPT !.order = order, !.flags = history.flags \cup more]
    <3> DEFINE torn == When("torn", At(p, "text") /\ \E q \in Others(p) :
                         append[q].pc \in {"newline", "cut"} /\ append[q].fd = append[p].fd)
               crossed == When("crossed", Renames(p) /\ \E q \in Others(p) :
                         append[q].pc \in {"stamp", "rename", "text", "newline"})
               collided == When("collided", Renames(p) /\ archive[append[p].stamp] # NoFile)
               passed == When("passed", Overtakes(p))
    <3>1. torn \cup crossed \cup collided \cup passed \in SUBSET Flag
      BY DEF When, Flag
    <3>2. history' = [history EXCEPT !.order = order,
                        !.flags = history.flags \cup torn \cup crossed \cup collided \cup passed]
      BY DEF Appends
    <3>3. history.flags \cup torn \cup crossed \cup collided \cup passed
            = history.flags \cup (torn \cup crossed \cup collided \cup passed)
      OBVIOUS
    <3> HIDE DEF torn, crossed, collided, passed, order
    <3> QED BY <3>1, <3>2, <3>3
  <2>2. history \in HistoryState
    BY DEF Inv, TypeOK, HistoryState
  <2>3. order \in Seq(Event)
    <3>1. history.order \in Seq(Event)
      BY <2>2 DEF HistoryState
    <3>2. CASE At(p, "text")
      <4>1. append[p].batch # {} /\ append[p].batch \subseteq Event
        BY <3>2 DEF At, Inv, Acting, TypeOK
      <4>2. NextEvent(p) \in Event
        BY <4>1, NextOfBatch
      <4> QED BY <3>1, <3>2, <4>2
    <3> QED BY <3>1, <3>2
  <2> HIDE DEF order
  <2> QED BY <2>1, <2>2, <2>3 DEF HistoryState
<1>7. clock' \in Second /\ view' \in [pc : {"idle", "reading"}, lacking : SUBSET Event, listed : SUBSET Second]
  BY <1>2 DEF Inv, TypeOK
<1> QED BY <1>1, <1>2, <1>4, <1>5, <1>6, <1>7, JournalKeeps

\* Readers, doctor and clock: no call of append goes on.
LEMMA OthersKeep ==
  ASSUME Inv, Events \/ Doctor \/ Time
  PROVE  Inv'
<1>1. /\ append \in [Process -> AppendState(Len(files))] /\ history \in HistoryState
      /\ files \in Seq(FileOf(Allowed)) /\ Len(files) \in Nat
      /\ live \in 0..Len(files) /\ archive \in [Second -> 0..Len(files)] /\ clock \in Second
      /\ view \in [pc : {"idle", "reading"}, lacking : SUBSET Event, listed : SUBSET Second]
  BY DEF Inv, TypeOK, AppendState, HistoryState, Recorded
<1>2. UNCHANGED <<toml, act, counters, append>>
  BY DEF Events, Doctor, Time, ListToRead, ReadArchive, ReadLive, Touch, Tick, bindingVars
<1>3. /\ files' \in Seq(FileOf(Allowed)) /\ Len(files') \in Nat /\ Len(files') >= Len(files)
      /\ live' \in 0..Len(files') /\ archive' \in [Second -> 0..Len(files')]
  <2>1. CASE Doctor
    <3>1. files' = Append(files, EmptyFile) /\ live' = Len(files) + 1 /\ archive' = archive
      BY <2>1 DEF Doctor, Touch
    <3>2. EmptyFile \in FileOf(Allowed)
      BY EmptyIsFile
    <3>3. files' \in Seq(FileOf(Allowed)) /\ Len(files') = Len(files) + 1
      BY <1>1, <3>1, <3>2
    <3>4. 0..Len(files) \subseteq 0..Len(files')
      BY <1>1, <3>3
    <3>5. archive' \in [Second -> 0..Len(files')]
      BY <1>1, <3>1, <3>4
    <3> QED BY <1>1, <3>1, <3>3, <3>5
  <2>2. CASE Events \/ Time
    <3>1. UNCHANGED <<files, live, archive>>
      BY <2>2 DEF Events, Time, ListToRead, ReadArchive, ReadLive, Tick
    <3> QED BY <1>1, <3>1
  <2> QED BY <2>1, <2>2
<1>4. append' \in [Process -> AppendState(Len(files'))]
  <2>1. 0..Len(files) \subseteq 0..Len(files')
    BY <1>1, <1>3
  <2>2. AppendState(Len(files)) \subseteq AppendState(Len(files'))
    BY <2>1 DEF AppendState
  <2> QED BY <1>1, <1>2, <2>2
<1>5. clock' \in Second
  <2>1. CASE Time
    BY <1>1, <2>1, JournalAssumption DEF Time, Tick, Second
  <2>2. CASE Events \/ Doctor
    BY <1>1, <2>2 DEF Events, Doctor, ListToRead, ReadArchive, ReadLive, Touch
  <2> QED BY <2>1, <2>2
<1>6. view' \in [pc : {"idle", "reading"}, lacking : SUBSET Event, listed : SUBSET Second]
  <2>1. CASE ListToRead(history.acked \cap Retained)
    <3>1. history.acked \subseteq Event
      BY <1>1 DEF HistoryState
    <3>2. Archives \subseteq Second
      BY DEF Archives
    <3> QED BY <2>1, <3>1, <3>2 DEF ListToRead, ToRead
  <2>2. CASE ReadArchive \/ ReadLive
    BY <1>1, <2>2 DEF ReadArchive, ReadLive, IdleView
  <2>3. CASE Doctor \/ Time
    BY <1>1, <2>3 DEF Doctor, Time, Touch, Tick
  <2> QED BY <2>1, <2>2, <2>3 DEF Events
<1>7. /\ history' \in HistoryState
      /\ history'.authorized = history.authorized /\ history'.latest = history.latest
      /\ history.flags \ {"passed"} \subseteq history'.flags
  <2>1. history' = [history EXCEPT !.flags = history.flags \ {"passed"}] \/ history' = history
    BY DEF Events, Doctor, Time
  <2> QED BY <1>1, <2>1 DEF HistoryState
<1>8. \A q \in Process : append'[q] = append[q]
  BY <1>2
<1> QED BY <1>2, <1>3, <1>4, <1>5, <1>6, <1>7, <1>8, JournalKeeps

LEMMA EditKeeps ==
  ASSUME Inv, EditByHand
  PROVE  Inv'
<1>1. /\ toml' = [toml EXCEPT !.parses = FALSE] /\ UNCHANGED <<act, journalVars, commands>>
      /\ history' = [history EXCEPT !.flags = history.flags \cup {"mangled"}]
      /\ faults' \in 0..MaxFaults
  BY AuthorizeAssumption DEF EditByHand, BreakToml, Inv, TypeOK
<1>2. /\ history' \in HistoryState /\ history'.authorized = history.authorized
      /\ "mangled" \in history'.flags
  BY <1>1 DEF Inv, TypeOK, HistoryState, Flag
<1>3. toml' \in [entries : Entries, parses : BOOLEAN]
  BY <1>1 DEF Inv, TypeOK
<1>4. TypeOK'
  BY <1>1, <1>2, <1>3 DEF Inv, TypeOK, HistoryState, journalVars
<1>5. Recorded'
  <2>1. Allowed' = Allowed
    BY <1>2 DEF Allowed
  <2> QED BY <1>1, <2>1 DEF Inv, Recorded, journalVars
<1>6. InForce'
  BY <1>2 DEF InForce
<1>7. ASSUME NEW q \in Process PROVE Acting(q)'
  BY <1>1 DEF Inv, Acting, Doing, At, journalVars
<1> QED BY <1>4, <1>5, <1>6, <1>7 DEF Inv

LEMMA StepKeeps == Inv /\ [Next]_vars => Inv'
<1> SUFFICES ASSUME Inv, [Next]_vars PROVE Inv'
  OBVIOUS
<1>1. CASE \E p \in Process : \E claims \in Lists : Bind(p, claims)
  BY <1>1, BindKeeps
<1>2. CASE \E p \in Process : RecordRun(p) \/ Kill(p)
  BY <1>2, RecordRunKeeps, KillKeeps
<1>3. CASE \E p \in Process : Command(p)
  BY <1>3, BindWritesKeeps, BindFailsKeeps, AppendsKeeps, FinishKeeps DEF Command
<1>4. CASE EditByHand
  BY <1>4, EditKeeps
<1>5. CASE Events \/ Doctor \/ Time
  BY <1>5, OthersKeep
<1>6. CASE UNCHANGED vars
  <2>1. Allowed' = Allowed
    BY <1>6 DEF vars, Allowed
  <2>2. TypeOK' /\ Recorded' /\ InForce'
    BY <1>6, <2>1 DEF vars, bindingVars, journalVars, counters, Inv, TypeOK, Recorded, InForce, Doing
  <2>3. \A q \in Process : Acting(q)'
    BY <1>6 DEF vars, bindingVars, journalVars, Inv, Acting, Doing, At
  <2> QED BY <2>2, <2>3 DEF Inv
<1> QED BY <1>1, <1>2, <1>3, <1>4, <1>5, <1>6 DEF Next

LEMMA InvHolds == Spec => []Inv
BY InitHolds, StepKeeps, PTL DEF Spec

\* No name ever points to a file that was not created, no call to a descriptor
\* that was not opened.
THEOREM TypeCorrect == Spec => []TypeOK
<1>1. Inv => TypeOK
  BY DEF Inv
<1> QED BY <1>1, InvHolds, PTL

\* Whatever is killed, torn or rotated: what the journal tells has happened.
THEOREM NothingInvented == Spec => []RecordedActsHappened
<1>1. Inv => RecordedActsHappened
  <2> SUFFICES ASSUME Inv, NEW i \in Named, NEW e \in Parsed(files[i]), e.about # NoClaim
               PROVE  e \in history.authorized
    BY DEF RecordedActsHappened
  <2>1. files \in Seq(FileOf(Allowed)) /\ i \in DOMAIN files
    <3>1. files \in Seq(FileOf(Allowed)) /\ DOMAIN files = 1..Len(files) /\ Len(files) \in Nat
      BY DEF Inv, Recorded
    <3>2. live \in 0..Len(files) /\ \A s \in Second : archive[s] \in 0..Len(files)
      BY DEF Inv, TypeOK
    <3>3. i \in 0..Len(files) /\ i # 0
      BY <3>2 DEF Named, Archives, NoFile
    <3> QED BY <3>1, <3>3
  <2>2. files[i].lines \in Seq(Seq(Allowed))
    <3>1. files[i] \in FileOf(Allowed)
      BY <2>1
    <3> QED BY <3>1 DEF FileOf
  <2>3. PICK n \in DOMAIN files[i].lines : files[i].lines[n] = <<e>>
    BY DEF Parsed
  <2>4. files[i].lines[n] \in Seq(Allowed)
    BY <2>2
  <2>5. e = files[i].lines[n][1] /\ 1 \in DOMAIN files[i].lines[n]
    BY <2>3
  <2>6. e \in Allowed
    BY <2>4, <2>5
  <2> QED BY <2>6 DEF Allowed
<1> QED BY <1>1, InvHolds, PTL

\* Of any number of acts on any claims the last one counts, unless two of them
\* overlapped or the file was broken by hand.
THEOREM LastActCounts == Spec => []LastAuthorizationStands
<1>1. Inv => LastAuthorizationStands
  BY DEF Inv, InForce, LastAuthorizationStands, LoadAll, ReadFile
<1> QED BY <1>1, InvHolds, PTL

-----------------------------------------------------------------------------
(***************************************************************************)
(* The lines of the journal and its reader.  A line that is still open     *)
(* belongs to the commands in the middle of writing it; a command that     *)
(* writes has not been acknowledged, and the numbers tell commands apart.  *)
(***************************************************************************)
Busy(p) == ~Doing(p, "idle")
HasOpen(p, i) == append[p].pc \in {"newline", "cut"} /\ append[p].fd = i
LastLine(file) == file.lines[Len(file.lines)]
Writing(p) == append[p].pc \notin {"idle", "dead"}

\* No two commands share a number, and none acts on after it was acknowledged.
Numbered ==
  /\ \A p \in Process : Busy(p) => act[p].nr <= commands
  /\ \A p, q \in Process : Busy(p) /\ Busy(q) /\ p # q => act[p].nr # act[q].nr
  /\ \A p \in Process : Writing(p) => \A e \in append[p].batch : e.act = act[p].nr
  /\ \A e \in history.acked :
       e.act <= commands /\ \A p \in Process : Busy(p) => act[p].nr # e.act

\* What is in the last line of a file was put there by who has it open.
LinesOpen ==
  /\ \A p \in Process : At(p, "cut") => Doing(p, "dead")
  /\ \A i \in DOMAIN files :
       /\ Len(files[i].lines) >= 1
       /\ \A k \in DOMAIN LastLine(files[i]) :
            \E p \in Process : HasOpen(p, i) /\ act[p].nr = LastLine(files[i])[k].act

\* Without a torn line there are lines of one text and empty ones.
LinesShort ==
  "torn" \notin history.flags =>
    \A i \in DOMAIN files : \A n \in DOMAIN files[i].lines : Len(files[i].lines[n]) <= 1

\* A reader on its way has the event still before it.
Ahead(e) ==
  e \in Content(live) \/ \E s \in view.listed : e \in Content(archive[s])

\* What a reader on its way lacks is acknowledged, and still before it.
StillToSee ==
  "passed" \notin history.flags =>
    IF view.pc = "idle" THEN view.lacking = {}
    ELSE view.lacking \subseteq {e \in history.acked : Ahead(e)}

LineInv == Inv /\ Numbered /\ LinesOpen /\ LinesShort /\ StillToSee

\* The types the proofs below use over and over.
LEMMA Shapes ==
  ASSUME Inv
  PROVE  /\ act \in [Process -> ActState] /\ append \in [Process -> AppendState(Len(files))]
         /\ files \in Seq(FileOf(Event)) /\ Len(files) \in Nat /\ DOMAIN files = 1..Len(files)
         /\ \A i \in DOMAIN files : files[i] \in FileOf(Event) /\ files[i].lines \in Seq(Seq(Event))
         /\ live \in 0..Len(files) /\ archive \in [Second -> 0..Len(files)]
         /\ commands \in Nat /\ history \in HistoryState
<1>1. /\ act \in [Process -> ActState] /\ append \in [Process -> AppendState(Len(files))]
      /\ live \in 0..Len(files) /\ archive \in [Second -> 0..Len(files)]
      /\ commands \in Nat /\ history \in HistoryState
  BY ActsAssumption DEF Inv, TypeOK, ActState, AppendState, HistoryState
<1>2. files \in Seq(FileOf(Event))
  BY DEF Inv, TypeOK, File, FileOf
<1>3. Len(files) \in Nat /\ DOMAIN files = 1..Len(files)
  BY <1>2
<1>4. \A i \in DOMAIN files : files[i] \in FileOf(Event)
  BY <1>2, <1>3
<1>5. \A i \in DOMAIN files : files[i].lines \in Seq(Seq(Event))
  BY <1>4 DEF FileOf
<1> QED BY <1>1, <1>2, <1>3, <1>4, <1>5

\* The text goes to the end of the last line,
LEMMA TextShape ==
  ASSUME NEW file \in FileOf(Event), Len(file.lines) >= 1, NEW e \in Event,
         NEW new, new = WithText(file, e)
  PROVE  /\ Len(new.lines) = Len(file.lines) /\ DOMAIN new.lines = DOMAIN file.lines
         /\ LastLine(file) \in Seq(Event) /\ LastLine(new) = Append(LastLine(file), e)
         /\ \A n \in DOMAIN file.lines : n # Len(file.lines) => new.lines[n] = file.lines[n]
<1> DEFINE lines == file.lines
           last == Append(lines[Len(lines)], e)
<1>1. lines \in Seq(Seq(Event)) /\ Len(lines) \in Nat /\ DOMAIN lines = 1..Len(lines)
  BY DEF FileOf
<1>2. Len(lines) \in DOMAIN lines
  BY <1>1
<1>3. lines[Len(lines)] \in Seq(Event)
  BY <1>1, <1>2
<1>4. last \in Seq(Event)
  BY <1>3
<1>5. new.lines = [lines EXCEPT ![Len(lines)] = last]
  BY DEF WithText
<1> HIDE DEF last
<1>6. Len(new.lines) = Len(lines)
  BY <1>1, <1>4, <1>5, FileReplaced
<1>7. DOMAIN new.lines = DOMAIN lines
  BY <1>5
<1>8. \A n \in DOMAIN lines : n # Len(lines) => new.lines[n] = lines[n]
  BY <1>5
<1>9. new.lines[Len(lines)] = last
  BY <1>2, <1>5
<1> QED BY <1>3, <1>6, <1>7, <1>8, <1>9 DEF LastLine, last

\* and the newline opens an empty one.
LEMMA NewlineShape ==
  ASSUME NEW file \in FileOf(Event), NEW new, new = WithNewline(file)
  PROVE  /\ Len(new.lines) = Len(file.lines) + 1 /\ LastLine(new) = <<>>
         /\ Len(file.lines) \in Nat /\ DOMAIN file.lines = 1..Len(file.lines)
         /\ DOMAIN new.lines = 1..Len(new.lines)
         /\ \A n \in DOMAIN file.lines : new.lines[n] = file.lines[n]
<1> DEFINE lines == file.lines
<1>1. lines \in Seq(Seq(Event)) /\ Len(lines) \in Nat /\ DOMAIN lines = 1..Len(lines)
  BY DEF FileOf
<1>2. new.lines = Append(lines, <<>>)
  BY DEF WithNewline, FileOf
<1>3. <<>> \in Seq(Event)
  OBVIOUS
<1>4. /\ Len(new.lines) = Len(lines) + 1 /\ DOMAIN new.lines = 1..Len(new.lines)
      /\ new.lines[Len(lines) + 1] = <<>>
      /\ \A n \in DOMAIN lines : new.lines[n] = lines[n]
  BY <1>1, <1>2, <1>3
<1> QED BY <1>1, <1>4 DEF LastLine

\* An event on a line of its own stays there, unless its line is the open one.
LEMMA TextKeepsParsed ==
  ASSUME NEW file \in FileOf(Event), Len(file.lines) >= 1, NEW e \in Event,
         NEW f \in Parsed(file), \A k \in DOMAIN LastLine(file) : LastLine(file)[k] # f
  PROVE  f \in Parsed(WithText(file, e))
<1>1. PICK n \in DOMAIN file.lines : file.lines[n] = <<f>>
  BY DEF Parsed
<1>2. n # Len(file.lines)
  BY <1>1 DEF LastLine
<1> DEFINE new == WithText(file, e)
<1>3. n \in DOMAIN new.lines /\ new.lines[n] = <<f>>
  BY <1>1, <1>2, TextShape
<1>4. f \in Event
  BY DEF Parsed
<1> QED BY <1>3, <1>4 DEF Parsed

\* A newline takes no event away.
LEMMA NewlineKeepsParsed ==
  ASSUME NEW file \in FileOf(Event), NEW f \in Parsed(file)
  PROVE  f \in Parsed(WithNewline(file))
<1>1. PICK n \in DOMAIN file.lines : file.lines[n] = <<f>>
  BY DEF Parsed
<1> DEFINE new == WithNewline(file)
<1>2. n \in DOMAIN new.lines /\ new.lines[n] = <<f>>
  BY <1>1, NewlineShape
<1>3. f \in Event
  BY DEF Parsed
<1> QED BY <1>2, <1>3 DEF Parsed

-----------------------------------------------------------------------------
\* Commands that go on, or end without being acknowledged.
LEMMA NumberedStays ==
  ASSUME Inv, Numbered, commands' = commands, history'.acked = history.acked,
         \A q \in Process : Busy(q)' => Busy(q) /\ act'[q].nr = act[q].nr,
         \A q \in Process : Writing(q)' =>
           /\ Writing(q) /\ append'[q].batch \subseteq append[q].batch
           /\ act'[q].nr = act[q].nr
  PROVE  Numbered'
<1>1. \A q \in Process : Busy(q)' => act'[q].nr <= commands'
  BY DEF Numbered
<1>2. \A p, q \in Process : Busy(p)' /\ Busy(q)' /\ p # q => act'[p].nr # act'[q].nr
  BY DEF Numbered
<1>3. \A q \in Process : Writing(q)' => \A e \in append'[q].batch : e.act = act'[q].nr
  BY DEF Numbered
<1>4. \A e \in history'.acked :
        e.act <= commands' /\ \A q \in Process : Busy(q)' => act'[q].nr # e.act
  BY DEF Numbered
<1> QED BY <1>1, <1>2, <1>3, <1>4 DEF Numbered

\* A command that starts takes the next number.
LEMMA NumberedStarts ==
  ASSUME Inv, Numbered, NEW p \in Process, commands' = commands + 1,
         history'.acked = history.acked,
         \A q \in Process : q # p => act'[q] = act[q] /\ append'[q] = append[q],
         act'[p].nr = commands + 1,
         Writing(p)' => \A e \in append'[p].batch : e.act = commands + 1
  PROVE  Numbered'
<1>1. /\ commands \in Nat /\ \A q \in Process : act[q].nr \in Nat
      /\ \A e \in history.acked : e.act \in Nat
  <2>1. history.acked \subseteq Event /\ Event \subseteq [act : Nat, about : Claim \cup {NoClaim}]
    BY Shapes, ActsAssumption DEF HistoryState, Event, Stamp
  <2>2. \A q \in Process : act[q].nr \in Nat
    BY Shapes, ActsAssumption DEF ActState
  <2> QED BY <2>1, <2>2, Shapes
<1>2. \A q \in Process : q # p /\ Busy(q)' => Busy(q) /\ act'[q].nr = act[q].nr /\ act[q].nr <= commands
  BY DEF Busy, Doing, Numbered
<1>3. \A q \in Process : Busy(q)' => act'[q].nr <= commands'
  BY <1>1, <1>2
<1>4. \A q, r \in Process : Busy(q)' /\ Busy(r)' /\ q # r => act'[q].nr # act'[r].nr
  <2> SUFFICES ASSUME NEW q \in Process, NEW r \in Process, Busy(q)', Busy(r)', q # r
               PROVE  act'[q].nr # act'[r].nr
    OBVIOUS
  <2>1. CASE q = p \/ r = p
    BY <1>1, <1>2, <2>1
  <2>2. CASE q # p /\ r # p
    BY <1>2, <2>2 DEF Numbered
  <2> QED BY <2>1, <2>2
<1>5. \A q \in Process : Writing(q)' => \A e \in append'[q].batch : e.act = act'[q].nr
  BY DEF Numbered, Writing
<1>6. \A e \in history'.acked :
        e.act <= commands' /\ \A q \in Process : Busy(q)' => act'[q].nr # e.act
  <2> SUFFICES ASSUME NEW e \in history.acked
               PROVE  e.act <= commands' /\ \A q \in Process : Busy(q)' => act'[q].nr # e.act
    OBVIOUS
  <2>1. e.act <= commands /\ e.act \in Nat
    BY <1>1 DEF Numbered
  <2>2. \A q \in Process : Busy(q)' => act'[q].nr # e.act
    BY <1>1, <1>2, <2>1 DEF Numbered
  <2> QED BY <1>1, <2>1, <2>2
<1> QED BY <1>3, <1>4, <1>5, <1>6 DEF Numbered

\* Lines stay as they are while those who have them open go on.
LEMMA LinesStay ==
  ASSUME Inv, LinesOpen, LinesShort,
         files' = files \/ files' = Append(files, EmptyFile),
         "torn" \in history.flags => "torn" \in history'.flags,
         \A q \in Process : append[q].pc \in {"newline", "cut"} =>
           /\ append'[q].pc \in {"newline", "cut"} /\ append'[q].fd = append[q].fd
           /\ act'[q].nr = act[q].nr,
         \A q \in Process : At(q, "cut")' => Doing(q, "dead")'
  PROVE  LinesOpen' /\ LinesShort'
<1>1. \A i \in DOMAIN files' :
        (i \in DOMAIN files /\ files'[i] = files[i]) \/ files'[i] = EmptyFile
  <2>1. CASE files' = files
    BY <2>1
  <2>2. CASE files' = Append(files, EmptyFile)
    BY <2>2, Shapes
  <2> QED BY <2>1, <2>2
<1>2. /\ Len(EmptyFile.lines) = 1 /\ DOMAIN EmptyFile.lines = {1}
      /\ LastLine(EmptyFile) = <<>> /\ EmptyFile.lines[1] = <<>>
  BY DEF EmptyFile, LastLine
<1>3. ASSUME NEW i \in DOMAIN files'
      PROVE  /\ Len(files'[i].lines) >= 1
             /\ \A k \in DOMAIN LastLine(files'[i]) :
                  \E p \in Process : HasOpen(p, i)' /\ act'[p].nr = LastLine(files'[i])[k].act
  <2>1. CASE files'[i] = EmptyFile
    BY <1>2, <2>1
  <2>2. CASE i \in DOMAIN files /\ files'[i] = files[i]
    <3>1. \A p \in Process : HasOpen(p, i) => HasOpen(p, i)' /\ act'[p].nr = act[p].nr
      BY DEF HasOpen
    <3> QED BY <2>2, <3>1 DEF LinesOpen
  <2> QED BY <1>1, <2>1, <2>2
<1>4. LinesOpen'
  BY <1>3 DEF LinesOpen, LastLine
<1>5. ASSUME "torn" \notin history'.flags, NEW i \in DOMAIN files', NEW n \in DOMAIN files'[i].lines
      PROVE  Len(files'[i].lines[n]) <= 1
  <2>1. CASE files'[i] = EmptyFile
    BY <1>2, <2>1
  <2>2. CASE i \in DOMAIN files /\ files'[i] = files[i]
    BY <1>5, <2>2 DEF LinesShort
  <2> QED BY <1>1, <2>1, <2>2
<1>6. LinesShort'
  BY <1>5 DEF LinesShort
<1> QED BY <1>4, <1>6

\* A reader on its way is not disturbed by what leaves readable what is before it.
LEMMA SeenStays ==
  ASSUME StillToSee, view' = view,
         "passed" \in history.flags => "passed" \in history'.flags,
         history.acked \subseteq history'.acked,
         view.pc # "idle" /\ "passed" \notin history'.flags =>
           \A f \in history.acked : Ahead(f) => Ahead(f)'
  PROVE  StillToSee'
<1> SUFFICES ASSUME "passed" \notin history'.flags
             PROVE  IF view'.pc = "idle" THEN view'.lacking = {}
                    ELSE view'.lacking \subseteq {f \in history'.acked : Ahead(f)'}
  BY DEF StillToSee
<1>1. CASE view.pc = "idle"
  BY <1>1 DEF StillToSee
<1>2. CASE view.pc # "idle"
  <2>1. view.lacking \subseteq {f \in history.acked : Ahead(f)}
    BY <1>2 DEF StillToSee
  <2> QED BY <1>2, <2>1
<1> QED BY <1>1, <1>2

\* The files before the reader keep their names, and an event its line.
LEMMA AheadStays ==
  ASSUME Inv, view' = view, live' = live \/ live = NoFile,
         \A s \in view.listed : archive'[s] = archive[s],
         NEW f, \A i \in DOMAIN files : f \in Parsed(files[i]) => f \in Parsed(files'[i]),
         Ahead(f)
  PROVE  Ahead(f)'
<1>1. live \in 0..Len(files) /\ DOMAIN files = 1..Len(files) /\ Len(files) \in Nat
  BY Shapes
<1>2. CASE f \in Content(live)
  <2>1. live # NoFile /\ live \in DOMAIN files /\ f \in Parsed(files[live]) /\ live' = live
    BY <1>1, <1>2 DEF Content, NoFile
  <2>2. f \in Parsed(files'[live'])
    BY <2>1
  <2> QED BY <2>1, <2>2 DEF Ahead, Content, Parsed
<1>3. CASE \E s \in view.listed : f \in Content(archive[s])
  <2>1. PICK s \in view.listed : f \in Content(archive[s])
    BY <1>3
  <2>2. s \in Second /\ archive[s] \in 0..Len(files) /\ archive'[s] = archive[s]
    BY <2>1, Shapes DEF Inv, TypeOK
  <2>3. archive[s] # NoFile /\ archive[s] \in DOMAIN files /\ f \in Parsed(files[archive[s]])
    BY <1>1, <2>1, <2>2 DEF Content, NoFile
  <2>4. f \in Parsed(files'[archive'[s]])
    BY <2>2, <2>3
  <2> QED BY <2>1, <2>2, <2>3, <2>4 DEF Ahead, Content, Parsed
<1> QED BY <1>2, <1>3 DEF Ahead

\* A file created under a free name, and no other change to the names, is such a change.
LEMMA ContentStays ==
  ASSUME Inv, view' = view, \A s \in view.listed : archive'[s] = archive[s],
         \/ files' = files /\ (live' = live \/ live = NoFile)
         \/ files' = Append(files, EmptyFile) /\ live = NoFile
  PROVE  \A f \in history.acked : Ahead(f) => Ahead(f)'
<1>1. \A i \in DOMAIN files : files'[i] = files[i]
  BY Shapes
<1> QED BY <1>1, AheadStays

\* A call of append looks at the size of the live journal.
LEMMA CallEffect ==
  ASSUME Inv, NEW p \in Process, NEW batch, Call(p, batch)
  PROVE  /\ UNCHANGED <<files, live, archive, clock, view>> /\ append[p].pc = "idle"
         /\ \A q \in Process : q # p => append'[q] = append[q]
         /\ append'[p].pc = IF live # NoFile /\ Oversized(files[live]) THEN "stamp" ELSE "open"
         /\ append'[p].batch = batch
<1> DEFINE pc == IF live # NoFile /\ Oversized(files[live]) THEN "stamp" ELSE "open"
           s == [IdleAppend EXCEPT !.pc = pc, !.batch = batch]
<1>1. append' = [append EXCEPT ![p] = s]
  BY Zenon DEF Call
<1>2. s.pc = pc /\ s.batch = batch
  BY DEF IdleAppend
<1> HIDE DEF s
<1>3. append'[p] = s /\ \A q \in Process : q # p => append'[q] = append[q]
  BY <1>1, Shapes
<1>4. UNCHANGED <<files, live, archive, clock, view>> /\ append[p].pc = "idle"
  BY DEF Call, At
<1> QED BY <1>2, <1>3, <1>4

-----------------------------------------------------------------------------
\* The commands.
LEMMA BindLines ==
  ASSUME LineInv, NEW p \in Process, NEW claims \in Lists, Bind(p, claims)
  PROVE  Numbered' /\ LinesOpen' /\ LinesShort' /\ StillToSee'
<1>1. /\ UNCHANGED <<files, live, archive, clock, append, view, history>> /\ commands' = commands + 1
      /\ Doing(p, "idle") /\ At(p, "idle") /\ act'[p].nr = commands + 1
      /\ \A q \in Process : q # p => act'[q] = act[q]
  <2> DEFINE s == [pc |-> "write", nr |-> commands + 1, claims |-> claims, seen |-> ReadFile]
  <2>1. act' = [act EXCEPT ![p] = s] /\ s.nr = commands + 1
    BY DEF Bind, StartAct
  <2> HIDE DEF s
  <2> QED BY <2>1, Shapes DEF LineInv, Bind, Free, journalVars
<1>2. Numbered'
  BY <1>1, NumberedStarts DEF LineInv, At, Writing
<1>3. \A q \in Process : append[q].pc # "idle" => act'[q] = act[q]
  BY <1>1 DEF At
<1>4. LinesOpen' /\ LinesShort'
  <2>1. \A q \in Process : append[q].pc \in {"newline", "cut"} =>
           /\ append'[q].pc \in {"newline", "cut"} /\ append'[q].fd = append[q].fd
           /\ act'[q].nr = act[q].nr
    BY <1>1, <1>3
  <2>2. \A q \in Process : At(q, "cut")' => Doing(q, "dead")'
    BY <1>1, <1>3 DEF LineInv, LinesOpen, At, Doing
  <2> QED BY <1>1, <2>1, <2>2, LinesStay DEF LineInv
<1>5. StillToSee'
  BY <1>1, SeenStays, ContentStays DEF LineInv
<1> QED BY <1>2, <1>4, <1>5

\* What the two commands that append have in common.
LEMMA CallLines ==
  ASSUME LineInv, NEW p \in Process, NEW batch, Call(p, batch),
         \A q \in Process : q # p => act'[q] = act[q],
         history'.acked = history.acked,
         "torn" \in history.flags => "torn" \in history'.flags,
         "passed" \in history.flags => "passed" \in history'.flags
  PROVE  /\ LinesOpen' /\ LinesShort' /\ StillToSee'
         /\ append'[p].batch = batch /\ At(p, "idle")
         /\ \A q \in Process : q # p => append'[q] = append[q]
<1>1. /\ UNCHANGED <<files, live, archive, clock, view>> /\ append[p].pc = "idle"
      /\ \A q \in Process : q # p => append'[q] = append[q]
      /\ append'[p].pc \in {"stamp", "open"} /\ append'[p].batch = batch
  BY CallEffect DEF LineInv
<1>2. LinesOpen' /\ LinesShort'
  <2>1. \A q \in Process : append[q].pc \in {"newline", "cut"} =>
           /\ append'[q].pc \in {"newline", "cut"} /\ append'[q].fd = append[q].fd
           /\ act'[q].nr = act[q].nr
    BY <1>1
  <2>2. \A q \in Process : At(q, "cut")' => Doing(q, "dead")'
    BY <1>1 DEF LineInv, LinesOpen, At, Doing
  <2> QED BY <1>1, <2>1, <2>2, LinesStay DEF LineInv
<1>3. StillToSee'
  BY <1>1, SeenStays, ContentStays DEF LineInv
<1> QED BY <1>1, <1>2, <1>3 DEF At

LEMMA BindWritesLines ==
  ASSUME LineInv, NEW p \in Process, BindWrites(p)
  PROVE  Numbered' /\ LinesOpen' /\ LinesShort' /\ StillToSee'
<1>1. /\ act[p].pc = "write" /\ act'[p].nr = act[p].nr /\ commands' = commands
      /\ \A q \in Process : q # p => act'[q] = act[q]
  BY Shapes DEF LineInv, BindWrites, WriteToml, Doing, ActState, counters
<1>2. history'.acked = history.acked /\ history.flags \subseteq history'.flags
  BY Shapes DEF LineInv, BindWrites, HistoryState
<1>3. /\ Call(p, EventsOf(p)) /\ \A e \in EventsOf(p) : e.act = act[p].nr
  BY DEF BindWrites, EventsOf
<1>4. /\ LinesOpen' /\ LinesShort' /\ StillToSee'
      /\ append'[p].batch = EventsOf(p)
      /\ \A q \in Process : q # p => append'[q] = append[q]
  BY <1>1, <1>2, <1>3, CallLines
<1>5. Numbered'
  <2>1. \A q \in Process : Busy(q)' => Busy(q) /\ act'[q].nr = act[q].nr
    BY <1>1 DEF Busy, Doing
  <2>2. \A q \in Process : Writing(q)' => \A e \in append'[q].batch : e.act = act'[q].nr
    BY <1>1, <1>3, <1>4 DEF LineInv, Numbered, Writing
  <2> QED BY <1>1, <1>2, <2>1, <2>2 DEF LineInv, Numbered
<1> QED BY <1>4, <1>5

LEMMA BindFailsLines ==
  ASSUME LineInv, NEW p \in Process, BindFails(p)
  PROVE  Numbered' /\ LinesOpen' /\ LinesShort' /\ StillToSee'
<1>1. /\ UNCHANGED <<files, live, archive, clock, append, view, history, commands>>
      /\ append[p].pc = "idle" /\ act'[p].pc = "idle"
      /\ \A q \in Process : q # p => act'[q] = act[q]
  BY Shapes DEF LineInv, Inv, Acting, At, BindFails, IdleAct, journalVars
<1>2. Numbered'
  BY <1>1, NumberedStays DEF LineInv, Busy, Doing, Writing
<1>3. LinesOpen' /\ LinesShort'
  <2>1. \A q \in Process : append[q].pc \in {"newline", "cut"} =>
           /\ append'[q].pc \in {"newline", "cut"} /\ append'[q].fd = append[q].fd
           /\ act'[q].nr = act[q].nr
    BY <1>1
  <2>2. \A q \in Process : At(q, "cut")' => Doing(q, "dead")'
    BY <1>1 DEF LineInv, LinesOpen, At, Doing
  <2> QED BY <1>1, <2>1, <2>2, LinesStay DEF LineInv
<1>4. StillToSee'
  BY <1>1, SeenStays, ContentStays DEF LineInv
<1> QED BY <1>2, <1>3, <1>4

LEMMA RecordRunLines ==
  ASSUME LineInv, NEW p \in Process, RecordRun(p)
  PROVE  Numbered' /\ LinesOpen' /\ LinesShort' /\ StillToSee'
<1> DEFINE e == [act |-> commands + 1, about |-> NoClaim]
           s == [IdleAct EXCEPT !.pc = "returning", !.nr = commands + 1]
<1>1. /\ Call(p, {e}) /\ act' = [act EXCEPT ![p] = s] /\ Doing(p, "idle")
      /\ commands' = commands + 1 /\ history' = history
  BY DEF RecordRun, Free
<1>2. e.act = commands + 1 /\ s.nr = commands + 1
  BY DEF IdleAct
<1> HIDE DEF e, s
<1>3. act'[p].nr = commands + 1 /\ \A q \in Process : q # p => act'[q] = act[q]
  BY <1>1, <1>2, Shapes DEF LineInv
<1>4. /\ LinesOpen' /\ LinesShort' /\ StillToSee'
      /\ append'[p].batch = {e}
      /\ \A q \in Process : q # p => append'[q] = append[q]
  BY <1>1, <1>3, CallLines DEF Busy
<1>5. Numbered'
  BY <1>1, <1>2, <1>3, <1>4, NumberedStarts DEF LineInv
<1> QED BY <1>4, <1>5

\* A command that returns acts no more, and what it wrote is acknowledged.
LEMMA FinishLines ==
  ASSUME LineInv, NEW p \in Process, Finish(p)
  PROVE  Numbered' /\ LinesOpen' /\ LinesShort' /\ StillToSee'
<1>1. /\ UNCHANGED <<files, live, archive, clock, view, commands>>
      /\ append[p].pc \in {"written", "failed"} /\ append'[p].pc = "idle" /\ act'[p].pc = "idle"
      /\ \A q \in Process : q # p => act'[q] = act[q] /\ append'[q] = append[q]
  BY Shapes DEF LineInv, Finish, Return, IdleAct, IdleAppend, counters
<1>2. /\ history.acked \subseteq history'.acked
      /\ \A e \in history'.acked : e \in history.acked \/ e.act = act[p].nr
      /\ history'.flags = history.flags
  BY Shapes DEF LineInv, Finish, HistoryState, EventsOf
<1>3. Busy(p)
  BY <1>1 DEF LineInv, Inv, Acting, At, Busy
<1>4. Numbered'
  <2>1. \A q \in Process : Busy(q)' => q # p /\ Busy(q) /\ act'[q].nr = act[q].nr
    BY <1>1 DEF Busy, Doing
  <2>2. \A q \in Process : Busy(q)' => act'[q].nr <= commands'
    BY <1>1, <2>1 DEF LineInv, Numbered
  <2>3. \A q, r \in Process : Busy(q)' /\ Busy(r)' /\ q # r => act'[q].nr # act'[r].nr
    BY <2>1 DEF LineInv, Numbered
  <2>4. \A q \in Process : Writing(q)' => \A e \in append'[q].batch : e.act = act'[q].nr
    BY <1>1 DEF LineInv, Numbered, Writing
  <2>5. \A e \in history'.acked :
          e.act <= commands' /\ \A q \in Process : Busy(q)' => act'[q].nr # e.act
    <3> SUFFICES ASSUME NEW e \in history'.acked
                 PROVE  e.act <= commands' /\ \A q \in Process : Busy(q)' => act'[q].nr # e.act
      OBVIOUS
    <3>1. CASE e \in history.acked
      BY <1>1, <2>1, <3>1 DEF LineInv, Numbered
    <3>2. CASE e.act = act[p].nr
      BY <1>1, <1>3, <2>1, <3>2 DEF LineInv, Numbered
    <3> QED BY <1>2, <3>1, <3>2
  <2> QED BY <2>2, <2>3, <2>4, <2>5 DEF Numbered
<1>5. LinesOpen' /\ LinesShort'
  <2>1. \A q \in Process : append[q].pc \in {"newline", "cut"} =>
           /\ append'[q].pc \in {"newline", "cut"} /\ append'[q].fd = append[q].fd
           /\ act'[q].nr = act[q].nr
    BY <1>1
  <2>2. \A q \in Process : At(q, "cut")' => Doing(q, "dead")'
    BY <1>1 DEF LineInv, LinesOpen, At, Doing
  <2> QED BY <1>1, <1>2, <2>1, <2>2, LinesStay DEF LineInv
<1>6. StillToSee'
  BY <1>1, <1>2, SeenStays, ContentStays DEF LineInv
<1> QED BY <1>4, <1>5, <1>6

\* A killed command keeps its number, and a line it has open.
LEMMA KillLines ==
  ASSUME LineInv, NEW p \in Process, Kill(p)
  PROVE  Numbered' /\ LinesOpen' /\ LinesShort' /\ StillToSee'
<1>1. /\ UNCHANGED <<files, live, archive, clock, view, commands, history>>
      /\ act[p].pc # "dead" /\ act'[p].pc = "dead" /\ act'[p].nr = act[p].nr
      /\ append'[p].pc = IF append[p].pc = "newline" THEN "cut" ELSE "dead"
      /\ append'[p].fd = append[p].fd /\ append'[p].batch = append[p].batch
      /\ \A q \in Process : q # p => act'[q] = act[q] /\ append'[q] = append[q]
  BY Shapes DEF LineInv, Kill, Die, ActState, AppendState
<1>2. append[p].pc # "cut"
  BY <1>1 DEF LineInv, LinesOpen, At, Doing
<1>3. Busy(p)
  BY DEF LineInv, Inv, Acting, Kill, Free, Busy
<1>4. Numbered'
  <2>1. \A q \in Process : Busy(q)' => Busy(q) /\ act'[q].nr = act[q].nr
    BY <1>1, <1>3 DEF Busy, Doing
  <2>2. \A q \in Process : Writing(q)' => \A e \in append'[q].batch : e.act = act'[q].nr
    <3>1. Writing(p)' => Writing(p)
      BY <1>1 DEF Writing
    <3> QED BY <1>1, <3>1 DEF LineInv, Numbered, Writing
  <2> QED BY <1>1, <2>1, <2>2 DEF LineInv, Numbered
<1>5. LinesOpen' /\ LinesShort'
  <2>1. \A q \in Process : append[q].pc \in {"newline", "cut"} =>
           /\ append'[q].pc \in {"newline", "cut"} /\ append'[q].fd = append[q].fd
           /\ act'[q].nr = act[q].nr
    BY <1>1, <1>2
  <2>2. \A q \in Process : At(q, "cut")' => Doing(q, "dead")'
    BY <1>1 DEF LineInv, LinesOpen, At, Doing
  <2> QED BY <1>1, <2>1, <2>2, LinesStay DEF LineInv
<1>6. StillToSee'
  BY <1>1, SeenStays, ContentStays DEF LineInv
<1> QED BY <1>4, <1>5, <1>6

-----------------------------------------------------------------------------
\* What a step of append does to numbers and acknowledgements, and what its flags say.
LEMMA AppendsFrame ==
  ASSUME LineInv, NEW p \in Process, Appends(p)
  PROVE  /\ AppendStep(p) /\ act' = act /\ commands' = commands /\ view' = view
         /\ history'.acked = history.acked /\ history.flags \subseteq history'.flags
         /\ history'.order = IF At(p, "text") THEN Append(history.order, NextEvent(p)) ELSE history.order
         /\ "torn" \notin history'.flags =>
              ~(At(p, "text") /\ \E q \in Process \ {p} : HasOpen(q, append[p].fd))
         /\ "crossed" \notin history'.flags =>
              ~(Renames(p) /\ \E q \in Process \ {p} : append[q].pc \in {"stamp", "rename", "text", "newline"})
         /\ "collided" \notin history'.flags => ~(Renames(p) /\ archive[append[p].stamp] # NoFile)
         /\ "passed" \notin history'.flags => ~Overtakes(p)
         /\ Numbered'
<1> DEFINE torn == At(p, "text") /\ \E q \in Others(p) :
                     append[q].pc \in {"newline", "cut"} /\ append[q].fd = append[p].fd
           crossed == Renames(p) /\ \E q \in Others(p) :
                     append[q].pc \in {"stamp", "rename", "text", "newline"}
           collided == Renames(p) /\ archive[append[p].stamp] # NoFile
           passed == Overtakes(p)
           order == IF At(p, "text") THEN Append(history.order, NextEvent(p)) ELSE history.order
<1>1. /\ AppendStep(p) /\ act' = act /\ commands' = commands
      /\ history' = [history EXCEPT !.order = order,
           !.flags = history.flags \cup When("torn", torn) \cup When("crossed", crossed)
                       \cup When("collided", collided) \cup When("passed", passed)]
  BY DEF Appends, bindingVars, counters
<1> HIDE DEF torn, crossed, collided, passed, order
<1>2. /\ history'.acked = history.acked /\ history'.order = order
      /\ history'.flags = history.flags \cup When("torn", torn) \cup When("crossed", crossed)
                       \cup When("collided", collided) \cup When("passed", passed)
  BY <1>1, Shapes DEF LineInv, HistoryState
<1>3. /\ ("torn" \notin history'.flags => ~torn) /\ ("crossed" \notin history'.flags => ~crossed)
      /\ ("collided" \notin history'.flags => ~collided) /\ ("passed" \notin history'.flags => ~passed)
  BY <1>2 DEF When
<1>4. view' = view
  BY <1>1, AppendEffect DEF LineInv
<1>5. Numbered'
  <2>1. PICK a \in AppendState(Len(files')) :
          append' = [append EXCEPT ![p] = a] /\ a.batch \subseteq append[p].batch
    BY <1>1, AppendEffect DEF LineInv, Goes
  <2>2. append[p].pc \notin {"idle", "dead"}
    BY <1>1 DEF AppendStep, NameArchive, Rename, RenameFails, ListArchives, RemoveOldest, Open, WriteText,
                WriteNewline, At
  <2>3. \A q \in Process : append'[q].batch \subseteq append[q].batch
    BY <2>1, Shapes DEF LineInv
  <2>4. \A q \in Process : Writing(q)' => Writing(q)
    BY <2>1, <2>2, Shapes DEF LineInv, Writing
  <2>5. \A q \in Process : Busy(q)' => Busy(q) /\ act'[q].nr = act[q].nr
    BY <1>1 DEF Busy, Doing
  <2> QED BY <1>1, <1>2, <2>3, <2>4, <2>5, NumberedStays DEF LineInv
<1> QED BY <1>1, <1>2, <1>3, <1>4, <1>5 DEF torn, crossed, collided, passed, order, Others, HasOpen

\* The steps around the writing: the files keep their content.
LEMMA NamesLines ==
  ASSUME LineInv, NEW p \in Process, Appends(p),
         NameArchive(p) \/ Rename(p) \/ RenameFails(p) \/ ListArchives(p)
           \/ RemoveOldest(p) \/ Open(p)
  PROVE  LinesOpen' /\ LinesShort' /\ StillToSee'
<1>1. /\ append[p].pc \in {"stamp", "rename", "list", "prune", "open"}
      /\ append'[p].pc \notin {"newline", "cut"}
      /\ \A q \in Process : q # p => append'[q] = append[q]
      /\ files' = files \/ (files' = Append(files, EmptyFile) /\ live = NoFile)
  <2>1. /\ append[p].pc \in {"stamp", "rename", "list", "prune", "open"}
        /\ append \in [Process -> AppendState(Len(files))] /\ append[p] \in AppendState(Len(files))
    BY Shapes DEF LineInv, NameArchive, Rename, RenameFails, ListArchives, RemoveOldest, Open, At
  <2>2. CASE NameArchive(p) \/ Rename(p) \/ RenameFails(p)
    BY <2>1, <2>2 DEF NameArchive, Rename, RenameFails, Goto, AppendState
  <2>3. CASE ListArchives(p)
    BY <2>1, <2>3 DEF ListArchives, AppendState
  <2>4. CASE RemoveOldest(p)
    <3>1. PICK d \in append[p].doomed :
            append' = [append EXCEPT ![p].doomed = @ \ {d},
                                     ![p].pc = IF append[p].doomed = {d} THEN "open" ELSE "prune"]
      BY <2>4 DEF RemoveOldest
    <3>2. files' = files
      BY <2>4 DEF RemoveOldest
    <3>3. append'[p].pc \in {"open", "prune"}
      BY <2>1, <3>1 DEF AppendState
    <3>4. \A q \in Process : q # p => append'[q] = append[q]
      BY <2>1, <3>1
    <3> QED BY <2>1, <3>2, <3>3, <3>4
  <2>5. CASE Open(p)
    <3>1. CASE live = NoFile
      BY <2>1, <2>5, <3>1 DEF Open, AppendState
    <3>2. CASE live # NoFile
      BY <2>1, <2>5, <3>2 DEF Open, AppendState
    <3> QED BY <3>1, <3>2
  <2> QED BY <2>2, <2>3, <2>4, <2>5
<1>2. LinesOpen' /\ LinesShort'
  <2>1. \A q \in Process : append[q].pc \in {"newline", "cut"} =>
           /\ append'[q].pc \in {"newline", "cut"} /\ append'[q].fd = append[q].fd
           /\ act'[q].nr = act[q].nr
    BY <1>1, AppendsFrame
  <2>2. \A q \in Process : At(q, "cut")' => Doing(q, "dead")'
    BY <1>1, AppendsFrame DEF LineInv, LinesOpen, At, Doing
  <2> QED BY <1>1, <2>1, <2>2, AppendsFrame, LinesStay DEF LineInv
<1>3. StillToSee'
  <2>1. ASSUME view.pc # "idle", "passed" \notin history'.flags
        PROVE  \A f \in history.acked : Ahead(f) => Ahead(f)'
    <3>1. view.pc = "reading" /\ ~Overtakes(p) /\ view' = view
      BY <2>1, AppendsFrame DEF LineInv, Inv, TypeOK
    <3>2. ~Renames(p) /\ \A s \in view.listed : archive'[s] = archive[s]
      BY <3>1 DEF Overtakes
    <3>3. live' = live \/ live = NoFile
      BY <3>2 DEF NameArchive, Rename, RenameFails, ListArchives, RemoveOldest, Open, Renames
    <3> QED BY <1>1, <3>1, <3>2, <3>3, ContentStays DEF LineInv
  <2> QED BY <2>1, AppendsFrame, SeenStays DEF LineInv
<1> QED BY <1>2, <1>3

\* A text ends in the last line, which nobody else has open or is torn.
LEMMA TextLines ==
  ASSUME LineInv, NEW p \in Process, Appends(p), WriteText(p)
  PROVE  LinesOpen' /\ LinesShort' /\ StillToSee'
<1> DEFINE e == NextEvent(p)
           fd == append[p].fd
<1>1. /\ append[p].pc = "text" /\ append'[p].pc = "newline" /\ append'[p].fd = fd
      /\ \A q \in Process : q # p => append'[q] = append[q]
      /\ live' = live /\ archive' = archive
  BY Shapes DEF LineInv, WriteText, At, AppendState
<1>2. e \in Event /\ e.act = act[p].nr
  <2>1. append[p].batch # {} /\ append[p].batch \subseteq Event
    BY <1>1, Shapes DEF LineInv, Inv, Acting, AppendState
  <2>2. e \in append[p].batch
    BY <2>1, NextOfBatch
  <2> QED BY <1>1, <2>1, <2>2 DEF LineInv, Numbered, Writing
<1>3. /\ DOMAIN files' = DOMAIN files
      /\ fd \in DOMAIN files => files'[fd] = WithText(files[fd], e)
      /\ \A i \in DOMAIN files : i # fd => files'[i] = files[i]
  BY DEF WriteText
<1> HIDE DEF e, fd
<1>4. \A i \in DOMAIN files : files[i] \in FileOf(Event) /\ Len(files[i].lines) >= 1
  BY Shapes DEF LineInv, LinesOpen
<1>5. /\ act' = act /\ commands' = commands /\ view' = view
      /\ history'.acked = history.acked /\ history.flags \subseteq history'.flags
      /\ "torn" \notin history'.flags => \A q \in Process : ~HasOpen(q, fd)
  BY <1>1, AppendsFrame DEF At, HasOpen, fd
<1>6. \A q \in Process : \A i : HasOpen(q, i) => HasOpen(q, i)'
  BY <1>1 DEF HasOpen
<1>7. \A i : i = fd => HasOpen(p, i)'
  BY <1>1 DEF HasOpen
<1>8. ASSUME NEW i \in DOMAIN files'
      PROVE  /\ Len(files'[i].lines) >= 1
             /\ \A k \in DOMAIN LastLine(files'[i]) :
                  \E q \in Process : HasOpen(q, i)' /\ act'[q].nr = LastLine(files'[i])[k].act
  <2>1. CASE i # fd
    BY <1>3, <1>5, <1>6, <2>1 DEF LineInv, LinesOpen
  <2>2. CASE i = fd
    <3> DEFINE old == files[fd]
               new == files'[fd]
    <3>1. /\ Len(new.lines) >= 1 /\ LastLine(old) \in Seq(Event)
          /\ LastLine(new) = Append(LastLine(old), e)
      BY <1>2, <1>3, <1>4, <2>2, TextShape
    <3>2. /\ \A k \in DOMAIN LastLine(new) : k \in DOMAIN LastLine(old) \/ k = Len(LastLine(old)) + 1
          /\ \A k \in DOMAIN LastLine(old) : LastLine(new)[k] = LastLine(old)[k]
          /\ LastLine(new)[Len(LastLine(old)) + 1] = e
      BY <1>2, <3>1
    <3>3. ASSUME NEW k \in DOMAIN LastLine(new)
          PROVE  \E q \in Process : HasOpen(q, i)' /\ act'[q].nr = LastLine(new)[k].act
      <4>1. CASE k \in DOMAIN LastLine(old)
        <5>1. \E q \in Process : HasOpen(q, i) /\ act[q].nr = LastLine(old)[k].act
          BY <1>3, <2>2, <4>1 DEF LineInv, LinesOpen
        <5> QED BY <1>5, <1>6, <3>2, <4>1, <5>1
      <4>2. CASE k = Len(LastLine(old)) + 1
        BY <1>2, <1>5, <1>7, <2>2, <3>2, <4>2
      <4> QED BY <3>2, <4>1, <4>2
    <3> QED BY <2>2, <3>1, <3>3
  <2> QED BY <2>1, <2>2
<1>9. LinesOpen'
  <2>1. \A q \in Process : At(q, "cut")' => Doing(q, "dead")'
    BY <1>1, <1>5 DEF LineInv, LinesOpen, At, Doing
  <2> QED BY <1>8, <2>1 DEF LinesOpen, LastLine
<1>10. LinesShort'
  <2> SUFFICES ASSUME "torn" \notin history'.flags, NEW i \in DOMAIN files',
                      NEW n \in DOMAIN files'[i].lines
               PROVE  Len(files'[i].lines[n]) <= 1
    BY DEF LinesShort
  <2>1. \A j \in DOMAIN files : \A m \in DOMAIN files[j].lines : Len(files[j].lines[m]) <= 1
    BY <1>5 DEF LineInv, LinesShort
  <2>2. CASE i # fd
    BY <1>3, <2>1, <2>2
  <2>3. CASE i = fd
    <3> DEFINE old == files[fd]
               new == files'[fd]
    <3>1. /\ DOMAIN new.lines = DOMAIN old.lines /\ Len(new.lines) = Len(old.lines)
          /\ LastLine(old) \in Seq(Event) /\ LastLine(new) = Append(LastLine(old), e)
          /\ \A m \in DOMAIN old.lines : m # Len(old.lines) => new.lines[m] = old.lines[m]
      BY <1>2, <1>3, <1>4, <2>3, TextShape
    <3>2. CASE n # Len(old.lines)
      BY <1>3, <2>1, <2>3, <3>1, <3>2
    <3>3. CASE n = Len(old.lines)
      <4>1. DOMAIN LastLine(old) = {}
        BY <1>3, <1>5, <2>3 DEF LineInv, LinesOpen
      <4>2. Len(LastLine(old)) = 0
        BY <3>1, <4>1
      <4>3. Len(LastLine(new)) = 1
        BY <1>2, <3>1, <4>2
      <4>4. LastLine(new) = new.lines[n]
        BY <3>1, <3>3 DEF LastLine
      <4>5. files'[i].lines[n] = new.lines[n]
        BY <2>3
      <4>6. Len(new.lines[n]) = 1
        BY <4>3, <4>4
      <4> QED BY <4>5, <4>6
    <3> QED BY <3>2, <3>3
  <2> QED BY <2>2, <2>3
<1>11. StillToSee'
  <2>1. ASSUME NEW f \in history.acked, NEW i \in DOMAIN files, f \in Parsed(files[i])
        PROVE  f \in Parsed(files'[i])
    <3>1. CASE i # fd
      BY <1>3, <2>1, <3>1
    <3>2. CASE i = fd
      <4>1. \A q \in Process : HasOpen(q, fd) => act[q].nr # f.act
        <5>1. \A q \in Process : HasOpen(q, fd) => Busy(q)
          BY DEF LineInv, Inv, Acting, HasOpen, At, Busy
        <5> QED BY <2>1, <5>1 DEF LineInv, Numbered
      <4>2. \A k \in DOMAIN LastLine(files[fd]) : LastLine(files[fd])[k] # f
        BY <2>1, <3>2, <4>1 DEF LineInv, LinesOpen
      <4> QED BY <1>2, <1>3, <1>4, <2>1, <3>2, <4>2, TextKeepsParsed
    <3> QED BY <3>1, <3>2
  <2>2. \A f \in history.acked : Ahead(f) => Ahead(f)'
    BY <1>1, <1>5, <2>1, AheadStays DEF LineInv
  <2> QED BY <1>5, <2>2, AppendsFrame, SeenStays DEF LineInv
<1> QED BY <1>9, <1>10, <1>11

\* The newline leaves the last line empty, whoever had it open.
LEMMA NewlineLines ==
  ASSUME LineInv, NEW p \in Process, Appends(p), WriteNewline(p)
  PROVE  LinesOpen' /\ LinesShort' /\ StillToSee'
<1> DEFINE fd == append[p].fd
<1>1. /\ append[p].pc = "newline" /\ append'[p].pc \in {"written", "text"}
      /\ \A q \in Process : q # p => append'[q] = append[q]
      /\ live' = live /\ archive' = archive
  BY Shapes DEF LineInv, WriteNewline, Goto, At, AppendState
<1>2. /\ DOMAIN files' = DOMAIN files
      /\ fd \in DOMAIN files => files'[fd] = WithNewline(files[fd])
      /\ \A i \in DOMAIN files : i # fd => files'[i] = files[i]
  BY DEF WriteNewline
<1>3. \A q \in Process : \A i : HasOpen(q, i) => HasOpen(q, i)' \/ i = fd
  BY <1>1 DEF HasOpen
<1> HIDE DEF fd
<1>4. \A i \in DOMAIN files : files[i] \in FileOf(Event)
  BY Shapes DEF LineInv
<1>5. /\ act' = act /\ view' = view /\ history'.acked = history.acked
      /\ history.flags \subseteq history'.flags
  BY AppendsFrame
<1>6. fd \in DOMAIN files =>
        /\ Len(files'[fd].lines) >= 1 /\ LastLine(files'[fd]) = <<>>
        /\ \A n \in DOMAIN files'[fd].lines :
             files'[fd].lines[n] = <<>> \/ (n \in DOMAIN files[fd].lines /\ files'[fd].lines[n] = files[fd].lines[n])
  <2> SUFFICES ASSUME fd \in DOMAIN files
               PROVE  /\ Len(files'[fd].lines) >= 1 /\ LastLine(files'[fd]) = <<>>
                      /\ \A n \in DOMAIN files'[fd].lines :
                           \/ files'[fd].lines[n] = <<>>
                           \/ n \in DOMAIN files[fd].lines /\ files'[fd].lines[n] = files[fd].lines[n]
    OBVIOUS
  <2> DEFINE old == files[fd]
             new == files'[fd]
  <2>1. /\ Len(new.lines) = Len(old.lines) + 1 /\ LastLine(new) = <<>>
        /\ Len(old.lines) \in Nat /\ DOMAIN old.lines = 1..Len(old.lines)
        /\ DOMAIN new.lines = 1..Len(new.lines)
        /\ \A n \in DOMAIN old.lines : new.lines[n] = old.lines[n]
    BY <1>2, <1>4, NewlineShape
  <2>2. new.lines[Len(new.lines)] = <<>>
    BY <2>1 DEF LastLine
  <2> HIDE DEF old, new
  <2>3. \A n \in DOMAIN new.lines : n = Len(new.lines) \/ n \in DOMAIN old.lines
    BY <2>1
  <2>4. Len(new.lines) >= 1
    BY <2>1
  <2> QED BY <2>1, <2>2, <2>3, <2>4 DEF old, new
<1>7. ASSUME NEW i \in DOMAIN files'
      PROVE  /\ Len(files'[i].lines) >= 1
             /\ \A k \in DOMAIN LastLine(files'[i]) :
                  \E q \in Process : HasOpen(q, i)' /\ act'[q].nr = LastLine(files'[i])[k].act
  <2>1. CASE i # fd
    BY <1>2, <1>3, <1>5, <2>1 DEF LineInv, LinesOpen
  <2>2. CASE i = fd
    BY <1>2, <1>6, <2>2
  <2> QED BY <2>1, <2>2
<1>8. LinesOpen'
  <2>1. \A q \in Process : At(q, "cut")' => Doing(q, "dead")'
    BY <1>1, <1>5 DEF LineInv, LinesOpen, At, Doing
  <2> QED BY <1>7, <2>1 DEF LinesOpen, LastLine
<1>9. LinesShort'
  <2> SUFFICES ASSUME "torn" \notin history'.flags, NEW i \in DOMAIN files',
                      NEW n \in DOMAIN files'[i].lines
               PROVE  Len(files'[i].lines[n]) <= 1
    BY DEF LinesShort
  <2>1. \A j \in DOMAIN files : \A m \in DOMAIN files[j].lines : Len(files[j].lines[m]) <= 1
    BY <1>5 DEF LineInv, LinesShort
  <2>2. CASE i # fd
    BY <1>2, <2>1, <2>2
  <2>3. CASE i = fd
    <3>1. CASE files'[i].lines[n] = <<>>
      BY <3>1
    <3>2. CASE n \in DOMAIN files[fd].lines /\ files'[fd].lines[n] = files[fd].lines[n]
      BY <1>2, <2>1, <2>3, <3>2
    <3> QED BY <1>2, <1>6, <2>3, <3>1, <3>2
  <2> QED BY <2>2, <2>3
<1>10. StillToSee'
  <2>1. ASSUME NEW f \in history.acked, NEW i \in DOMAIN files, f \in Parsed(files[i])
        PROVE  f \in Parsed(files'[i])
    <3>1. CASE i # fd
      BY <1>2, <2>1, <3>1
    <3>2. CASE i = fd
      BY <1>2, <1>4, <2>1, <3>2, NewlineKeepsParsed
    <3> QED BY <3>1, <3>2
  <2>2. \A f \in history.acked : Ahead(f) => Ahead(f)'
    BY <1>1, <1>5, <2>1, AheadStays DEF LineInv
  <2> QED BY <1>5, <2>2, AppendsFrame, SeenStays DEF LineInv
<1> QED BY <1>8, <1>9, <1>10

\* Steps that touch no command, no call of append and no line.
LEMMA QuietLines ==
  ASSUME LineInv, UNCHANGED <<act, append, commands, view, archive>>, history'.acked = history.acked,
         history.flags \subseteq history'.flags,
         \/ files' = files /\ live' = live
         \/ files' = Append(files, EmptyFile) /\ live = NoFile
  PROVE  Numbered' /\ LinesOpen' /\ LinesShort' /\ StillToSee'
<1>1. Numbered'
  BY NumberedStays DEF LineInv, Busy, Doing, Writing
<1>2. LinesOpen' /\ LinesShort'
  <2>1. \A q \in Process : At(q, "cut")' => Doing(q, "dead")'
    BY DEF LineInv, LinesOpen, At, Doing
  <2> QED BY <2>1, LinesStay DEF LineInv
<1>3. StillToSee'
  BY SeenStays, ContentStays DEF LineInv
<1> QED BY <1>1, <1>2, <1>3

\* The reader: what it does not find in one file is in those it has still to open.
LEMMA EventsLines ==
  ASSUME LineInv, Events
  PROVE  Numbered' /\ LinesOpen' /\ LinesShort' /\ StillToSee'
<1>1. /\ UNCHANGED <<act, append, commands, files, live, archive>>
      /\ history'.acked = history.acked
      /\ "torn" \in history.flags => "torn" \in history'.flags
  BY Shapes DEF LineInv, Events, ListToRead, ReadArchive, ReadLive, bindingVars, counters, HistoryState
<1>2. Numbered'
  BY <1>1, NumberedStays DEF LineInv, Busy, Doing, Writing
<1>3. LinesOpen' /\ LinesShort'
  <2>1. \A q \in Process : At(q, "cut")' => Doing(q, "dead")'
    BY <1>1 DEF LineInv, LinesOpen, At, Doing
  <2> QED BY <1>1, <2>1, LinesStay DEF LineInv
<1>4. StillToSee'
  <2>1. \A j : Content(j)' = Content(j)
    BY <1>1 DEF Content, Parsed
  <2>2. Content(live)' = Content(live) /\ \A s : Content(archive[s])' = Content(archive[s])
    BY <1>1 DEF Content, Parsed
  <2>3. CASE ListToRead(history.acked \cap Retained)
    <3>1. /\ view'.pc = "reading" /\ view'.lacking = history.acked \cap Retained
          /\ view'.listed = Archives
      BY <2>3 DEF ListToRead, ToRead
    <3>2. ASSUME NEW e \in Retained PROVE Ahead(e)'
      <4>1. PICK i \in Named : e \in Parsed(files[i])
        BY <3>2 DEF Retained
      <4>2. CASE i = live /\ live # NoFile
        BY <2>2, <4>1, <4>2 DEF Ahead, Content
      <4>3. CASE \E a \in Archives : i = archive[a]
        <5>1. PICK a \in Archives : i = archive[a]
          BY <4>3
        <5>2. e \in Content(archive[a])
          BY <4>1, <5>1 DEF Archives, Content
        <5> QED BY <2>2, <3>1, <5>1, <5>2 DEF Ahead
      <4> QED BY <4>2, <4>3, <4>1 DEF Named
    <3> QED BY <1>1, <3>1, <3>2 DEF StillToSee
  <2>4. CASE ReadArchive /\ history' = history
    <3>1. PICK s \in view.listed :
            view' = [view EXCEPT !.lacking = @ \ Content(archive[s]), !.listed = @ \ {s}]
      BY <2>4 DEF ReadArchive
    <3>2. /\ view.pc = "reading" /\ view'.pc = "reading"
          /\ view'.lacking = view.lacking \ Content(archive[s])
          /\ view'.listed = view.listed \ {s}
      BY <2>4, <3>1 DEF ReadArchive, LineInv, Inv, TypeOK
    <3>3. ASSUME NEW e, Ahead(e), e \notin Content(archive[s]) PROVE Ahead(e)'
      BY <2>2, <3>2, <3>3 DEF Ahead
    <3> QED BY <2>4, <3>2, <3>3 DEF LineInv, StillToSee
  <2>5. CASE ReadLive /\ history' = history
    <3>1. view.pc = "reading" /\ view.listed = {}
          /\ view'.pc = "idle" /\ view'.lacking = view.lacking \ Content(live)
      BY <2>5 DEF ReadLive, IdleView
    <3> QED BY <2>5, <3>1 DEF LineInv, StillToSee, Ahead
  <2> QED BY <2>3, <2>4, <2>5 DEF Events
<1> QED BY <1>2, <1>3, <1>4

LEMMA LinesInit == Init => LineInv
<1> SUFFICES ASSUME Init PROVE LineInv
  OBVIOUS
<1>1. Numbered /\ LinesOpen /\ LinesShort /\ StillToSee
  BY DEF Init, BindingsInit, JournalInit, IdleAct, IdleAppend, IdleView, NoHistory,
         Numbered, LinesOpen, LinesShort, StillToSee, Busy, Doing, Writing, At
<1> QED BY <1>1, InitHolds DEF LineInv

LEMMA LinesStep == LineInv /\ [Next]_vars => LineInv'
<1> SUFFICES ASSUME LineInv, [Next]_vars
             PROVE  Numbered' /\ LinesOpen' /\ LinesShort' /\ StillToSee'
  BY StepKeeps DEF LineInv
<1>1. CASE \E p \in Process : \E claims \in Lists : Bind(p, claims)
  BY <1>1, BindLines
<1>2. CASE \E p \in Process : RecordRun(p) \/ Kill(p)
  BY <1>2, RecordRunLines, KillLines
<1>3. CASE \E p \in Process : BindWrites(p) \/ BindFails(p) \/ Finish(p)
  BY <1>3, BindWritesLines, BindFailsLines, FinishLines
<1>4. CASE \E p \in Process : Appends(p)
  <2>1. PICK p \in Process : Appends(p)
    BY <1>4
  <2>2. Numbered' /\ AppendStep(p)
    BY <2>1, AppendsFrame
  <2>3. CASE NameArchive(p) \/ Rename(p) \/ RenameFails(p) \/ ListArchives(p)
           \/ RemoveOldest(p) \/ Open(p)
    BY <2>1, <2>2, <2>3, NamesLines
  <2>4. CASE WriteText(p)
    BY <2>1, <2>2, <2>4, TextLines
  <2>5. CASE WriteNewline(p)
    BY <2>1, <2>2, <2>5, NewlineLines
  <2> QED BY <2>2, <2>3, <2>4, <2>5 DEF AppendStep
<1>5. CASE EditByHand
  <2>1. /\ UNCHANGED <<act, append, commands, view, files, live, archive>> /\ history'.acked = history.acked
        /\ history.flags \subseteq history'.flags
    BY <1>5, Shapes DEF LineInv, EditByHand, BreakToml, journalVars, HistoryState
  <2> QED BY <2>1, QuietLines
<1>6. CASE Events
  BY <1>6, EventsLines
<1>7. CASE Doctor \/ Time
  <2>1. UNCHANGED <<act, append, commands, view, archive, history>>
    BY <1>7 DEF Doctor, Time, Touch, Tick, bindingVars, counters
  <2>2. (files' = files /\ live' = live) \/ (files' = Append(files, EmptyFile) /\ live = NoFile)
    BY <1>7 DEF Doctor, Time, Touch, Tick
  <2> QED BY <2>1, <2>2, QuietLines
<1>8. CASE UNCHANGED vars
  <2>1. UNCHANGED <<act, append, commands, view, archive, history, files, live>>
    BY <1>8 DEF vars, bindingVars, journalVars, counters
  <2> QED BY <2>1, QuietLines
<1> QED BY <1>1, <1>2, <1>3, <1>4, <1>5, <1>6, <1>7, <1>8 DEF Next, Command

LEMMA LinesHold == Spec => []LineInv
BY LinesInit, LinesStep, PTL DEF Spec

\* However writers, renames and kills interleave, every event in a file that has
\* a name can be read back, unless a text was written into an open line.
THEOREM NoLineLost == Spec => []RecordsReadable
<1>1. LineInv => RecordsReadable
  <2> SUFFICES ASSUME LineInv, "torn" \notin history.flags, NEW i \in Named
               PROVE  WrittenIn(i) = Parsed(files[i])
    BY DEF RecordsReadable
  <2>1. i \in DOMAIN files
    BY Shapes DEF LineInv, Named, Archives, NoFile
  <2>2. ASSUME NEW e \in WrittenIn(i) PROVE e \in Parsed(files[i])
    <3>1. PICK n \in DOMAIN files[i].lines :
            \E k \in DOMAIN files[i].lines[n] : files[i].lines[n][k] = e
      BY <2>2 DEF WrittenIn
    <3>2. PICK k \in DOMAIN files[i].lines[n] : files[i].lines[n][k] = e
      BY <3>1
    <3>3. Len(files[i].lines[n]) <= 1 /\ files[i].lines[n] \in Seq(Event)
      BY <2>1, Shapes DEF LineInv, LinesShort
    <3>4. files[i].lines[n] = <<e>>
      BY <3>2, <3>3
    <3>5. e \in Event
      BY <2>2 DEF WrittenIn
    <3> QED BY <3>4, <3>5 DEF Parsed
  <2>3. ASSUME NEW e \in Parsed(files[i]) PROVE e \in WrittenIn(i)
    <3>1. PICK n \in DOMAIN files[i].lines : files[i].lines[n] = <<e>>
      BY <2>3 DEF Parsed
    <3>2. 1 \in DOMAIN files[i].lines[n] /\ files[i].lines[n][1] = e
      BY <3>1
    <3> QED BY <2>3, <3>2 DEF Parsed, WrittenIn
  <2> QED BY <2>2, <2>3
<1> QED BY <1>1, LinesHold, PTL

\* A reader of the whole journal misses nothing that was acknowledged and
\* retained when it listed the archives, unless the journal was rotated, or an
\* archive it had not opened yet pruned, before its last read.
THEOREM ReaderComplete == Spec => []ReaderSeesAll
<1>1. LineInv => ReaderSeesAll
  BY DEF LineInv, StillToSee, ReaderSeesAll
<1> QED BY <1>1, LinesHold, PTL

-----------------------------------------------------------------------------
(***************************************************************************)
(* The recent window.  Full files become archives in the order of their    *)
(* seconds, so Newer(s) counts files of at least Full events each, all     *)
(* written after those of archive s; what prune removes is therefore old.  *)
(***************************************************************************)
Full == MaxBytes + 1
Old(i) == Len(history.order) - i >= KeepArchives * Full
LiveSize == IF live = NoFile THEN 0 ELSE files[live].size
Clean == history.flags \cap {"torn", "crossed", "collided"} = {}

\* No event is written twice: what is still to be written is in no file.
Fresh ==
  /\ \A i \in DOMAIN files : \A e \in WrittenIn(i) : e.act <= commands
  /\ \A p \in Process : Doing(p, "write") =>
       \A i \in DOMAIN files : \A e \in WrittenIn(i) : e.act # act[p].nr
  /\ \A p \in Process : Writing(p) =>
       \A i \in DOMAIN files : \A e \in WrittenIn(i) : e \notin append[p].batch

\* Who renames found the live journal full, and knows a second no archive is later than.
RenamesFull ==
  \A p \in Process :
    /\ append[p].pc \in {"stamp", "rename"} => live # NoFile /\ Oversized(files[live])
    /\ At(p, "rename") =>
         append[p].stamp <= clock /\ \A s \in Archives : s <= append[p].stamp

\* Who writes, writes into the live journal.
WritesLive ==
  \A p \in Process : append[p].pc \in {"text", "newline"} => live # NoFile /\ append[p].fd = live

\* Since an archive was the live journal, as many full files were written as are newer.
ArchivesOrdered ==
  \A s \in Archives :
    /\ s <= clock /\ archive[s] # live
    /\ \A i \in DOMAIN history.order : history.order[i] \in Content(archive[s]) =>
         Len(history.order) >= i + Cardinality(Newer(s)) * Full + LiveSize

\* What is about to be removed is old, and its name is not given again.
DoomedOld ==
  \A q \in Process : At(q, "prune") => \A s \in append[q].doomed :
    /\ s < clock
    /\ \A p \in Process : At(p, "rename") => s < append[p].stamp
    /\ \A i \in DOMAIN history.order : history.order[i] \in Content(archive[s]) => Old(i)

\* What is not old is in a file with a name.
RecentNamed ==
  \A i \in DOMAIN history.order :
    \/ Old(i)
    \/ history.order[i] \in Content(live)
    \/ \E s \in Archives : history.order[i] \in Content(archive[s])

Window ==
  Clean /\ KeepArchives > 0 =>
    RenamesFull /\ WritesLive /\ ArchivesOrdered /\ DoomedOld /\ RecentNamed

WindowInv == LineInv /\ Fresh /\ Window

-----------------------------------------------------------------------------
\* No new text: what is in a file was there before.
LEMMA NoNewText ==
  ASSUME Inv, NEW p,
         \/ files' = files
         \/ files' = Append(files, EmptyFile)
         \/ files' = [files EXCEPT ![append[p].fd] = WithNewline(files[append[p].fd])]
  PROVE  \A i \in DOMAIN files' : \A e \in WrittenIn(i)' : i \in DOMAIN files /\ e \in WrittenIn(i)
<1> SUFFICES ASSUME NEW i \in DOMAIN files', NEW e \in WrittenIn(i)'
             PROVE  i \in DOMAIN files /\ e \in WrittenIn(i)
  OBVIOUS
<1>1. PICK n \in DOMAIN files'[i].lines :
        e \in Event /\ \E k \in DOMAIN files'[i].lines[n] : files'[i].lines[n][k] = e
  BY DEF WrittenIn
<1>2. CASE files' = files
  BY <1>1, <1>2 DEF WrittenIn
<1>3. CASE files' = Append(files, EmptyFile)
  <2>1. (i \in DOMAIN files /\ files'[i] = files[i]) \/ files'[i] = EmptyFile
    BY <1>3, Shapes
  <2>2. files'[i] # EmptyFile
    BY <1>1 DEF EmptyFile
  <2> QED BY <1>1, <2>1, <2>2 DEF WrittenIn
<1>4. CASE files' = [files EXCEPT ![append[p].fd] = WithNewline(files[append[p].fd])]
  <2>1. i \in DOMAIN files /\ (files'[i] = files[i] \/ files'[i] = WithNewline(files[i]))
    BY <1>4
  <2>2. CASE files'[i] = files[i]
    BY <1>1, <2>1, <2>2 DEF WrittenIn
  <2>3. CASE files'[i] = WithNewline(files[i])
    <3> DEFINE old == files[i]
               new == files'[i]
    <3>1. /\ LastLine(new) = <<>> /\ Len(new.lines) = Len(old.lines) + 1
          /\ Len(old.lines) \in Nat /\ DOMAIN old.lines = 1..Len(old.lines)
          /\ DOMAIN new.lines = 1..Len(new.lines)
          /\ \A m \in DOMAIN old.lines : new.lines[m] = old.lines[m]
      BY <2>1, <2>3, Shapes, NewlineShape
    <3>2. n # Len(new.lines)
      BY <1>1, <3>1 DEF LastLine
    <3> HIDE DEF old, new
    <3>3. n \in DOMAIN new.lines
      BY <1>1 DEF new
    <3>4. n \in DOMAIN old.lines
      BY <3>1, <3>2, <3>3
    <3> QED BY <1>1, <2>1, <3>1, <3>4 DEF old, new, WrittenIn
  <2> QED BY <2>1, <2>2, <2>3
<1> QED BY <1>2, <1>3, <1>4

\* Steps that write no text and give nobody anything to write.
LEMMA FreshStays ==
  ASSUME LineInv, Fresh, commands' \in Nat, commands' >= commands,
         \A i \in DOMAIN files' : \A e \in WrittenIn(i)' : i \in DOMAIN files /\ e \in WrittenIn(i),
         \A q \in Process : Doing(q, "write")' =>
           (Doing(q, "write") /\ act'[q].nr = act[q].nr) \/ act'[q].nr = commands + 1,
         \A q \in Process : Writing(q)' =>
           \/ Writing(q) /\ append'[q].batch \subseteq append[q].batch
           \/ Doing(q, "write") /\ \A e \in append'[q].batch : e.act = act[q].nr
           \/ \A e \in append'[q].batch : e.act = commands + 1
  PROVE  Fresh'
<1>1. \A i \in DOMAIN files : \A e \in WrittenIn(i) : e.act \in Nat /\ e.act <= commands
  <2>1. \A i : WrittenIn(i) \subseteq Event
    BY DEF WrittenIn
  <2>2. \A e \in Event : e.act \in Nat
    BY ActsAssumption DEF Event, Stamp
  <2> QED BY <2>1, <2>2 DEF Fresh
<1>2. commands \in Nat
  BY Shapes DEF LineInv
<1>3. \A i \in DOMAIN files' : \A e \in WrittenIn(i)' : e.act <= commands' /\ e.act # commands + 1
  BY <1>1, <1>2
<1>4. ASSUME NEW q \in Process, Doing(q, "write")', NEW i \in DOMAIN files', NEW e \in WrittenIn(i)'
      PROVE  e.act # act'[q].nr
  BY <1>3, <1>4 DEF Fresh
<1>5. ASSUME NEW q \in Process, Writing(q)', NEW i \in DOMAIN files', NEW e \in WrittenIn(i)'
      PROVE  e \notin append'[q].batch
  BY <1>3, <1>5 DEF Fresh
<1> QED BY <1>3, <1>4, <1>5 DEF Fresh

\* A text is one that had not been written, by a command whose number no other has.
LEMMA FreshText ==
  ASSUME LineInv, Fresh, NEW p \in Process, Appends(p), WriteText(p)
  PROVE  /\ Fresh'
         /\ NextEvent(p) \in Event
         /\ \A i \in DOMAIN files : NextEvent(p) \notin WrittenIn(i)
<1> DEFINE e == NextEvent(p)
           fd == append[p].fd
<1>1. /\ append[p].pc = "text" /\ append'[p].pc = "newline"
      /\ append'[p].batch = append[p].batch \ {e}
      /\ \A q \in Process : q # p => append'[q] = append[q]
  BY Shapes DEF LineInv, WriteText, At, AppendState
<1>2. act' = act /\ commands' = commands
  BY AppendsFrame
<1>3. e \in append[p].batch /\ e \in Event /\ e.act = act[p].nr
  <2>1. append[p].batch # {} /\ append[p].batch \subseteq Event
    BY <1>1, Shapes DEF LineInv, Inv, Acting, AppendState
  <2>2. e \in append[p].batch
    BY <2>1, NextOfBatch
  <2> QED BY <1>1, <2>1, <2>2 DEF LineInv, Numbered, Writing
<1>4. \A q \in Process : Writing(q) => Busy(q)
  BY DEF LineInv, Inv, Acting, Writing, At, Busy
<1>5. \A i \in DOMAIN files : e \notin WrittenIn(i)
  BY <1>1, <1>3 DEF Fresh, Writing
<1>6. ASSUME NEW i \in DOMAIN files', NEW f \in WrittenIn(i)'
      PROVE  i \in DOMAIN files /\ (f \in WrittenIn(i) \/ f = e)
  <2>1. i \in DOMAIN files /\ (files'[i] = files[i] \/ files'[i] = WithText(files[i], e))
    BY DEF WriteText
  <2>2. PICK n \in DOMAIN files'[i].lines :
          f \in Event /\ \E k \in DOMAIN files'[i].lines[n] : files'[i].lines[n][k] = f
    BY <1>6 DEF WrittenIn
  <2>3. PICK k \in DOMAIN files'[i].lines[n] : files'[i].lines[n][k] = f
    BY <2>2
  <2>4. CASE files'[i] = files[i]
    BY <2>1, <2>2, <2>4 DEF WrittenIn
  <2>5. CASE files'[i] = WithText(files[i], e)
    <3> DEFINE old == files[i]
               new == files'[i]
    <3>1. /\ Len(new.lines) = Len(old.lines) /\ DOMAIN new.lines = DOMAIN old.lines
          /\ LastLine(old) \in Seq(Event) /\ LastLine(new) = Append(LastLine(old), e)
          /\ \A m \in DOMAIN old.lines : m # Len(old.lines) => new.lines[m] = old.lines[m]
      <4>1. old \in FileOf(Event) /\ Len(old.lines) >= 1
        BY <2>1, Shapes DEF LineInv, LinesOpen
      <4> HIDE DEF e
      <4> QED BY <1>3, <2>5, <4>1, TextShape
    <3> HIDE DEF e
    <3>2. CASE n # Len(old.lines)
      BY <2>1, <2>2, <3>1, <3>2 DEF WrittenIn
    <3>3. CASE n = Len(old.lines)
      <4>1. new.lines[n] = Append(LastLine(old), e) /\ old.lines[n] = LastLine(old)
        BY <3>1, <3>3 DEF LastLine
      <4>2. CASE k \in DOMAIN LastLine(old)
        <5>1. old.lines[n][k] = f
          BY <1>3, <2>3, <3>1, <4>1, <4>2
        <5> QED BY <2>1, <2>2, <3>1, <4>1, <4>2, <5>1 DEF WrittenIn
      <4>3. CASE k \notin DOMAIN LastLine(old)
        <5> DEFINE last == LastLine(old)
        <5>1. last \in Seq(Event) /\ new.lines[n] = Append(last, e) /\ e \in Event
          BY <1>3, <3>1, <4>1 DEF e
        <5> HIDE DEF last
        <5>2. k = Len(last) + 1
          <6>1. DOMAIN Append(last, e) = 1..(Len(last) + 1) /\ DOMAIN last = 1..Len(last) /\ Len(last) \in Nat
            BY <5>1
          <6>2. k \in 1..(Len(last) + 1) /\ k \notin 1..Len(last)
            BY <2>3, <4>3, <5>1, <6>1 DEF last
          <6> QED BY <6>1, <6>2
        <5>3. f = e
          BY <2>3, <5>1, <5>2
        <5> QED BY <2>1, <5>3
      <4> QED BY <4>2, <4>3
    <3> QED BY <3>2, <3>3
  <2> QED BY <2>1, <2>4, <2>5
<1> HIDE DEF e
<1>7. ASSUME NEW i \in DOMAIN files', NEW f \in WrittenIn(i)'
      PROVE  f.act <= commands'
  BY <1>1, <1>2, <1>3, <1>4, <1>6, <1>7 DEF LineInv, Numbered, Fresh, Writing
<1>8. ASSUME NEW q \in Process, Doing(q, "write")', NEW i \in DOMAIN files', NEW f \in WrittenIn(i)'
      PROVE  f.act # act'[q].nr
  <2>1. Doing(q, "write") /\ Busy(q) /\ q # p
    BY <1>1, <1>2, <1>8 DEF LineInv, Inv, Acting, Doing, At, Busy
  <2>2. Busy(p)
    BY <1>1, <1>4 DEF Writing
  <2> QED BY <1>2, <1>3, <1>6, <1>8, <2>1, <2>2 DEF LineInv, Numbered, Fresh
<1>9. ASSUME NEW q \in Process, Writing(q)', NEW i \in DOMAIN files', NEW f \in WrittenIn(i)'
      PROVE  f \notin append'[q].batch
  <2>1. CASE q = p
    BY <1>1, <1>6, <1>9, <2>1 DEF Fresh, Writing
  <2>2. CASE q # p
    <3>1. append'[q] = append[q] /\ Writing(q) /\ Busy(q) /\ Busy(p)
      BY <1>1, <1>4, <1>9, <2>2 DEF Writing
    <3>2. \A g \in append[q].batch : g.act = act[q].nr
      BY <3>1 DEF LineInv, Numbered
    <3>3. act[q].nr # act[p].nr
      BY <2>2, <3>1 DEF LineInv, Numbered
    <3> QED BY <1>3, <1>6, <1>9, <3>1, <3>2, <3>3 DEF Fresh
  <2> QED BY <2>1, <2>2
<1>10. Fresh'
  BY <1>7, <1>8, <1>9 DEF Fresh
<1> QED BY <1>3, <1>5, <1>10 DEF e

LEMMA FreshStep ==
  ASSUME LineInv, Fresh, [Next]_vars
  PROVE  Fresh'
<1>1. CASE \E p \in Process : \E claims \in Lists : Bind(p, claims)
  <2>1. PICK p \in Process : \E claims \in Lists : Bind(p, claims)
    BY <1>1
  <2>2. /\ files' = files /\ append' = append /\ commands' = commands + 1
        /\ act'[p].nr = commands + 1 /\ \A q \in Process : q # p => act'[q] = act[q]
    <3>1. PICK claims \in Lists : Bind(p, claims)
      BY <2>1
    <3> DEFINE s == [pc |-> "write", nr |-> commands + 1, claims |-> claims, seen |-> ReadFile]
    <3>2. act' = [act EXCEPT ![p] = s] /\ s.nr = commands + 1
      BY <3>1 DEF Bind, StartAct
    <3> HIDE DEF s
    <3> QED BY <3>1, <3>2, Shapes DEF LineInv, Bind, journalVars
  <2>3. \A i \in DOMAIN files' : \A e \in WrittenIn(i)' : i \in DOMAIN files /\ e \in WrittenIn(i)
    BY <2>2, NoNewText DEF LineInv
  <2>4. commands' \in Nat /\ commands' >= commands
    BY <2>2, Shapes DEF LineInv
  <2>5. \A q \in Process : Doing(q, "write")' =>
          (Doing(q, "write") /\ act'[q].nr = act[q].nr) \/ act'[q].nr = commands + 1
    BY <2>2 DEF Doing
  <2>6. \A q \in Process : Writing(q)' => Writing(q) /\ append'[q].batch \subseteq append[q].batch
    BY <2>2 DEF Writing
  <2> QED BY <2>3, <2>4, <2>5, <2>6, FreshStays
<1>2. CASE \E p \in Process : BindWrites(p)
  <2>1. PICK p \in Process : BindWrites(p)
    BY <1>2
  <2>2. /\ Doing(p, "write") /\ act'[p].pc = "returning" /\ commands' = commands
        /\ \A q \in Process : q # p => act'[q] = act[q]
    BY <2>1, Shapes DEF LineInv, BindWrites, WriteToml, Doing, ActState, counters
  <2>3. /\ files' = files /\ \A q \in Process : q # p => append'[q] = append[q]
        /\ \A e \in append'[p].batch : e.act = act[p].nr
    <3>1. Call(p, EventsOf(p)) /\ \A e \in EventsOf(p) : e.act = act[p].nr
      BY <2>1 DEF BindWrites, EventsOf
    <3> QED BY <3>1, CallEffect DEF LineInv
  <2>4. \A i \in DOMAIN files' : \A e \in WrittenIn(i)' : i \in DOMAIN files /\ e \in WrittenIn(i)
    BY <2>3, NoNewText DEF LineInv
  <2>5. commands' \in Nat /\ commands' >= commands
    BY <2>2, Shapes DEF LineInv
  <2> QED BY <2>2, <2>3, <2>4, <2>5, FreshStays DEF Doing, Writing
<1>3. CASE \E p \in Process : RecordRun(p)
  <2>1. PICK p \in Process : RecordRun(p)
    BY <1>3
  <2> DEFINE e == [act |-> commands + 1, about |-> NoClaim]
  <2>2. Call(p, {e}) /\ commands' = commands + 1
    BY <2>1 DEF RecordRun
  <2>3. act'[p].pc = "returning" /\ \A q \in Process : q # p => act'[q] = act[q]
    BY <2>1, Shapes DEF LineInv, RecordRun, IdleAct
  <2>4. /\ files' = files /\ \A q \in Process : q # p => append'[q] = append[q]
        /\ \A f \in append'[p].batch : f.act = commands + 1
    BY <2>2, CallEffect DEF LineInv
  <2>5. \A i \in DOMAIN files' : \A f \in WrittenIn(i)' : i \in DOMAIN files /\ f \in WrittenIn(i)
    BY <2>4, NoNewText DEF LineInv
  <2>6. commands' \in Nat /\ commands' >= commands
    BY <2>2, Shapes DEF LineInv
  <2> HIDE DEF e
  <2> QED BY <2>3, <2>4, <2>5, <2>6, FreshStays DEF Doing, Writing
<1>4. CASE \E p \in Process : BindFails(p) \/ Finish(p) \/ Kill(p)
  <2>1. PICK p \in Process : BindFails(p) \/ Finish(p) \/ Kill(p)
    BY <1>4
  <2>2. /\ files' = files /\ commands' = commands /\ ~Doing(p, "write")'
        /\ \A q \in Process : q # p => act'[q] = act[q] /\ append'[q] = append[q]
    BY <2>1, Shapes DEF LineInv, BindFails, Finish, Return, Kill, Die, IdleAct, Doing, ActState,
                        AppendState, counters, journalVars
  <2>3. Writing(p)' => Writing(p) /\ append'[p].batch = append[p].batch
    <3>1. CASE BindFails(p)
      BY <3>1 DEF BindFails, journalVars, Writing
    <3>2. CASE Finish(p)
      BY <3>2, Shapes DEF LineInv, Finish, Return, IdleAppend, Writing
    <3>3. CASE Kill(p)
      BY <3>3, Shapes DEF LineInv, Kill, Die, AppendState, Writing
    <3> QED BY <2>1, <3>1, <3>2, <3>3
  <2>4. \A i \in DOMAIN files' : \A f \in WrittenIn(i)' : i \in DOMAIN files /\ f \in WrittenIn(i)
    BY <2>2, NoNewText DEF LineInv
  <2>5. commands' \in Nat /\ commands' >= commands
    BY <2>2, Shapes DEF LineInv
  <2> QED BY <2>2, <2>3, <2>4, <2>5, FreshStays DEF Doing, Writing
<1>5. CASE \E p \in Process : Appends(p)
  <2>1. PICK p \in Process : Appends(p)
    BY <1>5
  <2>2. AppendStep(p) /\ act' = act /\ commands' = commands
    BY <2>1, AppendsFrame
  <2>3. CASE WriteText(p)
    BY <2>1, <2>3, FreshText
  <2>4. CASE ~WriteText(p)
    <3>1. \A i \in DOMAIN files' : \A e \in WrittenIn(i)' : i \in DOMAIN files /\ e \in WrittenIn(i)
      <4>1. \/ files' = files
            \/ files' = Append(files, EmptyFile)
            \/ files' = [files EXCEPT ![append[p].fd] = WithNewline(files[append[p].fd])]
        BY <2>2, <2>4 DEF AppendStep, NameArchive, Rename, RenameFails, ListArchives, RemoveOldest, Open, WriteNewline
      <4> QED BY <4>1, NoNewText DEF LineInv
    <3>2. PICK a \in AppendState(Len(files')) :
            append' = [append EXCEPT ![p] = a] /\ a.batch \subseteq append[p].batch
      BY <2>2, AppendEffect DEF LineInv, Goes
    <3>3. Writing(p)
      BY <2>2 DEF AppendStep, NameArchive, Rename, RenameFails, ListArchives, RemoveOldest, Open, WriteText,
                  WriteNewline, At, Writing
    <3>4. \A q \in Process : Writing(q)' => Writing(q) /\ append'[q].batch \subseteq append[q].batch
      BY <3>2, <3>3, Shapes DEF LineInv, Writing
    <3>5. commands' \in Nat /\ commands' >= commands
      BY <2>2, Shapes DEF LineInv
    <3> QED BY <2>2, <3>1, <3>4, <3>5, FreshStays DEF Doing
  <2> QED BY <2>3, <2>4
<1>6. CASE EditByHand \/ Events \/ Doctor \/ Time \/ UNCHANGED vars
  <2>1. UNCHANGED <<act, append, commands>>
    BY <1>6 DEF EditByHand, BreakToml, Events, ListToRead, ReadArchive, ReadLive, Doctor, Touch, Time, Tick,
                vars, bindingVars, journalVars, counters
  <2>2. files' = files \/ files' = Append(files, EmptyFile)
    BY <1>6 DEF EditByHand, BreakToml, Events, ListToRead, ReadArchive, ReadLive, Doctor, Touch, Time, Tick,
                vars, journalVars
  <2>3. commands' \in Nat /\ commands' >= commands
    BY <2>1, Shapes DEF LineInv
  <2>4. \A i \in DOMAIN files' : \A e \in WrittenIn(i)' : i \in DOMAIN files /\ e \in WrittenIn(i)
    BY <2>2, NoNewText DEF LineInv
  <2> QED BY <2>1, <2>3, <2>4, FreshStays DEF Doing, Writing
<1> QED BY <1>1, <1>2, <1>3, <1>4, <1>5, <1>6 DEF Next, Command

-----------------------------------------------------------------------------
\* The types the proofs about the window use.
LEMMA WindowShapes ==
  ASSUME Inv
  PROVE  /\ clock \in Nat /\ Second \subseteq Nat /\ Archives \subseteq Second
         /\ \A p \in Process : append[p].stamp \in Second /\ append[p].doomed \subseteq Second
         /\ history.order \in Seq(Event) /\ Len(history.order) \in Nat
         /\ DOMAIN history.order = 1..Len(history.order)
         /\ LiveSize \in Nat /\ KeepArchives * Full \in Nat /\ Full \in Nat /\ KeepArchives \in Nat
         /\ \A s : IsFiniteSet(Newer(s)) /\ Cardinality(Newer(s)) \in Nat
         /\ \A s : Cardinality(Newer(s)) * Full \in Nat
<1>1. clock \in Nat /\ Second \subseteq Nat /\ Archives \subseteq Second
  BY JournalAssumption DEF Inv, TypeOK, Second, Archives
<1>2. \A p \in Process : append[p].stamp \in Second /\ append[p].doomed \subseteq Second
  BY Shapes DEF AppendState
<1>3. /\ history.order \in Seq(Event) /\ Len(history.order) \in Nat
      /\ DOMAIN history.order = 1..Len(history.order)
  BY Shapes DEF HistoryState
<1>4. LiveSize \in Nat
  <2>1. \A i \in DOMAIN files : files[i].size \in Nat
    BY Shapes DEF FileOf
  <2>2. live = NoFile \/ live \in DOMAIN files
    BY Shapes DEF NoFile
  <2> QED BY <2>1, <2>2 DEF LiveSize
<1>5. Full \in Nat /\ KeepArchives \in Nat
  BY JournalAssumption DEF Full
<1>6. KeepArchives * Full \in Nat
  BY <1>5
<1>7. ASSUME NEW s PROVE IsFiniteSet(Newer(s)) /\ Cardinality(Newer(s)) \in Nat
  <2>1. IsFiniteSet(Second)
    BY JournalAssumption, FS_Interval DEF Second
  <2>2. Newer(s) \in SUBSET Second
    BY DEF Newer, Archives
  <2>3. IsFiniteSet(Newer(s))
    BY <2>1, <2>2, FS_Subset
  <2> QED BY <2>3, FS_CardinalityType
<1>8. ASSUME NEW s PROVE Cardinality(Newer(s)) * Full \in Nat
  BY <1>5, <1>7
<1> QED BY <1>1, <1>2, <1>3, <1>4, <1>5, <1>6, <1>7, <1>8

\* Steps that neither write nor rename nor prune.
LEMMA WindowStays ==
  ASSUME LineInv, Window, Clean' => Clean, history'.order = history.order, archive' = archive,
         clock' \in Nat, clock' >= clock,
         \/ files' = files /\ live' = live
         \/ files' = Append(files, EmptyFile) /\ live = NoFile /\ live' = Len(files) + 1,
         \A p \in Process : append'[p].pc \in {"stamp", "rename"} =>
           \/ append[p].pc \in {"stamp", "rename"}
           \/ live # NoFile /\ Oversized(files[live]),
         \A p \in Process : At(p, "rename")' =>
           \/ At(p, "rename") /\ append'[p].stamp = append[p].stamp
           \/ append'[p].stamp = clock,
         \A p \in Process : append'[p].pc \in {"text", "newline"} =>
           \/ append[p].pc \in {"text", "newline"} /\ append'[p].fd = append[p].fd
           \/ live' # NoFile /\ append'[p].fd = live',
         \A q \in Process : At(q, "prune")' =>
           At(q, "prune") /\ append'[q].doomed = append[q].doomed
  PROVE  Window'
<1> SUFFICES ASSUME Clean', KeepArchives > 0
             PROVE  (RenamesFull /\ WritesLive /\ ArchivesOrdered /\ DoomedOld /\ RecentNamed)'
  BY DEF Window
<1>0. RenamesFull /\ WritesLive /\ ArchivesOrdered /\ DoomedOld /\ RecentNamed
  BY DEF Window
<1>1. /\ clock \in Nat /\ Second \subseteq Nat /\ Archives \subseteq Second
      /\ \A p \in Process : append[p].stamp \in Second /\ append[p].doomed \subseteq Second
      /\ archive \in [Second -> 0..Len(files)] /\ live \in 0..Len(files) /\ Len(files) \in Nat
      /\ DOMAIN files = 1..Len(files)
  BY Shapes, WindowShapes DEF LineInv
<1>2. \A j \in DOMAIN files : files'[j] = files[j]
  BY <1>1
<1>3. Archives' = Archives /\ \A s : Newer(s)' = Newer(s)
  BY DEF Archives, Newer
<1>4. ASSUME NEW s \in Second PROVE Content(archive[s])' = Content(archive[s])
  <2>1. archive'[s] = archive[s] /\ (archive[s] = NoFile \/ archive[s] \in DOMAIN files)
    BY <1>1 DEF NoFile
  <2>2. archive[s] # NoFile => files'[archive'[s]] = files[archive[s]]
    BY <1>2, <2>1
  <2> QED BY <2>1, <2>2 DEF Content, Parsed
<1>5. \A e \in Content(live) : e \in Content(live)'
  BY <1>1, <1>2 DEF Content, Parsed, NoFile
<1>6. LiveSize' = LiveSize
  <2>1. CASE files' = files /\ live' = live
    BY <2>1 DEF LiveSize
  <2>2. CASE files' = Append(files, EmptyFile) /\ live = NoFile /\ live' = Len(files) + 1
    <3>1. files'[live'] = EmptyFile /\ live' # NoFile
      BY <1>1, <2>2, Shapes DEF LineInv, NoFile
    <3> QED BY <2>2, <3>1 DEF LiveSize, EmptyFile
  <2> QED BY <2>1, <2>2
<1>7. \A s \in Second : archive[s] # live => archive'[s] # live'
  BY <1>1
<1>8. RenamesFull'
  <2>1. ASSUME NEW p \in Process, append'[p].pc \in {"stamp", "rename"}
        PROVE  live' # NoFile /\ Oversized(files'[live'])
    <3>1. live # NoFile /\ Oversized(files[live])
      BY <1>0, <2>1 DEF RenamesFull
    <3>2. files' = files /\ live' = live
      BY <3>1
    <3> QED BY <3>1, <3>2 DEF Oversized
  <2>2. ASSUME NEW p \in Process, At(p, "rename")'
        PROVE  append'[p].stamp <= clock' /\ \A s \in Archives : s <= append'[p].stamp
    <3>1. CASE At(p, "rename") /\ append'[p].stamp = append[p].stamp
      <4>1. append[p].stamp <= clock /\ \A s \in Archives : s <= append[p].stamp
        BY <1>0, <3>1 DEF RenamesFull
      <4>2. append[p].stamp \in Nat
        BY <1>1
      <4> QED BY <1>1, <3>1, <4>1, <4>2
    <3>2. CASE append'[p].stamp = clock
      BY <1>0, <1>1, <3>2 DEF ArchivesOrdered
    <3> QED BY <2>2, <3>1, <3>2
  <2> QED BY <1>3, <2>1, <2>2 DEF RenamesFull
<1>9. WritesLive'
  <2> SUFFICES ASSUME NEW p \in Process, append'[p].pc \in {"text", "newline"}
               PROVE  live' # NoFile /\ append'[p].fd = live'
    BY DEF WritesLive
  <2>1. CASE append[p].pc \in {"text", "newline"} /\ append'[p].fd = append[p].fd
    BY <1>0, <2>1 DEF WritesLive
  <2> QED BY <2>1
<1>10. ArchivesOrdered'
  <2> SUFFICES ASSUME NEW s \in Archives
               PROVE  /\ s <= clock' /\ archive'[s] # live'
                      /\ \A i \in DOMAIN history.order : history.order[i] \in Content(archive[s]) =>
                           Len(history.order) >= i + Cardinality(Newer(s)) * Full + LiveSize
    BY <1>1, <1>3, <1>4, <1>6 DEF ArchivesOrdered
  <2> QED BY <1>0, <1>1, <1>7 DEF ArchivesOrdered
<1>11. DoomedOld'
  <2> SUFFICES ASSUME NEW q \in Process, At(q, "prune"), NEW s \in append[q].doomed
               PROVE  /\ s < clock'
                      /\ \A p \in Process : At(p, "rename")' => s < append'[p].stamp
                      /\ \A i \in DOMAIN history.order : history.order[i] \in Content(archive[s]) => Old(i)
    BY <1>1, <1>4 DEF DoomedOld, Old
  <2>1. /\ s < clock /\ s \in Nat
        /\ \A p \in Process : At(p, "rename") => s < append[p].stamp
        /\ \A i \in DOMAIN history.order : history.order[i] \in Content(archive[s]) => Old(i)
    BY <1>0, <1>1 DEF DoomedOld
  <2> QED BY <1>1, <2>1
<1>12. RecentNamed'
  <2> SUFFICES ASSUME NEW i \in DOMAIN history.order, ~Old(i)
               PROVE  \/ history.order[i] \in Content(live)'
                      \/ \E s \in Archives : history.order[i] \in Content(archive[s])'
    BY <1>3 DEF RecentNamed, Old
  <2>1. \/ history.order[i] \in Content(live)
        \/ \E s \in Archives : history.order[i] \in Content(archive[s])
    BY <1>0 DEF RecentNamed
  <2> QED BY <1>1, <1>4, <1>5, <2>1
<1> QED BY <1>8, <1>9, <1>10, <1>11, <1>12

\* More full files are more events.
LEMMA ProductGrows ==
  ASSUME NEW a \in Nat, NEW b \in Nat, NEW c \in Nat, a <= b
  PROVE  a * c <= b * c
OBVIOUS

LEMMA ProductNext ==
  ASSUME NEW a \in Nat, NEW b \in Nat
  PROVE  (a + 1) * b = a * b + b
OBVIOUS

\* The full journal becomes the newest archive.
LEMMA RenameWindow ==
  ASSUME LineInv, Window, NEW p \in Process, Appends(p), Rename(p)
  PROVE  Window'
<1> SUFFICES ASSUME Clean', KeepArchives > 0
             PROVE  (RenamesFull /\ WritesLive /\ ArchivesOrdered /\ DoomedOld /\ RecentNamed)'
  BY DEF Window
<1>0. PICK stamp \in Second : stamp = append[p].stamp
  BY WindowShapes DEF LineInv
<1>1. /\ At(p, "rename") /\ live # NoFile /\ archive' = [archive EXCEPT ![stamp] = live]
      /\ live' = NoFile /\ files' = files /\ clock' = clock /\ append'[p].pc = "list"
      /\ \A q \in Process : q # p => append'[q] = append[q]
  BY <1>0, Shapes DEF LineInv, Rename, Goto, AppendState
<1>2. /\ Clean /\ archive[stamp] = NoFile /\ history'.order = history.order
      /\ \A q \in Process \ {p} : append[q].pc \notin {"stamp", "rename", "text", "newline"}
  <2>1. Renames(p)
    BY <1>1 DEF Renames
  <2>2. /\ history.flags \subseteq history'.flags
        /\ {"crossed", "collided"} \cap history'.flags = {}
    BY AppendsFrame DEF Clean
  <2> QED BY <1>0, <1>1, <2>1, <2>2, AppendsFrame DEF Clean, At
<1>3. RenamesFull /\ WritesLive /\ ArchivesOrdered /\ DoomedOld /\ RecentNamed
  BY <1>2 DEF Window
<1>4. /\ clock \in Nat /\ Second \subseteq Nat /\ Archives \subseteq Second /\ stamp \in Second
      /\ stamp <= clock /\ archive \in [Second -> 0..Len(files)]
      /\ Oversized(files[live]) /\ \A s \in Archives : s < stamp
      /\ \A q \in Process : append[q].doomed \subseteq Second
  <2>1. /\ clock \in Nat /\ Second \subseteq Nat /\ Archives \subseteq Second /\ stamp \in Second
        /\ archive \in [Second -> 0..Len(files)]
        /\ \A q \in Process : append[q].doomed \subseteq Second
    BY Shapes, WindowShapes DEF LineInv
  <2>2. /\ stamp <= clock /\ Oversized(files[live]) /\ \A s \in Archives : s <= stamp
    BY <1>0, <1>1, <1>3 DEF RenamesFull, At
  <2>3. stamp \notin Archives
    BY <1>2 DEF Archives
  <2>4. \A s \in Archives : s < stamp
    BY <2>1, <2>2, <2>3
  <2> QED BY <2>1, <2>2, <2>4
<1>5. /\ Archives' = Archives \cup {stamp} /\ archive'[stamp] = live
      /\ \A s \in Archives : archive'[s] = archive[s]
  BY <1>1, <1>2, <1>4 DEF Archives
<1>6. /\ \A s \in Archives : Newer(s)' = Newer(s) \cup {stamp} /\ stamp \notin Newer(s)
      /\ Newer(stamp)' = {}
  <2>1. \A s : Newer(s)' = {t \in Archives' : t > s}
    BY DEF Newer
  <2>2. Newer(stamp)' = {}
    <3>1. \A t \in Archives' : ~(t > stamp)
      BY <1>4, <1>5
    <3> QED BY <2>1, <3>1
  <2>3. ASSUME NEW s \in Archives PROVE Newer(s)' = Newer(s) \cup {stamp} /\ stamp \notin Newer(s)
    <3>1. \A t \in Archives' : t > s <=> (t \in Newer(s) \/ t = stamp)
      BY <1>4, <1>5 DEF Newer
    <3>2. Newer(s) \subseteq Archives'
      BY <1>5 DEF Newer
    <3>3. stamp \notin Newer(s)
      BY <1>4 DEF Newer
    <3> QED BY <1>5, <2>1, <3>1, <3>2, <3>3
  <2> QED BY <2>2, <2>3
<1>7. \A j : Content(j)' = Content(j)
  BY <1>1 DEF Content, Parsed
<1>8. ASSUME NEW s \in Archives PROVE Content(archive[s])' = Content(archive[s])
  <2>1. archive'[s] = archive[s]
    BY <1>5
  <2> QED BY <1>1, <2>1 DEF Content, Parsed
<1>9. Content(archive[stamp])' = Content(live)
  <2>1. archive'[stamp] = live
    BY <1>5
  <2> QED BY <1>1, <2>1 DEF Content, Parsed
<1>10. RenamesFull'
  BY <1>1, <1>2 DEF RenamesFull, At
<1>11. WritesLive'
  BY <1>1, <1>2 DEF WritesLive
<1>12. ArchivesOrdered'
  <2>1. ASSUME NEW s \in Archives, NEW i \in DOMAIN history.order,
               history.order[i] \in Content(archive[s])
        PROVE  Len(history.order) >= i + Cardinality(Newer(s)') * Full + LiveSize'
    <3>1. Len(history.order) >= i + Cardinality(Newer(s)) * Full + LiveSize
      BY <1>3, <2>1 DEF ArchivesOrdered
    <3>2. Cardinality(Newer(s)') = Cardinality(Newer(s)) + 1
      BY <1>6, WindowShapes, FS_AddElement DEF LineInv
    <3>3. LiveSize >= Full /\ LiveSize' = 0
      <4>1. files[live].size \in Nat
        BY <1>1, Shapes DEF LineInv, FileOf, NoFile
      <4> QED BY <1>1, <1>4, <4>1, JournalAssumption DEF LiveSize, Oversized, Full
    <3>4. Cardinality(Newer(s)') * Full = Cardinality(Newer(s)) * Full + Full
      BY <3>2, ProductNext, WindowShapes DEF LineInv
    <3>5. /\ i \in Nat /\ Full \in Nat /\ LiveSize \in Nat /\ Len(history.order) \in Nat
          /\ Cardinality(Newer(s)) * Full \in Nat
      BY WindowShapes DEF LineInv
    <3> QED BY <3>1, <3>3, <3>4, <3>5
  <2>2. ASSUME NEW i \in DOMAIN history.order
        PROVE  Len(history.order) >= i + Cardinality(Newer(stamp)') * Full + LiveSize'
    <3>1. Cardinality(Newer(stamp)') = 0
      BY <1>6, FS_EmptySet
    <3>2. LiveSize' = 0 /\ i \in Nat /\ i <= Len(history.order) /\ Full \in Nat /\ Len(history.order) \in Nat
      BY <1>1, WindowShapes DEF LineInv, LiveSize
    <3> QED BY <3>1, <3>2
  <2>3. \A s \in Archives' : s <= clock' /\ archive'[s] # live'
    BY <1>1, <1>3, <1>4, <1>5 DEF ArchivesOrdered, Archives
  <2>4. ASSUME NEW s \in Archives', NEW i \in DOMAIN history'.order,
               history'.order[i] \in Content(archive[s])'
        PROVE  Len(history'.order) >= i + Cardinality(Newer(s)') * Full + LiveSize'
    <3>1. CASE s = stamp
      BY <1>2, <2>2, <2>4, <3>1
    <3>2. CASE s \in Archives
      BY <1>2, <1>8, <2>1, <2>4, <3>2
    <3> QED BY <1>5, <3>1, <3>2
  <2> QED BY <2>3, <2>4 DEF ArchivesOrdered, Newer
<1>13. DoomedOld'
  <2> SUFFICES ASSUME NEW q \in Process, At(q, "prune")', NEW s \in append'[q].doomed
               PROVE  /\ s < clock'
                      /\ \A r \in Process : At(r, "rename")' => s < append'[r].stamp
                      /\ \A i \in DOMAIN history'.order : history'.order[i] \in Content(archive[s])' => Old(i)'
    BY DEF DoomedOld
  <2>1. q # p /\ At(q, "prune") /\ s \in append[q].doomed /\ s \in Second
    BY <1>1, <1>4 DEF At
  <2>2. s < clock /\ s < stamp /\ \A i \in DOMAIN history.order : history.order[i] \in Content(archive[s]) => Old(i)
    BY <1>0, <1>1, <1>3, <2>1 DEF DoomedOld
  <2>3. s # stamp
    BY <1>4, <2>2
  <2>4. archive'[s] = archive[s]
    BY <1>1, <1>4, <2>1, <2>3
  <2>5. Content(archive[s])' = Content(archive[s])
    BY <1>1, <2>4 DEF Content, Parsed
  <2>6. \A r \in Process : ~At(r, "rename")'
    BY <1>1, <1>2 DEF At
  <2> QED BY <1>1, <1>2, <2>2, <2>5, <2>6 DEF Old
<1>14. RecentNamed'
  <2> SUFFICES ASSUME NEW i \in DOMAIN history.order
               PROVE  \/ Old(i)
                      \/ \E s \in Archives' : history.order[i] \in Content(archive[s])'
    BY <1>2 DEF RecentNamed, Old
  <2>1. CASE history.order[i] \in Content(live)
    BY <1>5, <1>9, <2>1
  <2>2. CASE \E s \in Archives : history.order[i] \in Content(archive[s])
    BY <1>5, <1>8, <2>2
  <2> QED BY <1>3, <2>1, <2>2 DEF RecentNamed
<1> QED BY <1>10, <1>11, <1>12, <1>13, <1>14

\* prune_archives lists what has enough newer archives: it is old.
LEMMA ListWindow ==
  ASSUME LineInv, Window, NEW p \in Process, Appends(p), ListArchives(p)
  PROVE  Window'
<1> SUFFICES ASSUME Clean', KeepArchives > 0
             PROVE  (RenamesFull /\ WritesLive /\ ArchivesOrdered /\ DoomedOld /\ RecentNamed)'
  BY DEF Window
<1>1. /\ append[p].pc = "list" /\ append'[p].pc \in {"open", "prune"} /\ append'[p].doomed = Surplus
      /\ \A q \in Process : q # p => append'[q] = append[q]
      /\ UNCHANGED <<files, live, archive, clock>>
  BY Shapes DEF LineInv, ListArchives, At, AppendState
<1>2. Clean /\ history'.order = history.order
  BY <1>1, AppendsFrame DEF Clean, At
<1>3. RenamesFull /\ WritesLive /\ ArchivesOrdered /\ DoomedOld /\ RecentNamed
  BY <1>2 DEF Window
<1>4. Archives' = Archives /\ LiveSize' = LiveSize /\ \A s : Newer(s)' = Newer(s)
  BY <1>1 DEF Archives, LiveSize, Newer
<1>5. \A s : Content(archive[s])' = Content(archive[s])
  BY <1>1 DEF Content, Parsed
<1>6. Content(live)' = Content(live)
  BY <1>1 DEF Content, Parsed
<1>7. RenamesFull'
  BY <1>1, <1>3, <1>4 DEF RenamesFull, At
<1>8. WritesLive'
  BY <1>1, <1>3 DEF WritesLive
<1>9. ArchivesOrdered'
  BY <1>1, <1>2, <1>3, <1>4, <1>5 DEF ArchivesOrdered
<1>10. DoomedOld'
  <2>1. ASSUME NEW s \in Surplus
        PROVE  /\ s < clock
               /\ \A r \in Process : At(r, "rename") => s < append[r].stamp
               /\ \A i \in DOMAIN history.order : history.order[i] \in Content(archive[s]) => Old(i)
    <3>1. /\ s \in Archives /\ Cardinality(Newer(s)) >= KeepArchives
          /\ Cardinality(Newer(s)) \in Nat /\ IsFiniteSet(Newer(s))
      BY WindowShapes DEF LineInv, Surplus
    <3>2. /\ clock \in Nat /\ Second \subseteq Nat /\ Archives \subseteq Second /\ KeepArchives \in Nat
          /\ \A r \in Process : append[r].stamp \in Second
      BY WindowShapes DEF LineInv
    <3>3. PICK t \in Archives : t > s
      <4>1. Newer(s) # {}
        BY <3>1, <3>2, FS_EmptySet
      <4> QED BY <4>1 DEF Newer
    <3>4. t <= clock /\ \A r \in Process : At(r, "rename") => t <= append[r].stamp
      BY <1>3 DEF ArchivesOrdered, RenamesFull
    <3>5. s < clock /\ \A r \in Process : At(r, "rename") => s < append[r].stamp
      <4>1. s \in Nat /\ t \in Nat /\ s < t
        BY <3>1, <3>2, <3>3
      <4>2. \A r \in Process : append[r].stamp \in Nat
        BY <3>2
      <4> QED BY <3>2, <3>4, <4>1, <4>2
    <3>6. ASSUME NEW i \in DOMAIN history.order, history.order[i] \in Content(archive[s])
          PROVE  Old(i)
      <4>1. Len(history.order) >= i + Cardinality(Newer(s)) * Full + LiveSize
        BY <1>3, <3>1, <3>6 DEF ArchivesOrdered
      <4>2. /\ i \in Nat /\ Full \in Nat /\ LiveSize \in Nat /\ Len(history.order) \in Nat
            /\ Cardinality(Newer(s)) * Full \in Nat /\ KeepArchives * Full \in Nat
        BY WindowShapes DEF LineInv
      <4>3. KeepArchives * Full <= Cardinality(Newer(s)) * Full
        BY <3>1, <3>2, <4>2, ProductGrows
      <4> QED BY <4>1, <4>2, <4>3 DEF Old
    <3> QED BY <3>5, <3>6
  <2>2. \A r \in Process : At(r, "rename")' => At(r, "rename") /\ append'[r].stamp = append[r].stamp
    BY <1>1 DEF At
  <2>3. ASSUME NEW q \in Process, At(q, "prune")', NEW s \in append'[q].doomed
        PROVE  /\ s < clock
               /\ \A r \in Process : At(r, "rename") => s < append[r].stamp
               /\ \A i \in DOMAIN history.order : history.order[i] \in Content(archive[s]) => Old(i)
    <3>1. CASE q = p
      BY <1>1, <2>1, <2>3, <3>1
    <3>2. CASE q # p
      BY <1>1, <1>3, <2>3, <3>2 DEF DoomedOld, At
    <3> QED BY <3>1, <3>2
  <2> QED BY <1>1, <1>2, <1>5, <2>2, <2>3 DEF DoomedOld, Old
<1>11. RecentNamed'
  BY <1>2, <1>3, <1>4, <1>5, <1>6 DEF RecentNamed, Old
<1> QED BY <1>7, <1>8, <1>9, <1>10, <1>11

\* Its removal takes away what is old, and leaves fewer newer archives to count.
LEMMA RemoveWindow ==
  ASSUME LineInv, Window, NEW p \in Process, Appends(p), RemoveOldest(p)
  PROVE  Window'
<1> SUFFICES ASSUME Clean', KeepArchives > 0
             PROVE  (RenamesFull /\ WritesLive /\ ArchivesOrdered /\ DoomedOld /\ RecentNamed)'
  BY DEF Window
<1>1. PICK d \in append[p].doomed :
        /\ archive' = [archive EXCEPT ![d] = NoFile]
        /\ append' = [append EXCEPT ![p].doomed = @ \ {d},
                                    ![p].pc = IF append[p].doomed = {d} THEN "open" ELSE "prune"]
  BY DEF RemoveOldest
<1>2. At(p, "prune") /\ UNCHANGED <<files, live, clock>>
  BY DEF RemoveOldest
<1>3. /\ append'[p].pc \in {"open", "prune"} /\ append'[p].doomed \subseteq append[p].doomed
      /\ \A q \in Process : q # p => append'[q] = append[q]
  BY <1>1, Shapes DEF LineInv, AppendState
<1>4. Clean /\ history'.order = history.order
  BY <1>2, AppendsFrame DEF Clean, At
<1>5. RenamesFull /\ WritesLive /\ ArchivesOrdered /\ DoomedOld /\ RecentNamed
  BY <1>4 DEF Window
<1>6. /\ archive \in [Second -> 0..Len(files)] /\ Archives \subseteq Second /\ d \in Second
  BY Shapes, WindowShapes DEF LineInv
<1>7. /\ Archives' = Archives \ {d}
      /\ \A s \in Second : archive'[s] = IF s = d THEN NoFile ELSE archive[s]
  BY <1>1, <1>6 DEF Archives
<1>8. LiveSize' = LiveSize
  BY <1>2 DEF LiveSize
<1>9. ASSUME NEW s \in Archives'
      PROVE  s \in Archives /\ archive'[s] = archive[s] /\ Content(archive[s])' = Content(archive[s])
  <2>1. s \in Archives /\ archive'[s] = archive[s]
    BY <1>6, <1>7
  <2> QED BY <1>2, <2>1 DEF Content, Parsed
<1>10. ASSUME NEW s \in Second, NEW e \in Content(archive[s])'
       PROVE  e \in Content(archive[s])
  <2>1. archive'[s] # NoFile /\ e \in Parsed(files[archive'[s]])
    BY <1>2, <1>10 DEF Content, Parsed
  <2> QED BY <1>7, <2>1 DEF Content
<1>11. Content(live)' = Content(live)
  BY <1>2 DEF Content, Parsed
<1>12. RenamesFull'
  BY <1>2, <1>3, <1>5, <1>7 DEF RenamesFull, At
<1>13. WritesLive'
  BY <1>2, <1>3, <1>5 DEF WritesLive
<1>14. ArchivesOrdered'
  <2>1. ASSUME NEW s \in Archives', NEW i \in DOMAIN history.order,
               history.order[i] \in Content(archive[s])'
        PROVE  Len(history.order) >= i + Cardinality(Newer(s)') * Full + LiveSize
    <3>1. Len(history.order) >= i + Cardinality(Newer(s)) * Full + LiveSize
      BY <1>5, <1>9, <2>1 DEF ArchivesOrdered
    <3>2. Newer(s)' \in SUBSET Newer(s)
      BY <1>7 DEF Newer
    <3>3. /\ Cardinality(Newer(s)') <= Cardinality(Newer(s)) /\ Cardinality(Newer(s)') \in Nat
          /\ Cardinality(Newer(s)) \in Nat
      BY <3>2, WindowShapes, FS_Subset, FS_CardinalityType DEF LineInv
    <3>4. /\ i \in Nat /\ Full \in Nat /\ LiveSize \in Nat /\ Len(history.order) \in Nat
          /\ Cardinality(Newer(s)) * Full \in Nat
      BY WindowShapes DEF LineInv
    <3>5. /\ Cardinality(Newer(s)') * Full <= Cardinality(Newer(s)) * Full
          /\ Cardinality(Newer(s)') * Full \in Nat
      BY <3>3, <3>4, ProductGrows
    <3> QED BY <3>1, <3>4, <3>5
  <2>2. \A s \in Archives' : s <= clock /\ archive'[s] # live
    BY <1>5, <1>9 DEF ArchivesOrdered
  <2> QED BY <1>2, <1>4, <1>8, <2>1, <2>2 DEF ArchivesOrdered, Newer
<1>15. DoomedOld'
  <2> SUFFICES ASSUME NEW q \in Process, At(q, "prune")', NEW s \in append'[q].doomed
               PROVE  /\ s < clock'
                      /\ \A r \in Process : At(r, "rename")' => s < append'[r].stamp
                      /\ \A i \in DOMAIN history'.order : history'.order[i] \in Content(archive[s])' => Old(i)'
    BY DEF DoomedOld
  <2>1. At(q, "prune") /\ s \in append[q].doomed
    BY <1>2, <1>3 DEF At
  <2>2. s \in Second
    BY <2>1, WindowShapes DEF LineInv
  <2>3. \A r \in Process : At(r, "rename")' => At(r, "rename") /\ append'[r].stamp = append[r].stamp
    BY <1>2, <1>3 DEF At
  <2> QED BY <1>2, <1>4, <1>5, <1>10, <2>1, <2>2, <2>3 DEF DoomedOld, Old
<1>16. RecentNamed'
  <2> SUFFICES ASSUME NEW i \in DOMAIN history.order, ~Old(i)
               PROVE  \/ history.order[i] \in Content(live)
                      \/ \E s \in Archives' : history.order[i] \in Content(archive[s])'
    BY <1>4, <1>11 DEF RecentNamed, Old
  <2>1. ASSUME NEW s \in Archives, history.order[i] \in Content(archive[s])
        PROVE  s \in Archives'
    <3>1. s # d
      BY <1>2, <1>5, <2>1 DEF DoomedOld
    <3> QED BY <1>7, <3>1
  <2> QED BY <1>5, <1>9, <2>1 DEF RecentNamed
<1> QED BY <1>12, <1>13, <1>14, <1>15, <1>16

\* A text goes into the live journal, onto a line of its own, and ages what is archived.
LEMMA TextWindow ==
  ASSUME LineInv, Fresh, Window, NEW p \in Process, Appends(p), WriteText(p)
  PROVE  Window'
<1> SUFFICES ASSUME Clean', KeepArchives > 0
             PROVE  (RenamesFull /\ WritesLive /\ ArchivesOrdered /\ DoomedOld /\ RecentNamed)'
  BY DEF Window
<1>0. PICK e \in Event : e = NextEvent(p) /\ \A i \in DOMAIN files : e \notin WrittenIn(i)
  BY FreshText
<1>1. /\ append[p].pc = "text" /\ append'[p].pc = "newline" /\ append'[p].fd = append[p].fd
      /\ \A q \in Process : q # p => append'[q] = append[q]
      /\ UNCHANGED <<live, archive, clock>>
      /\ files' = [files EXCEPT ![append[p].fd] = WithText(files[append[p].fd], e)]
  BY <1>0, Shapes DEF LineInv, WriteText, At, AppendState
<1>2. Clean /\ history'.order = Append(history.order, e)
  BY <1>0, <1>1, AppendsFrame DEF Clean, At
<1>3. RenamesFull /\ WritesLive /\ ArchivesOrdered /\ DoomedOld /\ RecentNamed
  BY <1>2 DEF Window
<1>4. /\ live \in DOMAIN files /\ live # NoFile /\ append[p].fd = live
      /\ files[live] \in FileOf(Event) /\ Len(files[live].lines) >= 1
  <2>1. live # NoFile /\ append[p].fd = live
    BY <1>1, <1>3 DEF WritesLive
  <2>2. live \in DOMAIN files
    BY <2>1, Shapes DEF LineInv, NoFile
  <2> QED BY <2>1, <2>2, Shapes DEF LineInv, LinesOpen
<1>5. files'[live] = WithText(files[live], e) /\ \A j \in DOMAIN files : j # live => files'[j] = files[j]
  BY <1>1, <1>4
<1>6. LastLine(files[live]) \in Seq(Event) /\ DOMAIN LastLine(files[live]) = {}
  <2>1. "torn" \notin history'.flags
    BY DEF Clean
  <2>2. \A q \in Process : ~HasOpen(q, live)
    BY <1>1, <1>4, <2>1, AppendsFrame DEF At, HasOpen
  <2>3. DOMAIN LastLine(files[live]) = {}
    BY <1>4, <2>2 DEF LineInv, LinesOpen
  <2>4. LastLine(files[live]) \in Seq(Event)
    <3> DEFINE new == WithText(files[live], e)
    <3> QED BY <1>4, TextShape
  <2> QED BY <2>3, <2>4
<1>7. \A f \in Content(live) : f \in Content(live)'
  <2>1. ASSUME NEW f \in Parsed(files[live]) PROVE f \in Parsed(files'[live])
    BY <1>4, <1>5, <1>6, <2>1, TextKeepsParsed
  <2> QED BY <1>1, <1>4, <2>1 DEF Content, Parsed
<1>8. e \in Content(live)'
  <2> DEFINE old == files[live]
             new == files'[live]
  <2>1. /\ Len(new.lines) = Len(old.lines) /\ DOMAIN new.lines = DOMAIN old.lines
        /\ LastLine(new) = Append(LastLine(old), e)
    BY <1>4, <1>5, TextShape
  <2>2. Len(old.lines) \in DOMAIN old.lines
    <3>1. old.lines \in Seq(Seq(Event)) /\ Len(old.lines) \in Nat
      BY <1>4 DEF FileOf
    <3> QED BY <1>4, <3>1
  <2>3. LastLine(new) = <<e>>
    <3>1. LastLine(old) = <<>>
      BY <1>6
    <3> QED BY <2>1, <3>1
  <2>4. new.lines[Len(old.lines)] = <<e>>
    BY <2>1, <2>3 DEF LastLine
  <2>5. e \in Parsed(new)
    BY <2>1, <2>2, <2>4 DEF Parsed
  <2> QED BY <1>1, <1>4, <2>5 DEF Content, Parsed
<1>9. ASSUME NEW s \in Second, archive[s] # live \/ archive[s] = NoFile
      PROVE  /\ Content(archive[s])' = Content(archive[s])
             /\ e \notin Content(archive[s])
  <2>1. CASE archive[s] = NoFile
    BY <1>1, <2>1 DEF Content
  <2>2. CASE archive[s] # NoFile
    <3>1. archive[s] \in DOMAIN files /\ archive[s] # live
      BY <1>9, <2>2, Shapes DEF LineInv, NoFile
    <3>2. files'[archive'[s]] = files[archive[s]]
      BY <1>1, <1>5, <3>1
    <3>3. Content(archive[s])' = Content(archive[s])
      BY <1>1, <3>2 DEF Content, Parsed
    <3>4. e \notin Parsed(files[archive[s]])
      <4>1. Parsed(files[archive[s]]) \subseteq WrittenIn(archive[s])
        BY DEF Parsed, WrittenIn
      <4> QED BY <1>0, <3>1, <4>1
    <3> QED BY <3>3, <3>4 DEF Content
  <2> QED BY <2>1, <2>2
<1>10. /\ Archives' = Archives /\ Archives \subseteq Second /\ \A s : Newer(s)' = Newer(s)
       /\ \A s \in Archives : archive[s] # live
  BY <1>1, <1>3 DEF Archives, Newer, ArchivesOrdered
<1>11. LiveSize' = LiveSize + 1 /\ files[live].size \in Nat /\ files'[live].size = files[live].size + 1
  <2>1. files[live].size \in Nat
    BY <1>4 DEF FileOf
  <2>2. files'[live].size = files[live].size + 1
    BY <1>5 DEF WithText
  <2> QED BY <1>1, <1>4, <2>1, <2>2 DEF LiveSize
<1>12. /\ Len(history'.order) = Len(history.order) + 1 /\ Len(history.order) \in Nat
       /\ DOMAIN history'.order = DOMAIN history.order \cup {Len(history.order) + 1}
       /\ DOMAIN history.order = 1..Len(history.order)
       /\ history'.order[Len(history.order) + 1] = e
       /\ \A i \in DOMAIN history.order : history'.order[i] = history.order[i]
  <2>1. history.order \in Seq(Event) /\ Len(history.order) \in Nat /\ DOMAIN history.order = 1..Len(history.order)
    BY WindowShapes DEF LineInv
  <2> QED BY <1>2, <2>1
<1>13. \A i \in DOMAIN history.order : Old(i) => Old(i)'
  BY <1>12, WindowShapes DEF LineInv, Old
<1>14. RenamesFull'
  <2>1. Oversized(files[live]) => Oversized(files'[live])
    BY <1>11, JournalAssumption DEF Oversized
  <2> QED BY <1>1, <1>3, <1>10, <2>1 DEF RenamesFull, At
<1>15. WritesLive'
  BY <1>1, <1>3, <1>4 DEF WritesLive
<1>16. ArchivesOrdered'
  <2>1. ASSUME NEW s \in Archives, NEW i \in DOMAIN history'.order,
               history'.order[i] \in Content(archive[s])'
        PROVE  Len(history'.order) >= i + Cardinality(Newer(s)) * Full + LiveSize'
    <3>1. history'.order[i] \in Content(archive[s]) /\ history'.order[i] # e
      BY <1>9, <1>10, <2>1
    <3>2. i \in DOMAIN history.order /\ history.order[i] \in Content(archive[s])
      BY <1>12, <3>1
    <3>3. Len(history.order) >= i + Cardinality(Newer(s)) * Full + LiveSize
      BY <1>3, <3>2 DEF ArchivesOrdered
    <3>4. i \in Nat /\ LiveSize \in Nat /\ Cardinality(Newer(s)) * Full \in Nat
      BY <3>2, WindowShapes DEF LineInv
    <3> QED BY <1>11, <1>12, <3>3, <3>4
  <2> QED BY <1>1, <1>3, <1>10, <2>1 DEF ArchivesOrdered
<1>17. DoomedOld'
  <2> SUFFICES ASSUME NEW q \in Process, At(q, "prune")', NEW s \in append'[q].doomed
               PROVE  /\ s < clock'
                      /\ \A r \in Process : At(r, "rename")' => s < append'[r].stamp
                      /\ \A i \in DOMAIN history'.order : history'.order[i] \in Content(archive[s])' => Old(i)'
    BY DEF DoomedOld
  <2>1. At(q, "prune") /\ s \in append[q].doomed /\ append'[q] = append[q]
    BY <1>1 DEF At
  <2>2. s \in Second
    BY <2>1, WindowShapes DEF LineInv
  <2>3. \A r \in Process : At(r, "rename")' => At(r, "rename") /\ append'[r].stamp = append[r].stamp
    BY <1>1 DEF At
  <2>4. s < clock' /\ \A r \in Process : At(r, "rename")' => s < append'[r].stamp
    BY <1>1, <1>3, <2>1, <2>3 DEF DoomedOld
  <2>5. ASSUME NEW i \in DOMAIN history'.order, history'.order[i] \in Content(archive[s])'
        PROVE  Old(i)'
    <3>1. archive[s] # live \/ archive[s] = NoFile
      BY <1>10, <2>2 DEF Archives
    <3>2. history'.order[i] \in Content(archive[s]) /\ history'.order[i] # e
      BY <1>9, <2>2, <2>5, <3>1
    <3>3. i \in DOMAIN history.order /\ history.order[i] \in Content(archive[s])
      BY <1>12, <3>2
    <3> QED BY <1>3, <1>13, <2>1, <3>3 DEF DoomedOld
  <2> QED BY <2>4, <2>5
<1>18. RecentNamed'
  <2> SUFFICES ASSUME NEW i \in DOMAIN history'.order
               PROVE  \/ Old(i)'
                      \/ history'.order[i] \in Content(live)'
                      \/ \E s \in Archives' : history'.order[i] \in Content(archive[s])'
    BY DEF RecentNamed
  <2>1. CASE i \in DOMAIN history.order
    BY <1>3, <1>7, <1>9, <1>10, <1>12, <1>13, <2>1 DEF RecentNamed
  <2>2. CASE i = Len(history.order) + 1
    BY <1>8, <1>12, <2>2
  <2> QED BY <1>12, <2>1, <2>2
<1> QED BY <1>14, <1>15, <1>16, <1>17, <1>18

\* A newline takes nothing away.
LEMMA NewlineWindow ==
  ASSUME LineInv, Window, NEW p \in Process, Appends(p), WriteNewline(p)
  PROVE  Window'
<1> SUFFICES ASSUME Clean', KeepArchives > 0
             PROVE  (RenamesFull /\ WritesLive /\ ArchivesOrdered /\ DoomedOld /\ RecentNamed)'
  BY DEF Window
<1>1. /\ append[p].pc = "newline" /\ append'[p].pc \in {"written", "text"}
      /\ append'[p].fd = append[p].fd
      /\ \A q \in Process : q # p => append'[q] = append[q]
      /\ UNCHANGED <<live, archive, clock>>
      /\ files' = [files EXCEPT ![append[p].fd] = WithNewline(files[append[p].fd])]
  BY Shapes DEF LineInv, WriteNewline, Goto, At, AppendState
<1>2. Clean /\ history'.order = history.order
  BY <1>1, AppendsFrame DEF Clean, At
<1>3. RenamesFull /\ WritesLive /\ ArchivesOrdered /\ DoomedOld /\ RecentNamed
  BY <1>2 DEF Window
<1>4. live \in DOMAIN files /\ live # NoFile /\ append[p].fd = live /\ files[live] \in FileOf(Event)
  <2>1. live # NoFile /\ append[p].fd = live
    BY <1>1, <1>3 DEF WritesLive
  <2>2. live \in DOMAIN files
    BY <2>1, Shapes DEF LineInv, NoFile
  <2> QED BY <2>1, <2>2, Shapes DEF LineInv
<1>5. files'[live] = WithNewline(files[live]) /\ \A j \in DOMAIN files : j # live => files'[j] = files[j]
  BY <1>1, <1>4
<1>6. \A f \in Content(live) : f \in Content(live)'
  <2>1. ASSUME NEW f \in Parsed(files[live]) PROVE f \in Parsed(files'[live])
    BY <1>4, <1>5, <2>1, NewlineKeepsParsed
  <2> QED BY <1>1, <1>4, <2>1 DEF Content, Parsed
<1>7. ASSUME NEW s \in Second, archive[s] # live \/ archive[s] = NoFile
      PROVE  Content(archive[s])' = Content(archive[s])
  <2>1. CASE archive[s] = NoFile
    BY <1>1, <2>1 DEF Content
  <2>2. CASE archive[s] # NoFile
    <3>1. archive[s] \in DOMAIN files /\ archive[s] # live
      BY <1>7, <2>2, Shapes DEF LineInv, NoFile
    <3>2. files'[archive'[s]] = files[archive[s]]
      BY <1>1, <1>5, <3>1
    <3> QED BY <1>1, <3>2 DEF Content, Parsed
  <2> QED BY <2>1, <2>2
<1>8. /\ Archives' = Archives /\ Archives \subseteq Second /\ \A s : Newer(s)' = Newer(s)
      /\ \A s \in Archives : archive[s] # live
  BY <1>1, <1>3 DEF Archives, Newer, ArchivesOrdered
<1>9. files'[live].size = files[live].size /\ LiveSize' = LiveSize
  <2>1. files'[live].size = files[live].size
    BY <1>4, <1>5 DEF WithNewline, FileOf
  <2> QED BY <1>1, <2>1 DEF LiveSize
<1>10. RenamesFull'
  BY <1>1, <1>3, <1>8, <1>9 DEF RenamesFull, At, Oversized
<1>11. WritesLive'
  BY <1>1, <1>3, <1>4 DEF WritesLive
<1>12. ArchivesOrdered'
  BY <1>1, <1>2, <1>3, <1>7, <1>8, <1>9 DEF ArchivesOrdered
<1>13. DoomedOld'
  <2> SUFFICES ASSUME NEW q \in Process, At(q, "prune")', NEW s \in append'[q].doomed
               PROVE  /\ s < clock'
                      /\ \A r \in Process : At(r, "rename")' => s < append'[r].stamp
                      /\ \A i \in DOMAIN history'.order : history'.order[i] \in Content(archive[s])' => Old(i)'
    BY DEF DoomedOld
  <2>1. At(q, "prune") /\ s \in append[q].doomed /\ append'[q] = append[q]
    BY <1>1 DEF At
  <2>2. s \in Second
    BY <2>1, WindowShapes DEF LineInv
  <2>3. \A r \in Process : At(r, "rename")' => At(r, "rename") /\ append'[r].stamp = append[r].stamp
    BY <1>1 DEF At
  <2>4. archive[s] # live \/ archive[s] = NoFile
    BY <1>8, <2>2 DEF Archives
  <2>5. Content(archive[s])' = Content(archive[s])
    BY <1>7, <2>2, <2>4
  <2> QED BY <1>1, <1>2, <1>3, <2>1, <2>3, <2>5 DEF DoomedOld, Old
<1>14. RecentNamed'
  BY <1>2, <1>3, <1>6, <1>7, <1>8 DEF RecentNamed, Old
<1> QED BY <1>10, <1>11, <1>12, <1>13, <1>14

\* A call looks at the size of the live journal.
LEMMA CallWindow ==
  ASSUME LineInv, Window, NEW p \in Process, NEW batch, Call(p, batch),
         Clean' => Clean, history'.order = history.order
  PROVE  Window'
<1>1. /\ UNCHANGED <<files, live, archive, clock>>
      /\ \A q \in Process : q # p => append'[q] = append[q]
      /\ append'[p].pc = IF live # NoFile /\ Oversized(files[live]) THEN "stamp" ELSE "open"
  BY CallEffect DEF LineInv
<1>2. /\ \A q \in Process : append'[q].pc \in {"stamp", "rename"} =>
           append[q].pc \in {"stamp", "rename"} \/ (live # NoFile /\ Oversized(files[live]))
      /\ \A q \in Process : At(q, "rename")' =>
           At(q, "rename") /\ append'[q].stamp = append[q].stamp
  BY <1>1 DEF At
<1>3. /\ \A q \in Process : append'[q].pc \in {"text", "newline"} =>
           append[q].pc \in {"text", "newline"} /\ append'[q].fd = append[q].fd
      /\ \A q \in Process : At(q, "prune")' =>
           At(q, "prune") /\ append'[q].doomed = append[q].doomed
  BY <1>1 DEF At
<1>4. clock' \in Nat /\ clock' >= clock
  BY <1>1, WindowShapes DEF LineInv
<1> QED BY <1>1, <1>2, <1>3, <1>4, WindowStays

LEMMA WindowStep ==
  ASSUME LineInv, Fresh, Window, [Next]_vars
  PROVE  Window'
<1>0. clock \in Nat
  BY WindowShapes DEF LineInv
<1>1. CASE \E p \in Process : BindWrites(p) \/ RecordRun(p)
  <2>1. PICK p \in Process : BindWrites(p) \/ RecordRun(p)
    BY <1>1
  <2>2. \E batch : Call(p, batch)
    BY <2>1 DEF BindWrites, RecordRun
  <2>3. history.flags \subseteq history'.flags /\ history'.order = history.order
    <3>1. CASE BindWrites(p)
      BY <3>1, Shapes DEF LineInv, BindWrites, HistoryState
    <3>2. CASE RecordRun(p)
      BY <3>2 DEF RecordRun
    <3> QED BY <2>1, <3>1, <3>2
  <2>4. Clean' => Clean
    BY <2>3 DEF Clean
  <2> QED BY <2>2, <2>3, <2>4, CallWindow
<1>2. CASE \E p \in Process : Finish(p) \/ Kill(p)
  <2>1. PICK p \in Process : Finish(p) \/ Kill(p)
    BY <1>2
  <2>2. /\ UNCHANGED <<files, live, archive, clock>>
        /\ \A q \in Process : q # p => append'[q] = append[q]
        /\ append'[p].pc \in {"idle", "cut", "dead"}
    BY <2>1, Shapes DEF LineInv, Finish, Return, IdleAppend, Kill, Die, AppendState
  <2>3. history'.flags = history.flags /\ history'.order = history.order
    <3>1. CASE Finish(p)
      BY <3>1, Shapes DEF LineInv, Finish, HistoryState
    <3>2. CASE Kill(p)
      BY <3>2 DEF Kill
    <3> QED BY <2>1, <3>1, <3>2
  <2>4. Clean' => Clean
    BY <2>3 DEF Clean
  <2>5. clock' \in Nat /\ clock' >= clock
    BY <1>0, <2>2
  <2> QED BY <2>2, <2>3, <2>4, <2>5, WindowStays DEF At
<1>3. CASE \E p \in Process : Appends(p)
  <2>1. PICK p \in Process : Appends(p)
    BY <1>3
  <2>2. AppendStep(p)
    BY <2>1, AppendsFrame
  <2>3. CASE Rename(p) \/ ListArchives(p) \/ RemoveOldest(p) \/ WriteText(p) \/ WriteNewline(p)
    BY <2>1, <2>3, RenameWindow, ListWindow, RemoveWindow, TextWindow, NewlineWindow
  <2>4. CASE NameArchive(p) \/ RenameFails(p) \/ Open(p)
    <3>1. append[p].pc \in {"stamp", "rename", "open"} /\ UNCHANGED <<archive, clock>>
      BY <2>4 DEF NameArchive, RenameFails, Open, At
    <3>2. (Clean' => Clean) /\ history'.order = history.order
      BY <2>1, <3>1, AppendsFrame DEF Clean, At
    <3>3. \/ files' = files /\ live' = live
          \/ files' = Append(files, EmptyFile) /\ live = NoFile /\ live' = Len(files) + 1
      BY <2>4 DEF NameArchive, RenameFails, Open
    <3>4. /\ \A q \in Process : q # p => append'[q] = append[q]
          /\ \/ append[p].pc = "stamp" /\ append'[p].pc = "rename" /\ append'[p].stamp = clock
             \/ append'[p].pc = "failed"
             \/ append'[p].pc = "text" /\ append'[p].fd = live' /\ live' # NoFile
      <4>1. CASE RenameFails(p)
        BY <4>1, Shapes DEF LineInv, RenameFails, Goto, AppendState
      <4>2. CASE Open(p) /\ live = NoFile
        BY <4>2, Shapes DEF LineInv, Open, AppendState, NoFile
      <4>3. CASE Open(p) /\ live # NoFile
        BY <4>3, Shapes DEF LineInv, Open, AppendState
      <4>4. CASE NameArchive(p)
        BY <4>4, Shapes DEF LineInv, NameArchive, At, AppendState
      <4> QED BY <2>4, <4>1, <4>2, <4>3, <4>4
    <3>5. clock' \in Nat /\ clock' >= clock
      BY <1>0, <3>1
    <3>6. /\ \A q \in Process : append'[q].pc \in {"stamp", "rename"} => append[q].pc \in {"stamp", "rename"}
          /\ \A q \in Process : At(q, "rename")' =>
               \/ At(q, "rename") /\ append'[q].stamp = append[q].stamp
               \/ append'[q].stamp = clock
          /\ \A q \in Process : At(q, "prune")' => At(q, "prune") /\ append'[q].doomed = append[q].doomed
          /\ \A q \in Process : append'[q].pc \in {"text", "newline"} =>
               \/ append[q].pc \in {"text", "newline"} /\ append'[q].fd = append[q].fd
               \/ live' # NoFile /\ append'[q].fd = live'
      BY <3>4 DEF At
    <3> QED BY <3>1, <3>2, <3>3, <3>5, <3>6, WindowStays
  <2> QED BY <2>2, <2>3, <2>4 DEF AppendStep
<1>4. CASE (\E p \in Process : BindFails(p) \/ \E claims \in Lists : Bind(p, claims))
           \/ EditByHand \/ UNCHANGED vars
  <2>1. UNCHANGED <<files, live, archive, clock, append>>
    BY <1>4 DEF BindFails, Bind, EditByHand, vars, journalVars
  <2>2. history.flags \subseteq history'.flags /\ history'.order = history.order
    <3>1. CASE EditByHand
      BY <3>1, Shapes DEF LineInv, EditByHand, HistoryState
    <3>2. CASE ~EditByHand
      BY <1>4, <3>2 DEF BindFails, Bind, vars
    <3> QED BY <3>1, <3>2
  <2>3. Clean' => Clean
    BY <2>2 DEF Clean
  <2>4. clock' \in Nat /\ clock' >= clock
    BY <1>0, <2>1
  <2> QED BY <2>1, <2>2, <2>3, <2>4, WindowStays DEF At
<1>5. CASE Events \/ Doctor \/ Time
  <2>1. /\ UNCHANGED <<archive, append>>
        /\ \/ files' = files /\ live' = live
           \/ files' = Append(files, EmptyFile) /\ live = NoFile /\ live' = Len(files) + 1
    BY <1>5 DEF Events, ListToRead, ReadArchive, ReadLive, Doctor, Touch, Time, Tick
  <2>2. clock' \in Nat /\ clock' >= clock
    <3>1. clock' = clock \/ clock' = clock + 1
      BY <1>5 DEF Events, ListToRead, ReadArchive, ReadLive, Doctor, Touch, Time, Tick
    <3> QED BY <1>0, <3>1
  <2>3. history'.order = history.order /\ history.flags \ {"passed"} \subseteq history'.flags
    <3>1. history' = [history EXCEPT !.flags = history.flags \ {"passed"}] \/ history' = history
      BY <1>5 DEF Events, Doctor, Time
    <3> QED BY <3>1, Shapes DEF LineInv, HistoryState
  <2>4. Clean' => Clean
    BY <2>3 DEF Clean
  <2> QED BY <2>1, <2>2, <2>3, <2>4, WindowStays DEF At
<1> QED BY <1>1, <1>2, <1>3, <1>4, <1>5 DEF Next, Command

LEMMA WindowHolds == Spec => []WindowInv
<1>1. Init => WindowInv
  <2> SUFFICES ASSUME Init PROVE Fresh /\ Window
    BY LinesInit DEF WindowInv
  <2>1. /\ files = <<>> /\ \A p \in Process : append[p].pc = "idle" /\ act[p].pc = "idle"
        /\ Archives = {} /\ history.order = <<>>
    BY DEF Init, BindingsInit, JournalInit, IdleAct, IdleAppend, NoHistory, Archives
  <2>2. Fresh
    BY <2>1 DEF Fresh, Doing, Writing
  <2>3. Window
    BY <2>1 DEF Window, RenamesFull, WritesLive, ArchivesOrdered, DoomedOld, RecentNamed, At
  <2> QED BY <2>2, <2>3
<1>2. WindowInv /\ [Next]_vars => WindowInv'
  BY LinesStep, FreshStep, WindowStep DEF WindowInv
<1> QED BY <1>1, <1>2, PTL DEF Spec

\* The events of the last KeepArchives full files can be read back through every
\* rotation and prune, unless writers rotated or wrote across each other, or two
\* rotations fell into one second.
THEOREM WindowReadable == Spec => []WindowKept
<1>1. WindowInv => WindowKept
  <2> SUFFICES ASSUME WindowInv, Clean, NEW i \in DOMAIN history.order, Recent(i)
               PROVE  history.order[i] \in Retained
    BY DEF WindowKept, Clean
  <2>1. ~Old(i)
    BY WindowShapes DEF WindowInv, LineInv, Recent, Old, Full
  <2>2. KeepArchives > 0
    BY <2>1, WindowShapes DEF WindowInv, LineInv, Old
  <2>3. CASE history.order[i] \in Content(live)
    BY <2>3 DEF Content, Retained, Named
  <2>4. CASE \E s \in Archives : history.order[i] \in Content(archive[s])
    <3>1. PICK s \in Archives : history.order[i] \in Content(archive[s])
      BY <2>4
    <3>2. archive[s] \in Named /\ history.order[i] \in Parsed(files[archive[s]])
      BY <3>1 DEF Named, Content
    <3> QED BY <3>2 DEF Retained
  <2> QED BY <2>1, <2>2, <2>3, <2>4 DEF WindowInv, Window, RecentNamed
<1> QED BY <1>1, WindowHolds, PTL
=============================================================================
