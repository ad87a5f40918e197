------------------------------ MODULE Journal ------------------------------
(***************************************************************************)
(* The event journal of crates/uni-cli/src/events.rs: .uni/events.jsonl,   *)
(* its rotation into archives and its reader.  Any process appends, no     *)
(* lock is taken, and each step below is one system call or a few that     *)
(* nothing can come between.                                               *)
(*                                                                         *)
(* An open file keeps its content when its name goes away, so the names    *)
(* (`live`, `archive`) point into the sequence of all files ever created.  *)
(* writeln! hands text and newline to the system in two calls: a line is   *)
(* the sequence of texts between two newlines, and only a line of exactly  *)
(* one text parses.                                                        *)
(***************************************************************************)
EXTENDS Acts, Sequences, FiniteSets

CONSTANTS
  MaxBytes,       \* JOURNAL_MAX_BYTES, in events
  KeepArchives,   \* KEEP_ARCHIVES
  MaxTime         \* bound: the clock stops there

ASSUME JournalAssumption == MaxBytes \in Nat /\ KeepArchives \in Nat /\ MaxTime \in Nat

VARIABLES
  files,     \* every file ever created
  live,      \* the file named events.jsonl, or NoFile
  archive,   \* [second -> the file named events.<second>.jsonl, or NoFile]
  clock,     \* the second
  append,    \* [process -> its call of append]
  view       \* the call of `uni events --all`

journalVars == <<files, live, archive, clock, append, view>>

NoFile == 0
Second == 0..MaxTime

File == [lines : Seq(Seq(Event)), size : Nat]
EmptyFile == [lines |-> <<<<>>>>, size |-> 0]

\* read_file: a line that does not parse is skipped without a word.
Parsed(file) == {e \in Event : \E i \in DOMAIN file.lines : file.lines[i] = <<e>>}

Archives == {s \in Second : archive[s] # NoFile}
Named == {archive[s] : s \in Archives} \cup ({live} \ {NoFile})

IdleAppend == [pc |-> "idle", batch |-> {}, fd |-> NoFile, stamp |-> 0, doomed |-> {}]

IdleView == [pc |-> "idle", lacking |-> {}, listed |-> {}]

JournalInit ==
  /\ files = <<>>
  /\ live = NoFile
  /\ archive = [s \in Second |-> NoFile]
  /\ clock = 0
  /\ append = [p \in Process |-> IdleAppend]
  /\ view = IdleView

-----------------------------------------------------------------------------
(***************************************************************************)
(* append                                                                  *)
(***************************************************************************)
At(p, pc) == append[p].pc = pc
Goto(p, pc) == append' = [append EXCEPT ![p].pc = pc]

Oversized(file) == file.size > MaxBytes

\* The call: rotate_if_needed looks at the size once,
Call(p, batch) ==
  /\ At(p, "idle")
  /\ append' = [append EXCEPT ![p] =
       [IdleAppend EXCEPT !.pc = IF live # NoFile /\ Oversized(files[live]) THEN "stamp" ELSE "open",
                          !.batch = batch]]
  /\ UNCHANGED <<files, live, archive, clock, view>>

\* and names the archive by the second in which it asks for the time.
NameArchive(p) ==
  /\ At(p, "stamp")
  /\ append' = [append EXCEPT ![p].pc = "rename", ![p].stamp = clock]
  /\ UNCHANGED <<files, live, archive, clock, view>>

\* The rename replaces an archive of the same second, and fails on a missing file.
Rename(p) ==
  /\ At(p, "rename")
  /\ live # NoFile
  /\ archive' = [archive EXCEPT ![append[p].stamp] = live]
  /\ live' = NoFile
  /\ Goto(p, "list")
  /\ UNCHANGED <<files, clock, view>>

RenameFails(p) ==
  /\ At(p, "rename")
  /\ live = NoFile
  /\ Goto(p, "failed")
  /\ UNCHANGED <<files, live, archive, clock, view>>

\* prune_archives: all but the newest KeepArchives by name.
Newer(s) == {t \in Archives : t > s}

\* Mutant of Surplus: the live journal is counted among the archives.
SurplusWithLive == {s \in Archives : Cardinality(Newer(s)) + 1 >= KeepArchives}

Surplus == {s \in Archives : Cardinality(Newer(s)) >= KeepArchives}

ListArchives(p) ==
  /\ At(p, "list")
  /\ append' = [append EXCEPT ![p].doomed = Surplus,
                              ![p].pc = IF Surplus = {} THEN "open" ELSE "prune"]
  /\ UNCHANGED <<files, live, archive, clock, view>>

\* A file somebody else removed first is passed over.
RemoveOldest(p) ==
  /\ At(p, "prune")
  /\ \E s \in append[p].doomed :
       /\ \A t \in append[p].doomed : s <= t
       /\ archive' = [archive EXCEPT ![s] = NoFile]
       /\ append' = [append EXCEPT ![p].doomed = @ \ {s},
                                   ![p].pc = IF append[p].doomed = {s} THEN "open" ELSE "prune"]
  /\ UNCHANGED <<files, live, clock, view>>

\* Mutant of Open: the file is opened without .create(true).
OpenUncreated(p) ==
  /\ At(p, "open")
  /\ live' = IF live = NoFile THEN Len(files) + 1 ELSE live
  /\ append' = [append EXCEPT ![p].pc = "text", ![p].fd = live']
  /\ UNCHANGED <<files, archive, clock, view>>

Open(p) ==
  /\ At(p, "open")
  /\ IF live = NoFile
     THEN /\ files' = Append(files, EmptyFile)
          /\ live' = Len(files) + 1
          /\ append' = [append EXCEPT ![p].pc = "text", ![p].fd = Len(files) + 1]
     ELSE /\ append' = [append EXCEPT ![p].pc = "text", ![p].fd = live]
          /\ UNCHANGED <<files, live>>
  /\ UNCHANGED <<archive, clock, view>>

\* The events of a batch are written in the order of their claims.
NextEvent(p) ==
  CHOOSE e \in append[p].batch : \A f \in append[p].batch : e.about <= f.about

WithText(file, e) ==
  [lines |-> [file.lines EXCEPT ![Len(file.lines)] = Append(@, e)], size |-> file.size + 1]

WriteText(p) ==
  /\ At(p, "text")
  /\ files' = [files EXCEPT ![append[p].fd] = WithText(@, NextEvent(p))]
  /\ append' = [append EXCEPT ![p].pc = "newline", ![p].batch = @ \ {NextEvent(p)}]
  /\ UNCHANGED <<live, archive, clock, view>>

\* Mutant of WithNewline: write! for writeln!.
WithoutNewline(file) == file

WithNewline(file) == [file EXCEPT !.lines = Append(@, <<>>)]

WriteNewline(p) ==
  /\ At(p, "newline")
  /\ files' = [files EXCEPT ![append[p].fd] = WithNewline(@)]
  /\ Goto(p, IF append[p].batch = {} THEN "written" ELSE "text")
  /\ UNCHANGED <<live, archive, clock, view>>

\* The caller takes the result.
Return(p) ==
  /\ append[p].pc \in {"written", "failed"}
  /\ append' = [append EXCEPT ![p] = IdleAppend]
  /\ UNCHANGED <<files, live, archive, clock, view>>

\* A kill in mid-line leaves the line open.  A system call that fails ends the
\* command at the same points, and is not told apart.
Die(p) ==
  /\ append' = [append EXCEPT ![p].pc = IF @ = "newline" THEN "cut" ELSE "dead"]
  /\ UNCHANGED <<files, live, archive, clock, view>>

AppendStep(p) ==
  \/ NameArchive(p) \/ Rename(p) \/ RenameFails(p) \/ ListArchives(p) \/ RemoveOldest(p)
  \/ Open(p) \/ WriteText(p) \/ WriteNewline(p)

-----------------------------------------------------------------------------
(***************************************************************************)
(* `uni events --all`: the archives are listed, then each one is opened,   *)
(* the oldest first, then the live journal is.  A name that has gone since *)
(* is passed over.  `lacking` is what the reader, which should see `owed`, *)
(* has not seen yet, `listed` what it still has to open.                   *)
(***************************************************************************)
Content(i) == IF i = NoFile THEN {} ELSE Parsed(files[i])

\* Mutant of ToRead: --all reads the live journal only.
LiveOnly == {}

ToRead == Archives

\* A reader to whom nothing is owed is of no interest.
ListToRead(owed) ==
  /\ view.pc = "idle"
  /\ owed # {}
  /\ view' = [pc |-> "reading", lacking |-> owed, listed |-> ToRead]
  /\ UNCHANGED <<files, live, archive, clock, append>>

ReadArchive ==
  /\ view.pc = "reading"
  /\ \E s \in view.listed :
       /\ \A t \in view.listed : s <= t
       /\ view' = [view EXCEPT !.lacking = @ \ Content(archive[s]), !.listed = @ \ {s}]
  /\ UNCHANGED <<files, live, archive, clock, append>>

ReadLive ==
  /\ view.pc = "reading"
  /\ view.listed = {}
  /\ view' = [IdleView EXCEPT !.lacking = view.lacking \ Content(live)]
  /\ UNCHANGED <<files, live, archive, clock, append>>

\* cmd_doctor opens the journal for appending, which creates it.
Touch ==
  /\ live = NoFile
  /\ files' = Append(files, EmptyFile)
  /\ live' = Len(files) + 1
  /\ UNCHANGED <<archive, clock, append, view>>

Tick ==
  /\ clock < MaxTime
  /\ clock' = clock + 1
  /\ UNCHANGED <<files, live, archive, append, view>>
=============================================================================
