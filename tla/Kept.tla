-------------------------------- MODULE Kept --------------------------------
(***************************************************************************)
(* What the app keeps between launches: the recent invocations and the     *)
(* window's preferences, each in a file that is replaced whole             *)
(* (crates/core/src/kept.rs, recent.rs, settings.rs, appearance.rs and     *)
(* command.rs, and crates/app/src/app/kept.rs that reads and writes them   *)
(* off the UI thread).  The app may be killed at any step.                 *)
(***************************************************************************)
EXTENDS Naturals, Sequences

CONSTANTS
  Invocations,   \* invocations, told apart by all but their variables' values
  Capacity,      \* RecentCommands::CAPACITY
  MaxEdits,      \* bound: edits and choices made
  MaxStarts      \* bound: runs of the app

Entries == [run : Invocations, values : BOOLEAN]
Files == {"recent", "settings"}
Preferences == [dark : BOOLEAN, indented : BOOLEAN]
Default == [dark |-> FALSE, indented |-> FALSE]

VARIABLES
  up, starts,        \* the app runs; how often it was started
  loaded,            \* the files were read
  held, file,        \* in memory and on disk
  staged, holder,    \* the document written beside each; the edit that holds its lock
  unsaved,           \* the last save of a file failed
  queue,             \* edits handed to the pool of blocking threads
  edits,             \* bound
  asked, promised,   \* whose values the last launch asked to keep, by now and on disk
  aside              \* a file that could not be read was set aside

vars == <<up, starts, loaded, held, file, staged, holder, unsaved, queue, edits, asked, promised, aside>>

Rows(list) == {list[i] : i \in DOMAIN list}
Missing == [is |-> "missing", doc |-> <<>>]
Junk == [is |-> "junk", doc |-> <<>>]
Whole(doc) == [is |-> "whole", doc |-> doc]
Free == <<>>

TypeOK ==
  /\ up \in BOOLEAN /\ starts \in 0..MaxStarts /\ loaded \in BOOLEAN /\ aside \subseteq Files
  /\ Rows(held.recent) \subseteq Entries /\ held.settings \in Preferences
  /\ unsaved \subseteq Files /\ edits \in 0..MaxEdits /\ asked \subseteq Invocations /\ promised \subseteq Invocations
  /\ \A f \in Files : holder[f] = Free => staged[f].is = "missing"

Nothing == [recent |-> <<>>, settings |-> Default]
Init ==
  /\ up = FALSE /\ starts = 0 /\ loaded = FALSE /\ aside = {}
  /\ held = Nothing /\ file \in [Files -> {Missing, Junk}]
  /\ staged = [f \in Files |-> Missing] /\ holder = [f \in Files |-> Free]
  /\ unsaved = {} /\ queue = {} /\ edits = 0 /\ asked = {} /\ promised = {}

(***************************************************************************)
(* Starting, and being killed.                                             *)
(***************************************************************************)
Start ==
  /\ ~up /\ starts < MaxStarts /\ starts' = starts + 1 /\ up' = TRUE
  /\ loaded' = FALSE /\ held' = Nothing /\ unsaved' = {} /\ aside' = {}
  /\ UNCHANGED <<file, staged, holder, queue, edits, asked, promised>>

\* `kept::load`: what is there and cannot be read is moved aside, never left
\* for the next save to overwrite.
Load ==
  /\ up /\ ~loaded /\ loaded' = TRUE
  /\ held' = [f \in Files |-> IF file[f].is = "whole" THEN file[f].doc ELSE Nothing[f]]
  /\ aside' = {f \in Files : file[f].is = "junk"}
  /\ file' = [f \in Files |-> IF file[f].is = "junk" THEN Missing ELSE file[f]]
  /\ asked' = promised
  /\ UNCHANGED <<up, starts, staged, holder, unsaved, queue, edits, promised>>

\* Killed: what was being written beside stays beside, and is nobody's.
Killed ==
  /\ up /\ up' = FALSE
  /\ staged' = [f \in Files |-> Missing] /\ holder' = [f \in Files |-> Free] /\ queue' = {}
  /\ UNCHANGED <<starts, loaded, held, file, unsaved, edits, asked, promised, aside>>

(***************************************************************************)
(* Edits, off the UI thread and in whatever order the pool runs them.      *)
(***************************************************************************)
Queue(f, edit) ==
  /\ up /\ loaded /\ edits < MaxEdits /\ edits' = edits + 1
  /\ queue' = queue \cup {<<f, edits + 1, edit>>}
  /\ UNCHANGED <<up, starts, loaded, held, file, staged, holder, unsaved, asked, promised, aside>>

\* A launch that reached an agent; a row removed, or its values forgotten, as
\* the window last drew it.
Record(run, keep) == Queue("recent", <<"record", [run |-> run, values |-> keep]>>)
Remove(entry) == entry \in Rows(held.recent) /\ Queue("recent", <<"remove", entry>>)
Forget(entry) == entry \in Rows(held.recent) /\ entry.values /\ Queue("recent", <<"forget", entry>>)
ChooseAppearance(dark) == Queue("settings", <<"appearance", dark>>)
ChooseIndentation(indented) == Queue("settings", <<"indentation", indented>>)

Without(list, drop) == SelectSeq(list, LAMBDA e : e \notin drop)
Truncated(list) == IF Len(list) > Capacity THEN SubSeq(list, 1, Capacity) ELSE list

\* `record`: whatever the values, an invocation has one row, the first.
Recorded(list, entry) ==
  Truncated(<<entry>> \o Without(list, {e \in Entries : e.run = entry.run}))

Edited(f, edit, doc) ==
  CASE edit[1] = "record" -> Recorded(doc, edit[2])
    [] edit[1] = "remove" -> Without(doc, {edit[2]})
    [] edit[1] = "forget" -> [i \in DOMAIN doc |->
                                IF doc[i] = edit[2] THEN [doc[i] EXCEPT !.values = FALSE] ELSE doc[i]]
    [] edit[1] = "appearance" -> [doc EXCEPT !.dark = edit[2]]
    [] edit[1] = "indentation" -> [doc EXCEPT !.indented = edit[2]]

\* An edit takes its file's lock, changes what is held and writes it beside.
\* A row that is not there any more leaves the file alone.
Begin(e) ==
  LET f == e[1]  edit == e[3]  doc == Edited(f, edit, held[f])
      gone == edit[1] \in {"remove", "forget"} /\ edit[2] \notin Rows(held[f])
  IN
  /\ up /\ e \in queue /\ holder[f] = Free
  /\ queue' = queue \ {e}
  /\ IF gone THEN UNCHANGED <<held, staged, holder>>
     ELSE /\ held' = [held EXCEPT ![f] = doc]
          /\ staged' = [staged EXCEPT ![f] = Whole(doc)] /\ holder' = [holder EXCEPT ![f] = e]
  /\ asked' = CASE edit[1] = "record" /\ edit[2].values -> asked \cup {edit[2].run}
                [] edit[1] = "record" /\ ~edit[2].values -> asked \ {edit[2].run}
                [] edit[1] = "forget" /\ ~gone -> asked \ {edit[2].run}
                [] OTHER -> asked
  /\ UNCHANGED <<up, starts, loaded, file, unsaved, edits, promised, aside>>

\* The rename, or a failure at any step before it; the lock goes with either.
End(f, well) ==
  /\ up /\ holder[f] # Free
  /\ file' = IF well THEN [file EXCEPT ![f] = staged[f]] ELSE file
  /\ unsaved' = IF well THEN unsaved \ {f} ELSE unsaved \cup {f}
  /\ staged' = [staged EXCEPT ![f] = Missing] /\ holder' = [holder EXCEPT ![f] = Free]
  /\ promised' = IF well /\ f = "recent" THEN asked ELSE promised
  /\ UNCHANGED <<up, starts, loaded, held, queue, edits, asked, aside>>

Next ==
  \/ Start \/ Load \/ Killed
  \/ \E run \in Invocations, keep \in BOOLEAN : Record(run, keep)
  \/ \E entry \in Entries : Remove(entry) \/ Forget(entry)
  \/ \E b \in BOOLEAN : ChooseAppearance(b) \/ ChooseIndentation(b)
  \/ \E e \in queue : Begin(e)
  \/ \E f \in Files, well \in BOOLEAN : End(f, well)

Spec == Init /\ [][Next]_vars

-----------------------------------------------------------------------------
\* Whenever no edit is under way and the last save went well, the file is what
\* is held; killed or failing, it is a document some edit left whole, and what
\* could not be read is never overwritten (kept.rs `replace`, `load`).
FileIsWhole ==
  /\ loaded => \A f \in Files : file[f].is # "junk"
  /\ \A f \in Files : up /\ loaded /\ holder[f] = Free /\ f \notin unsaved =>
       \/ file[f].is = "whole" /\ file[f].doc = held[f]
       \/ file[f].is = "missing" /\ held[f] = Nothing[f]

\* An invocation has one row whatever its values, and the list stays short.
OneRowEach ==
  /\ Len(held.recent) <= Capacity
  /\ \A i, j \in DOMAIN held.recent : held.recent[i].run = held.recent[j].run => i = j

\* Values are held and on disk only of an invocation whose last launch asked for
\* it, whatever was removed, forgotten, lost in a crash or launched again since.
ValuesWereAsked ==
  /\ up /\ loaded => \A e \in Rows(held.recent) : e.values => e.run \in asked
  /\ \A e \in Rows(file.recent.doc) : e.values => e.run \in promised

KeptIsSafe == TypeOK /\ FileIsWhole /\ OneRowEach /\ ValuesWereAsked
=============================================================================
