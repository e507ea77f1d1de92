------------------------------- MODULE Window -------------------------------
(***************************************************************************)
(* The app's window: launching, restarting and letting go of agents,       *)
(* opening a saved trace, exporting the live one, and quitting             *)
(* (crates/app/src/app/launch.rs, app/quit.rs, app/stores.rs, view.rs,     *)
(* export.rs, shell.rs and the handlers of main.rs).  Handlers run on one  *)
(* thread and are atomic up to each await; the core moves on beside them,  *)
(* and the window sees it through signals set some time later.             *)
(***************************************************************************)
EXTENDS Naturals, FiniteSets

CONSTANTS
  MaxLaunches,   \* bound: launches
  MaxFrames,     \* bound: frames recorded
  MaxActs        \* bound: files opened, exports begun and clears, each

Agents == 1..MaxLaunches
Frames == 1..MaxFrames

VARIABLES
  live, answered,       \* core: the agent connected to, and whether it described itself
  running, stopping,    \* core: agents that run; those asked to stop
  recorded, dropped,    \* core: frames ever recorded, and how many the trace let go of
  shown,                \* the signals: connected, recorded, dropped
  launches, task,       \* launches made; where each one's task is
  launching, remembered,
  watched,              \* the window says an agent is stopping
  opened, opening,      \* a saved trace is shown; one is being read
  work,                 \* the export: pending, taking, exported
  snapshot, saved,      \* frames of the export in flight; frames in files
  acts,                 \* bound: files opened, exports, clears
  quit, asking, forced  \* the quit in progress; its question; "Quit anyway"

core == <<live, answered, running, stopping, recorded, dropped>>
launch == <<launches, task, launching, remembered, watched>>
viewing == <<opened, opening>>
exporting == <<work, snapshot, saved>>
quitting == <<quit, asking, forced>>
vars == <<core, shown, launch, viewing, exporting, acts, quitting>>

TypeOK ==
  /\ live \in 0..MaxLaunches /\ answered \in BOOLEAN
  /\ running \subseteq Agents /\ stopping \subseteq running
  /\ recorded \in 0..MaxFrames /\ dropped \in 0..recorded
  /\ shown.connected \in BOOLEAN /\ shown.recorded \in 0..recorded
  /\ shown.dropped \in 0..shown.recorded
  /\ launches \in 0..MaxLaunches
  /\ \A a \in Agents : task[a] \in {"none", "waits", "path", "starts", "opens", "records", "done"}
  /\ launching \in BOOLEAN /\ remembered \subseteq Agents /\ watched \in BOOLEAN
  /\ opened \in BOOLEAN /\ opening \in BOOLEAN
  /\ work.pending \in BOOLEAN /\ work.taking \in 0..recorded /\ work.exported \in 0..recorded
  /\ snapshot \subseteq Frames /\ saved \subseteq Frames
  /\ acts \in [{"open", "export", "clear"} -> 0..MaxActs]
  /\ quit \in {"no", "grace", "closed"} /\ asking \in BOOLEAN /\ forced \in BOOLEAN

Init ==
  /\ live = 0 /\ answered = FALSE /\ running = {} /\ stopping = {} /\ recorded = 0 /\ dropped = 0
  /\ shown = [connected |-> FALSE, recorded |-> 0, dropped |-> 0]
  /\ launches = 0 /\ task = [a \in Agents |-> "none"]
  /\ launching = FALSE /\ remembered = {} /\ watched = FALSE
  /\ opened = FALSE /\ opening = FALSE
  /\ work = [pending |-> FALSE, taking |-> 0, exported |-> 0]
  /\ snapshot = {} /\ saved = {} /\ acts = [open |-> 0, export |-> 0, clear |-> 0]
  /\ quit = "no" /\ asking = FALSE /\ forced = FALSE

Open == quit # "closed"
Does(act) == acts[act] < MaxActs /\ acts' = [acts EXCEPT ![act] = @ + 1]

(***************************************************************************)
(* The core, as the window sees it.                                        *)
(***************************************************************************)
\* `disconnect_gracefully`: the agent connected to is asked to stop.
LetGo ==
  /\ live' = 0
  /\ stopping' = stopping \cup ({live} \cap running)
  /\ UNCHANGED <<answered, running, recorded, dropped>>

\* `disconnect`: whoever runs is killed.
KillAll ==
  /\ live' = 0 /\ running' = {} /\ stopping' = {}
  /\ UNCHANGED <<answered, recorded, dropped>>

Speaks ==
  /\ Open /\ running # {} /\ recorded < MaxFrames
  /\ recorded' = recorded + 1
  /\ UNCHANGED <<live, answered, running, stopping, dropped, shown, launch, viewing, exporting,
                 acts, quitting>>

\* The answer to `initialize`, of the agent connected to.
Describes ==
  /\ Open /\ live \in running /\ task[live] = "opens" /\ ~answered
  /\ answered' = TRUE
  /\ UNCHANGED <<live, running, stopping, recorded, dropped, shown, launch, viewing, exporting,
                 acts, quitting>>

\* An agent ends, asked to or not.
Ends(a) ==
  /\ Open /\ a \in running
  /\ running' = running \ {a} /\ stopping' = stopping \ {a}
  /\ live' = IF live = a THEN 0 ELSE live
  /\ UNCHANGED <<answered, recorded, dropped, shown, launch, viewing, exporting, acts, quitting>>

(***************************************************************************)
(* The signals, each set by a watcher some time after its store changed.   *)
(***************************************************************************)
\* The effect of an agent connecting closes what is shown of a file.
Closes == shown'.connected /\ ~shown.connected /\ opened
StatusShown ==
  /\ Open /\ shown.connected # (live # 0)
  /\ shown' = [shown EXCEPT !.connected = live # 0]
  /\ opened' = IF Closes THEN FALSE ELSE opened
  /\ UNCHANGED <<core, launch, opening, exporting, acts, quitting>>

FramesShown ==
  /\ Open /\ <<shown.recorded, shown.dropped>> # <<recorded, dropped>>
  /\ shown' = [shown EXCEPT !.recorded = recorded, !.dropped = dropped]
  /\ UNCHANGED <<core, launch, viewing, exporting, acts, quitting>>

(***************************************************************************)
(* Launching: `launch`, and its task after each await.                     *)
(***************************************************************************)
Gate == ~launching

Launch ==
  /\ Open /\ Gate /\ launches < MaxLaunches
  /\ launches' = launches + 1 /\ launching' = TRUE
  /\ task' = [task EXCEPT ![launches + 1] = "waits"]
  /\ UNCHANGED <<core, shown, remembered, watched, viewing, exporting, acts, quitting>>

Goes(a, from, to) == Open /\ task[a] = from /\ task' = [task EXCEPT ![a] = to]

\* `inspector.stopped().await`
Waited(a) ==
  /\ Goes(a, "waits", "path") /\ stopping = {}
  /\ UNCHANGED <<core, shown, launches, launching, remembered, watched, viewing, exporting, acts, quitting>>

\* The login shell's PATH: an answer or a time-out.
PathKnown(a) ==
  /\ Goes(a, "path", "starts")
  /\ UNCHANGED <<core, shown, launches, launching, remembered, watched, viewing, exporting, acts, quitting>>

\* `inspector.start`: the agent before is let go, and the next one spawned,
\* which may fail: then nothing runs under the connection made.
Starts(a) ==
  /\ Goes(a, "starts", "opens")
  /\ live' = a /\ answered' = FALSE
  /\ stopping' = stopping \cup ({live} \cap running)
  /\ running' \in {running, running \cup {a}}
  /\ UNCHANGED <<recorded, dropped, shown, launches, launching, remembered, watched, viewing,
                 exporting, acts, quitting>>

\* A connection without an agent is observed as lost.
Observed ==
  /\ Open /\ live # 0 /\ live \notin running
  /\ live' = 0
  /\ UNCHANGED <<answered, running, stopping, recorded, dropped, shown, launch, viewing, exporting,
                 acts, quitting>>

\* The start returns: with a session or without one, or with a connection that
\* went away.  Only where an agent answered is the invocation remembered.
Started(a) ==
  /\ \E to \in {"records", "done"} :
       Goes(a, "opens", to) /\ (to = "records" <=> answered)
  /\ answered \/ live # a
  /\ launching' = FALSE
  /\ UNCHANGED <<core, shown, launches, remembered, watched, viewing, exporting, acts, quitting>>

Recorded(a) ==
  /\ Goes(a, "records", "done") /\ remembered' = remembered \cup {a}
  /\ UNCHANGED <<core, shown, launches, launching, watched, viewing, exporting, acts, quitting>>

\* `on_disconnect`, with `watch_stop`.
Watch == watched' = (watched \/ stopping' # {})
Disconnect ==
  /\ Open /\ shown.connected /\ LetGo /\ Watch
  /\ UNCHANGED <<shown, launches, task, launching, remembered, viewing, exporting, acts, quitting>>

StopSeen ==
  /\ Open /\ watched /\ stopping = {} /\ watched' = FALSE
  /\ UNCHANGED <<core, shown, launches, task, launching, remembered, viewing, exporting, acts, quitting>>

(***************************************************************************)
(* A saved trace.                                                          *)
(***************************************************************************)
\* `choose`, refused with an agent connected, and `open`.
Choose ==
  /\ Open /\ ~shown.connected /\ ~opening /\ Does("open")
  /\ opening' = TRUE
  /\ UNCHANGED <<core, shown, launch, opened, exporting, quitting>>

\* The file was read, or could not be.
ReadDone ==
  /\ Open /\ opening /\ opening' = FALSE
  /\ opened' \in {opened, TRUE}
  /\ UNCHANGED <<core, shown, launch, exporting, acts, quitting>>

CloseView ==
  /\ Open /\ opened /\ opened' = FALSE
  /\ UNCHANGED <<core, shown, launch, opening, exporting, acts, quitting>>

(***************************************************************************)
(* Exporting and clearing.                                                 *)
(***************************************************************************)
Held == {f \in Frames : dropped < f /\ f <= recorded}

\* The snapshot is the core's, the count the signals'; the frames of a file
\* shown are no part of the live trace.
TakingVariant == shown.recorded
Taking == IF opened THEN work.exported ELSE shown.recorded

Export ==
  /\ Open /\ ~work.pending /\ Does("export")
  /\ work' = [work EXCEPT !.pending = TRUE, !.taking = Taking]
  /\ snapshot' = IF opened THEN {} ELSE Held
  /\ asking' = FALSE
  /\ UNCHANGED <<core, shown, launch, viewing, saved, quit, forced>>

Exported(well) ==
  /\ Open /\ work.pending
  /\ work' = [work EXCEPT !.pending = FALSE,
                          !.exported = IF well /\ work.taking > @ THEN work.taking ELSE @]
  /\ saved' = IF well THEN saved \cup snapshot ELSE saved
  /\ snapshot' = {}
  /\ UNCHANGED <<core, shown, launch, viewing, acts, quitting>>

Clear ==
  /\ Open /\ dropped < recorded /\ Does("clear")
  /\ dropped' = recorded
  /\ UNCHANGED <<live, answered, running, stopping, recorded, shown, launch, viewing, exporting, quitting>>

(***************************************************************************)
(* Quitting.                                                               *)
(***************************************************************************)
Unexported == shown.recorded > shown.dropped /\ shown.recorded > work.exported

\* `quit_now`: the agent is asked to stop; what is left when the grace is over
\* is killed as the window closes.
QuitNow == quit' = "grace" /\ LetGo /\ Watch

OnQuit ==
  /\ Open
  /\ IF Unexported
     THEN asking' = TRUE /\ UNCHANGED <<quit, core, watched>>
     ELSE QuitNow /\ UNCHANGED asking
  /\ UNCHANGED <<forced, shown, launches, task, launching, remembered, viewing, exporting, acts>>

Anyway ==
  /\ Open /\ asking /\ asking' = FALSE /\ forced' = TRUE /\ QuitNow
  /\ UNCHANGED <<shown, launches, task, launching, remembered, viewing, exporting, acts>>

Stay ==
  /\ Open /\ asking /\ asking' = FALSE
  /\ UNCHANGED <<core, shown, launch, viewing, exporting, acts, quit, forced>>

AtClose == KillAll

\* The stop is over or the grace of 5 s ran out.
QuitDone ==
  /\ quit = "grace" /\ quit' = "closed" /\ AtClose
  /\ UNCHANGED <<shown, launch, viewing, exporting, acts, asking, forced>>

\* The window's own close button: hidden and shown again with the question
\* while frames would be lost, else closed at once.
CloseRequested ==
  /\ Open
  /\ IF Unexported
     THEN asking' = TRUE /\ UNCHANGED <<quit, core>>
     ELSE quit' = "closed" /\ KillAll /\ UNCHANGED asking
  /\ UNCHANGED <<forced, shown, launch, viewing, exporting, acts>>

Task(a) == Waited(a) \/ PathKnown(a) \/ Starts(a) \/ Started(a) \/ Recorded(a)

Next ==
  \/ Launch \/ Disconnect \/ Choose \/ CloseView \/ Export \/ Clear
  \/ OnQuit \/ Anyway \/ Stay \/ CloseRequested
  \/ StatusShown \/ FramesShown \/ StopSeen \/ ReadDone \/ QuitDone
  \/ \E well \in BOOLEAN : Exported(well)
  \/ \E a \in Agents : Task(a) \/ Ends(a)
  \/ Speaks \/ Describes \/ Observed

Spec == Init /\ [][Next]_vars

-----------------------------------------------------------------------------
\* What counts as exported is in a file, or was let go of by the trace before:
\* no export of a file shown, no failed one and no frame that crosses while one
\* is written makes the window forget to ask (export.rs `Work`).
ExportedIsSaved == \A f \in Frames : f <= work.exported /\ f > dropped => f \in saved

\* The window never closes on an agent that runs, whatever is being launched,
\* stopped or exported (quit.rs, shell.rs `use_shutdown`).
NobodyOutlives == quit = "closed" => running = {}

\* One launch is in flight at a time, and the window says so.
OneLaunch ==
  /\ Cardinality({a \in Agents : task[a] \in {"waits", "path", "starts", "opens"}}) <= 1
  /\ launching <=> \E a \in Agents : task[a] \in {"waits", "path", "starts", "opens"}

QuitLosesNothing == TypeOK /\ ExportedIsSaved /\ NobodyOutlives /\ OneLaunch

\* view.rs:6-9: "A trace opens only with nothing connected, and launching closes
\* it: a file's frames never mix into a live trace."
NeverMixed == ~(opened /\ shown.connected)
=============================================================================
