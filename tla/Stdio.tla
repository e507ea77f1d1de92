-------------------------------- MODULE Stdio --------------------------------
(***************************************************************************)
(* The stdio transport (crates/core/src/stdio.rs, stdio/process.rs): an    *)
(* agent in a process group of its own, the three pumps on its pipes, the  *)
(* watch that reports its exit or carries out a stop, and the client's end *)
(* of the connection (connection.rs).  Something the agent started may     *)
(* have left its group and hold its pipes open.                            *)
(*                                                                         *)
(* Frames and diagnostics are counted; a line of stdout is who wrote it,   *)
(* and its length is seen when it is read.  Whether the agent's stdin has  *)
(* room, and whether its stderr has a line, is left open.  A grace elapses *)
(* only when what it waits for cannot move: it is a second or more, and a  *)
(* step is not.                                                            *)
(***************************************************************************)
EXTENDS Naturals, Sequences, FiniteSets

CONSTANTS
  Starts,              \* what an agent starts: [group, holds], in its group and out of it
  PipeCapacity,        \* what fits a pipe
  FrameCapacity,       \* FRAME_CAPACITY
  DiagnosticCapacity,  \* DIAGNOSTIC_CAPACITY
  MaxLines             \* bound: lines an escaped process writes

ASSUME StdioAssumption ==
  /\ Starts \subseteq [group : BOOLEAN, holds : SUBSET {"stdin", "stdout"}]
  /\ {PipeCapacity, FrameCapacity, DiagnosticCapacity} \subseteq Nat \ {0}
  /\ MaxLines \in Nat

\* Enough for TLC: a group and one pipe held outside it; no group and both held.
FewStarts ==
  {[group |-> TRUE, holds |-> {"stdin"}], [group |-> FALSE, holds |-> {"stdin", "stdout"}]}

VARIABLES
  leader, group, terminated,       \* the agent; its group's descendants; the kill sent
  holds,                           \* the pipes an escaped process holds
  stdout,                          \* lines in the pipe
  outgoing, accepting,             \* frames queued; whether the queue is open
  incoming, reading,               \* frames read; whether the client takes them
  diagnostics, listening,          \* what else was seen; whether the client hears it
  graceful, shutdown,              \* the client's tokens
  stopWriting,                     \* the watch's token
  writer, reader, line, console,   \* the pumps, and the line the reader has
  moved,                           \* reads done since the drain looked
  watch, abandoned, verdict,       \* the watch
  lines,                           \* bounded: the escaped process's lines
  owed, stray, broke               \* history: the group's lines not handed on, a
                                   \* signal gone astray, a pipe that broke

agent == <<leader, group, terminated, holds>>
queues == <<outgoing, accepting, incoming, reading, diagnostics, listening>>
tokens == <<graceful, shutdown, stopWriting>>
pumps == <<writer, reader, line, console, moved>>
watching == <<watch, abandoned, verdict>>
history == <<owed, stray, broke>>
vars == <<agent, stdout, queues, tokens, pumps, watching, lines, history>>

Lines == {"group", "escapee"}
NoLine == "none"
Verdicts == {"AlreadyExited", "StdinClosed", "Terminated", "Killed"}
Reporting == {"waiting", "draining", "writer", "blaming", "remarking", "exiting"}

TypeOK ==
  /\ leader \in {"runs", "exited", "killed", "reaped"} /\ group \in BOOLEAN
  /\ terminated \in BOOLEAN /\ holds \in SUBSET {"stdin", "stdout"}
  /\ stdout \in Seq(Lines) /\ Len(stdout) <= PipeCapacity
  /\ outgoing \in 0..FrameCapacity /\ accepting \in BOOLEAN
  /\ incoming \in 0..FrameCapacity
  /\ diagnostics \in 0..DiagnosticCapacity
  /\ {reading, listening, graceful, shutdown, stopWriting, abandoned} \subseteq BOOLEAN
  /\ writer \in {"idle", "writing", "failing", "done"}
  /\ reader \in {"waiting", "announcing", "delivering", "failing", "done"}
  /\ line \in Lines \cup {NoLine}
  /\ console \in {"waiting", "saying", "drains", "done"}
  /\ moved \in [{"reader", "console"} -> BOOLEAN]
  /\ watch \in Reporting \cup {"asked", "closing", "terming", "killing", "saying", "done"}
  /\ verdict \in Verdicts \cup {"none"}
  /\ lines \in 0..MaxLines /\ owed \in Nat

Init ==
  /\ leader = "runs" /\ terminated = FALSE
  /\ \E start \in Starts : group = start.group /\ holds = start.holds
  /\ stdout = <<>>
  /\ outgoing = 0 /\ accepting = TRUE
  /\ incoming = 0 /\ reading = TRUE /\ diagnostics = 0 /\ listening = TRUE
  /\ graceful = FALSE /\ shutdown = FALSE /\ stopWriting = FALSE
  /\ writer = "idle" /\ reader = "waiting" /\ line = NoLine /\ console = "waiting"
  /\ moved = [r \in {"reader", "console"} |-> FALSE]
  /\ watch = "waiting" /\ abandoned = FALSE /\ verdict = "none"
  /\ lines = 0 /\ owed = 0 /\ stray = FALSE /\ broke = FALSE

\* Whether anybody still holds the agent's end of a pipe.
Held(pipe) == leader = "runs" \/ group \/ pipe \in holds

\* One more on the diagnostic channel; nothing, where nobody listens.
Says ==
  IF listening THEN /\ diagnostics < DiagnosticCapacity
                    /\ diagnostics' = diagnostics + 1
  ELSE UNCHANGED diagnostics

(***************************************************************************)
(* The process.  The definitions named "...Variant" are plausible slips of *)
(* the one after them; no specification uses them.                         *)
(***************************************************************************)
\* `Process::terminate`, once: SIGKILL to the group, `as` what it leaves the
\* leader.  The group's number is ours only until its leader is reaped.
TerminateVariant(as) ==
  /\ terminated' = TRUE /\ group' = FALSE /\ leader' = as
  /\ stray' = (stray \/ leader = "reaped")
  /\ UNCHANGED holds
Terminate(as) ==
  /\ terminated' = TRUE /\ leader' = as
  /\ group' = (IF terminated THEN group ELSE FALSE)
  /\ stray' = (stray \/ (~terminated /\ leader = "reaped"))
  /\ UNCHANGED holds

Dead == IF leader = "runs" THEN "killed" ELSE leader

\* `Process::try_wait` where the leader is gone: its group is ended first, and
\* only then is it reaped.
Reap ==
  /\ leader # "runs"
  /\ IF leader = "reaped" THEN UNCHANGED <<agent, stray>> ELSE Terminate("reaped")

(***************************************************************************)
(* The writer (`write_frames`).                                            *)
(***************************************************************************)
WriterStops == writer' = "done" /\ accepting' = FALSE /\ outgoing' = 0

\* A stop closes the queue; what is in it still gets a write.
WriterTakes ==
  /\ writer = "idle" /\ outgoing > 0
  /\ accepting' = (accepting /\ ~stopWriting)
  /\ outgoing' = outgoing - 1 /\ writer' = "writing"
  /\ UNCHANGED <<agent, stdout, incoming, reading, diagnostics, listening, tokens, reader,
                 line, console, moved, watching, lines, owed, stray, broke>>

WriterEnds ==
  /\ writer = "idle" /\ outgoing = 0 /\ (stopWriting \/ ~reading)
  /\ WriterStops
  /\ UNCHANGED <<agent, stdout, incoming, reading, diagnostics, listening,
                 tokens, reader, line, console, moved, watching, lines, owed, stray, broke>>

WriterWrites ==
  /\ writer = "writing" /\ Held("stdin") /\ writer' = "idle"
  /\ UNCHANGED <<agent, stdout, queues, tokens, reader, line, console,
                 moved, watching, lines, owed, stray, broke>>

\* Senders waiting for room are released before the failure is reported.
WriterFails ==
  /\ writer = "writing" /\ ~Held("stdin")
  /\ writer' = "failing" /\ accepting' = FALSE /\ outgoing' = 0
  /\ UNCHANGED <<agent, stdout, incoming, reading, diagnostics, listening,
                 tokens, reader, line, console, moved, watching, lines, owed, stray, broke>>

WriterReports ==
  /\ writer = "failing" /\ Says /\ writer' = "done"
  /\ UNCHANGED <<agent, stdout, outgoing, accepting, incoming, reading, listening, tokens,
                 reader, line, console, moved, watching, lines, owed, stray, broke>>

Writer == WriterTakes \/ WriterEnds \/ WriterFails \/ WriterReports

\* A read done while the drain looks on.
Moves(r) == moved' = [moved EXCEPT ![r] = (watch = "draining")]

(***************************************************************************)
(* The readers (`read_frames`, `read_stderr`, `Lines::next`).              *)
(***************************************************************************)
ReaderUnchanged == <<agent, outgoing, accepting, reading, listening,
                     tokens, writer, console, watching, lines, stray>>

\* A line over the limit is announced before its placeholder goes on.
ReaderReads ==
  /\ reader = "waiting" /\ stdout # <<>>
  /\ line' = Head(stdout) /\ stdout' = Tail(stdout)
  /\ reader' \in {"announcing", "delivering"}
  /\ Moves("reader")
  /\ UNCHANGED <<incoming, diagnostics, owed, broke, ReaderUnchanged>>

ReaderAnnounces ==
  /\ reader = "announcing" /\ Says /\ reader' = "delivering"
  /\ UNCHANGED <<stdout, incoming, line, moved, owed, broke, ReaderUnchanged>>

ReaderDelivers ==
  /\ reader = "delivering"
  /\ IF reading THEN /\ incoming < FrameCapacity
                     /\ incoming' = incoming + 1 /\ reader' = "waiting"
                     /\ owed' = IF line = "group" THEN owed - 1 ELSE owed
     ELSE reader' = "done" /\ UNCHANGED <<incoming, owed>>
  /\ line' = NoLine
  /\ UNCHANGED <<stdout, diagnostics, moved, broke, ReaderUnchanged>>

ReaderEnds ==
  /\ reader = "waiting" /\ stdout = <<>> /\ ~Held("stdout")
  /\ reader' = "done" /\ Moves("reader")
  /\ UNCHANGED <<stdout, incoming, diagnostics, line, owed, broke, ReaderUnchanged>>

\* A pipe that cannot be read, or a pump that panics (`guarded`).
ReaderBreaks ==
  /\ reader = "waiting" /\ reader' = "failing" /\ broke' = TRUE
  /\ UNCHANGED <<stdout, incoming, diagnostics, line, moved, owed, ReaderUnchanged>>

ReaderReports ==
  /\ reader = "failing" /\ Says /\ reader' = "done"
  /\ UNCHANGED <<stdout, incoming, line, moved, owed, broke, ReaderUnchanged>>

Reader == ReaderReads \/ ReaderAnnounces \/ ReaderDelivers \/ ReaderEnds \/ ReaderReports

ConsoleUnchanged == <<agent, stdout, outgoing, accepting, incoming, reading,
                      listening, tokens, writer, reader, line, watching, lines, owed, stray, broke>>

\* A line of stderr.  With nobody listening it reads on to the end, so that the
\* agent never meets a full pipe.
ConsoleReads ==
  /\ console \in {"waiting", "drains"} /\ (leader = "runs" \/ group)
  /\ console' = IF console = "drains" THEN "drains" ELSE "saying"
  /\ Moves("console")
  /\ UNCHANGED <<diagnostics, ConsoleUnchanged>>

ConsoleSays ==
  /\ console = "saying" /\ Says
  /\ console' = IF listening THEN "waiting" ELSE "drains"
  /\ UNCHANGED <<moved, ConsoleUnchanged>>

ConsoleEnds ==
  /\ console \in {"waiting", "drains"} /\ ~Held("stdout")
  /\ console' = "done" /\ Moves("console")
  /\ UNCHANGED <<diagnostics, ConsoleUnchanged>>

Console == ConsoleSays \/ ConsoleEnds

(***************************************************************************)
(* The watch: the agent's own end.                                         *)
(***************************************************************************)
WatchUnchanged == <<stdout, incoming, reading, listening, graceful, shutdown,
                    line, lines, owed, broke>>

SeesExit ==
  /\ watch = "waiting" /\ Reap
  /\ watch' = "draining" /\ stopWriting' = TRUE
  /\ moved' = [r \in DOMAIN moved |-> FALSE]
  /\ UNCHANGED <<outgoing, accepting, diagnostics, writer, reader, console,
                 abandoned, verdict, WatchUnchanged>>

\* `drain`: both readers at the end of their pipes.
Joined == reader = "done" /\ console = "done"

DrainEnds ==
  /\ watch = "draining" /\ Joined
  /\ watch' = "writer" /\ moved' = [r \in DOMAIN moved |-> FALSE]
  /\ UNCHANGED <<agent, outgoing, accepting, diagnostics, stopWriting, writer,
                 reader, console, abandoned, verdict, stray,
                 WatchUnchanged>>

Waits(r) == IF r = "reader" THEN reader = "waiting" ELSE console \in {"waiting", "drains"}
Over(r) == IF r = "reader" THEN reader = "done" ELSE console = "done"
HasNothing(r) == r = "reader" => stdout = <<>>

\* A grace goes by: given up only when every reader still running has sat on an
\* empty pipe for the whole of it.
StalledVariant(r) == Over(r) \/ ~moved[r]
Stalled(r) == Over(r) \/ (Waits(r) /\ ~moved[r])

DrainWaits ==
  /\ watch = "draining" /\ ~Joined
  /\ \A r \in DOMAIN moved : Waits(r) => HasNothing(r) /\ Held("stdout")
  /\ LET stalled == \A r \in DOMAIN moved : Stalled(r) IN
     /\ watch' = IF stalled THEN "writer" ELSE "draining"
     /\ abandoned' = stalled
     /\ reader' = IF stalled THEN "done" ELSE reader
     /\ console' = IF stalled THEN "done" ELSE console
     /\ moved' = [r \in DOMAIN moved |-> FALSE]
  /\ UNCHANGED <<agent, outgoing, accepting, diagnostics, stopWriting, writer,
                 verdict, stray, WatchUnchanged>>

\* The writer gets the same grace, and is aborted where it is stuck.
WriterJoins ==
  /\ watch = "writer" /\ writer = "done"
  /\ watch' = IF abandoned THEN "remarking" ELSE "exiting"
  /\ UNCHANGED <<agent, outgoing, accepting, diagnostics, stopWriting, writer,
                 reader, console, moved, abandoned, verdict, stray,
                 WatchUnchanged>>

WriterStuck ==
  \/ writer = "writing" /\ Held("stdin")
  \/ writer = "failing" /\ listening /\ diagnostics = DiagnosticCapacity

AbortsWriterVariant ==
  /\ watch = "writer" /\ WriterStuck /\ writer = "failing"
  /\ WriterStops /\ watch' = "blaming"
  /\ UNCHANGED <<agent, diagnostics, stopWriting, reader, console, moved, abandoned, verdict,
                 stray, WatchUnchanged>>
AbortsWriter ==
  /\ watch = "writer" /\ WriterStuck
  /\ WriterStops /\ watch' = "blaming"
  /\ UNCHANGED <<agent, diagnostics, stopWriting, reader, console, moved, abandoned, verdict,
                 stray, WatchUnchanged>>

Notice(now, next) ==
  /\ watch = now /\ Says /\ watch' = next
  /\ UNCHANGED <<agent, outgoing, accepting, stopWriting, writer, reader, console,
                 moved, abandoned, verdict, stray, WatchUnchanged>>

Blames == Notice("blaming", IF abandoned THEN "remarking" ELSE "exiting")
Remarks == Notice("remarking", "exiting")
TellsExit == Notice("exiting", "done")

(***************************************************************************)
(* The watch: the client letting go, which wins over a report under way.   *)
(***************************************************************************)
SeesShutdown ==
  /\ watch \in Reporting /\ shutdown
  /\ stopWriting' = TRUE
  /\ moved' = [r \in DOMAIN moved |-> FALSE]
  /\ IF graceful THEN watch' = "asked" /\ UNCHANGED <<agent, stray>>
     ELSE watch' = "done" /\ Terminate(Dead)
  /\ UNCHANGED <<outgoing, accepting, diagnostics, writer, reader, console,
                 abandoned, verdict, WatchUnchanged>>

StopUnchanged == <<outgoing, accepting, stopWriting, writer, reader, console,
                   moved, abandoned, WatchUnchanged>>

\* `stop`: each step waits for an exit, which it then names.
Found(step, by) ==
  /\ watch = step /\ Reap
  /\ watch' = "saying" /\ verdict' = by
  /\ UNCHANGED <<diagnostics, StopUnchanged>>

AsksStdin ==
  /\ watch = "asked" /\ leader = "runs" /\ watch' = "closing"
  /\ UNCHANGED <<agent, diagnostics, verdict, stray, StopUnchanged>>

\* SIGTERM to the group, unless the kill was sent already.
AsksTerm ==
  /\ watch = "closing" /\ leader = "runs"
  /\ watch' = "terming"
  /\ UNCHANGED <<agent, diagnostics, verdict, stray, StopUnchanged>>

KillsVariant ==
  /\ watch = "terming" /\ leader = "runs" /\ watch' = "killing"
  /\ UNCHANGED <<agent, stray, diagnostics, verdict, StopUnchanged>>
Kills ==
  /\ watch = "terming" /\ leader = "runs"
  /\ Terminate("killed") /\ watch' = "killing"
  /\ UNCHANGED <<diagnostics, verdict, StopUnchanged>>

Stops ==
  \/ Found("asked", "AlreadyExited") \/ AsksStdin
  \/ Found("closing", "StdinClosed") \/ AsksTerm
  \/ Found("terming", "Terminated") \/ Kills
  \/ Found("killing", "Killed")

\* The outcome is told, or given up after a grace; the owner's drop ends what
\* is left of the group.
TellsStopped ==
  /\ watch = "saying"
  /\ \/ Says
     \/ listening /\ diagnostics = DiagnosticCapacity /\ UNCHANGED diagnostics
  /\ watch' = "done" /\ Terminate(Dead)
  /\ UNCHANGED <<verdict, StopUnchanged>>

Watch ==
  \/ SeesExit \/ DrainEnds \/ DrainWaits \/ WriterJoins \/ AbortsWriter
  \/ Blames \/ Remarks \/ TellsExit \/ SeesShutdown \/ Stops \/ TellsStopped

(***************************************************************************)
(* The agent, what it started, and the client.                             *)
(***************************************************************************)
Outside == <<outgoing, accepting, incoming, reading, diagnostics, listening, tokens, pumps,
             watching, stray, broke>>

Writes(who) ==
  /\ Len(stdout) < PipeCapacity
  /\ \/ /\ who = "group" /\ (leader = "runs" \/ group)
        /\ owed' = owed + 1 /\ UNCHANGED lines
     \/ /\ who = "escapee" /\ "stdout" \in holds /\ lines < MaxLines
        /\ lines' = lines + 1 /\ UNCHANGED owed
  /\ stdout' = Append(stdout, who)
  /\ UNCHANGED <<agent, Outside>>

AgentExits ==
  /\ leader = "runs" /\ leader' = "exited"
  /\ UNCHANGED <<group, terminated, holds, stdout, lines, owed, Outside>>

EscapeeLeaves ==
  /\ holds # {} /\ holds' = {}
  /\ UNCHANGED <<leader, group, terminated, stdout, lines, owed, Outside>>

ClientUnchanged == <<stdout, stopWriting, pumps, watching, lines, owed, broke>>

Send ==
  /\ accepting /\ ~shutdown /\ outgoing < FrameCapacity
  /\ outgoing' = outgoing + 1
  /\ UNCHANGED <<agent, accepting, incoming, reading, diagnostics, listening, graceful,
                 shutdown, stray, ClientUnchanged>>

Receive ==
  /\ incoming > 0 /\ reading /\ incoming' = incoming - 1
  /\ UNCHANGED <<agent, outgoing, accepting, reading, diagnostics, listening, graceful,
                 shutdown, stray, ClientUnchanged>>

Hear ==
  /\ diagnostics > 0 /\ listening /\ diagnostics' = diagnostics - 1
  /\ UNCHANGED <<agent, outgoing, accepting, incoming, reading, listening, graceful,
                 shutdown, stray, ClientUnchanged>>

\* `Guard::shutdown`: the stop hook unless the stop is a graceful one.
Shutdown(gracefully) ==
  /\ ~shutdown /\ shutdown' = TRUE
  /\ graceful' = gracefully
  /\ IF gracefully THEN UNCHANGED <<agent, stray>> ELSE Terminate(Dead)
  /\ UNCHANGED <<queues, ClientUnchanged>>

\* `FrameSink::kill`: the hook, whatever stop was asked for before.
Kill ==
  /\ ~terminated /\ Terminate(Dead) /\ shutdown' = TRUE
  /\ UNCHANGED <<queues, graceful, ClientUnchanged>>

\* Both receivers go with the last of the client's ends, and so does the queue.
LetsGo ==
  /\ shutdown /\ reading
  /\ reading' = FALSE /\ listening' \in BOOLEAN /\ incoming' = 0
  /\ diagnostics' = IF listening' THEN diagnostics ELSE 0
  /\ UNCHANGED <<agent, outgoing, accepting, graceful, shutdown, stray,
                 ClientUnchanged>>

World ==
  \/ AgentExits \/ EscapeeLeaves
  \/ \E who \in Lines : Writes(who)
  \/ Send \/ Receive \/ Hear \/ Kill \/ LetsGo
  \/ \E gracefully \in BOOLEAN : Shutdown(gracefully)

Next == Writer \/ WriterWrites \/ Reader \/ ReaderBreaks \/ Console \/ ConsoleReads \/ Watch \/ World

Spec == Init /\ [][Next]_vars

\* The runtime runs its tasks and its timers, and the client takes what it is
\* handed until it lets go; nothing is assumed of the agent or of what escaped it.
FairSpec ==
  /\ Spec
  /\ WF_vars(Writer) /\ WF_vars(Reader) /\ WF_vars(Console) /\ WF_vars(Watch)
  /\ WF_vars(Receive) /\ WF_vars(Hear)

(***************************************************************************)
(* What the transport promises.                                            *)
(***************************************************************************)
\* No signal goes to the agent's group once its leader was reaped and the number
\* may be another's: the group is ended before the reaping and only once
\* (process.rs `terminate`, `interrupt`, `try_wait`).
NoStraySignal == ~stray

\* And nothing is signalled, queued or told that the types do not allow for.
SignalsAreOwn == TypeOK /\ NoStraySignal

\* The exit is told after everything the agent and its group wrote was handed on,
\* unless a pipe broke or the client takes no more frames, and after the pumps are
\* done; an escaped process costs its own lines only, and whoever is slow to take
\* frames costs none (stdio.rs `watch`, `drain`; connection.rs AgentExited).
EvidenceBeforeExit ==
  [][TellsExit => /\ {reader, console, writer} = {"done"}
                  /\ owed = 0 \/ broke \/ ~reading]_vars

\* The client letting go always ends the agent with all of its group, and the
\* watch, whoever holds the pipes and whether or not anybody still listens
\* (stdio.rs `watch`, `stop`).
StopEnds == shutdown ~> (watch = "done" /\ leader # "runs" /\ ~group)

\* An agent that ends is reported, even when something that escaped its group
\* keeps its pipes open for ever and the writer is stuck on one (stdio.rs `watch`).
ExitIsTold == leader = "exited" ~> watch = "done"
=============================================================================
