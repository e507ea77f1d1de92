----------------------------- MODULE StdioProofs -----------------------------
(***************************************************************************)
(* What Stdio promises for any agent, whatever it starts and whatever      *)
(* escapes its group, and for pipes and queues of any capacity: the types, *)
(* that no signal goes astray, and that the exit is told last.             *)
(***************************************************************************)
EXTENDS Stdio, FiniteSetTheorems, TLAPS

USE StdioAssumption

(***************************************************************************)
(* The invariant.                                                          *)
(***************************************************************************)
\* What is killed is over with its group, and what is reaped was killed: a
\* second kill signals nothing.
KillsAreOnce ==
  /\ terminated => leader # "runs" /\ ~group
  /\ leader = "reaped" => terminated
  /\ ~stray

\* What the group is owed is what of its lines is in the pipe or in the reader's
\* hands, and more once the client takes no frames.
GroupLines(s) == {k \in 1..Len(s) : s[k] = "group"}
One(l) == IF l = "group" THEN 1 ELSE 0
Unread == Cardinality(GroupLines(stdout)) + One(line)
LinesAreOwed == Unread <= owed /\ (reading => owed = Unread)

\* A reader that is done saw the end of a pipe the group no longer writes to.
ReaderIsDone ==
  /\ line # NoLine => reader \in {"announcing", "delivering"}
  /\ reader = "failing" => broke
  /\ reader = "done" => \/ broke \/ ~reading
                        \/ GroupLines(stdout) = {} /\ leader # "runs" /\ ~group

\* A report is of an agent reaped, and comes after the pumps.
ReportIsLate ==
  /\ watch \in Reporting \ {"waiting"} => leader = "reaped"
  /\ watch \in {"writer", "blaming", "remarking", "exiting"} => reader = "done" /\ console = "done"
  /\ watch \in {"blaming", "remarking", "exiting"} => writer = "done"

IInv == TypeOK /\ KillsAreOnce /\ LinesAreOwed /\ ReaderIsDone /\ ReportIsLate

(***************************************************************************)
(* Counting the group's lines.                                             *)
(***************************************************************************)
LEMMA LinesAreFinite ==
  ASSUME NEW s \in Seq(Lines)
  PROVE  IsFiniteSet(GroupLines(s)) /\ Cardinality(GroupLines(s)) \in Nat
<1>1. IsFiniteSet(1..Len(s)) /\ GroupLines(s) \subseteq 1..Len(s)
  BY FS_Interval DEF GroupLines
<1> QED BY <1>1, FS_Subset, FS_CardinalityType

\* A line written is one more, if it is the group's.
LEMMA WritingCounts ==
  ASSUME NEW s \in Seq(Lines), NEW who \in Lines
  PROVE  /\ Cardinality(GroupLines(Append(s, who))) = Cardinality(GroupLines(s)) + One(who)
         /\ who # "group" => GroupLines(Append(s, who)) = GroupLines(s)
<1> DEFINE n == Len(s) + 1
<1>1. CASE who = "group"
  <2>1. GroupLines(Append(s, who)) = GroupLines(s) \cup {n} /\ n \notin GroupLines(s)
    BY <1>1 DEF GroupLines
  <2> QED BY <1>1, <2>1, LinesAreFinite, FS_AddElement DEF One
<1>2. CASE who # "group"
  <2>1. GroupLines(Append(s, who)) = GroupLines(s)
    BY <1>2 DEF GroupLines
  <2> QED BY <1>2, <2>1, LinesAreFinite DEF One
<1> QED BY <1>1, <1>2

\* A line read is one less in the pipe: the others move up.
LEMMA ReadingCounts ==
  ASSUME NEW s \in Seq(Lines), s # <<>>
  PROVE  /\ Tail(s) \in Seq(Lines) /\ Head(s) \in Lines /\ Len(Tail(s)) < Len(s)
         /\ Cardinality(GroupLines(s)) = Cardinality(GroupLines(Tail(s))) + One(Head(s))
<1>1. /\ Tail(s) \in Seq(Lines) /\ Head(s) = s[1] /\ s[1] \in Lines /\ Len(s) \in Nat \ {0}
      /\ Len(Tail(s)) = Len(s) - 1 /\ \A k \in 1..Len(Tail(s)) : Tail(s)[k] = s[k + 1]
  OBVIOUS
<1> DEFINE S == GroupLines(Tail(s))
           T == GroupLines(s) \ {1}
           f == [k \in S |-> k + 1]
<1>2. f \in Bijection(S, T)
  <2>1. f \in [S -> T]
    BY <1>1 DEF GroupLines
  <2>2. \A j, k \in S : f[j] = f[k] => j = k
    BY DEF GroupLines
  <2>3. ASSUME NEW k \in T PROVE \E j \in S : f[j] = k
    <3>1. k - 1 \in S /\ (k - 1) + 1 = k
      BY <1>1, <2>3 DEF GroupLines
    <3> QED BY <3>1
  <2> QED BY <2>1, <2>2, <2>3 DEF Bijection, Injection, Surjection, IsInjective
<1>3. ExistsBijection(S, T)
  BY <1>2 DEF ExistsBijection
<1>4. Cardinality(T) = Cardinality(S)
  BY <1>1, <1>3, LinesAreFinite, FS_Bijection
<1>5. Cardinality(T) = IF 1 \in GroupLines(s) THEN Cardinality(GroupLines(s)) - 1
                       ELSE Cardinality(GroupLines(s))
  BY LinesAreFinite, FS_RemoveElement
<1>6. 1 \in GroupLines(s) <=> Head(s) = "group"
  BY <1>1 DEF GroupLines
<1>7. Cardinality(GroupLines(s)) \in Nat /\ Cardinality(S) \in Nat
  BY <1>1, LinesAreFinite
<1> QED BY <1>1, <1>4, <1>5, <1>6, <1>7 DEF One

(***************************************************************************)
(* The agent: what dies stays dead, and is killed once.                    *)
(***************************************************************************)
\* The agent's life and its group's only run one way.
Ages ==
  /\ leader # "runs" => leader' # "runs"
  /\ leader = "reaped" => leader' = "reaped"
  /\ group' => group

LEMMA TerminateAges ==
  ASSUME TypeOK, KillsAreOnce, NEW as \in {"exited", "killed", "reaped"}, Terminate(as),
         leader = "reaped" => as = "reaped"
  PROVE  KillsAreOnce' /\ Ages /\ leader' = as /\ ~group'
  BY DEF TypeOK, KillsAreOnce, Ages, Terminate

LEMMA KillsKeep ==
  TypeOK /\ KillsAreOnce /\ [Next]_vars => KillsAreOnce' /\ Ages
<1> SUFFICES ASSUME TypeOK, KillsAreOnce, [Next]_vars PROVE KillsAreOnce' /\ Ages
  OBVIOUS
<1>1. ASSUME UNCHANGED <<agent, stray>> PROVE KillsAreOnce' /\ Ages
  BY <1>1 DEF agent, KillsAreOnce, Ages
<1>2. ASSUME leader' = "exited", leader = "runs", UNCHANGED <<group, terminated, stray>>
      PROVE  KillsAreOnce' /\ Ages
  BY <1>2 DEF KillsAreOnce, Ages
<1>3. ASSUME Terminate(Dead) PROVE KillsAreOnce' /\ Ages
  <2>1. Dead \in {"exited", "killed", "reaped"} /\ (leader = "reaped" => Dead = "reaped")
    BY DEF Dead, TypeOK
  <2> QED BY <1>3, <2>1, TerminateAges
<1>4. ASSUME Reap PROVE KillsAreOnce' /\ Ages
  <2>1. CASE leader = "reaped"
    BY <1>1, <1>4, <2>1 DEF Reap
  <2>2. CASE leader # "reaped"
    BY <1>4, <2>2, TerminateAges DEF Reap
  <2> QED BY <2>1, <2>2
<1>5. CASE Writer \/ WriterWrites
  BY <1>1, <1>5 DEF Writer, WriterTakes, WriterEnds, WriterFails, WriterReports, WriterWrites
<1>6. CASE Reader \/ ReaderBreaks
  BY <1>1, <1>6 DEF Reader, ReaderReads, ReaderAnnounces, ReaderDelivers, ReaderEnds, ReaderReports,
                    ReaderBreaks, ReaderUnchanged
<1>7. CASE Console \/ ConsoleReads
  BY <1>1, <1>7 DEF Console, ConsoleSays, ConsoleEnds, ConsoleReads, ConsoleUnchanged
<1>8. CASE Watch
  <2>1. CASE SeesExit
    BY <1>4, <2>1 DEF SeesExit
  <2>2. CASE DrainEnds \/ DrainWaits \/ WriterJoins \/ AbortsWriter
    BY <1>1, <2>2 DEF DrainEnds, DrainWaits, WriterJoins, AbortsWriter
  <2>3. CASE Blames \/ Remarks \/ TellsExit
    BY <1>1, <2>3 DEF Blames, Remarks, TellsExit, Notice
  <2>4. CASE SeesShutdown
    BY <1>1, <1>3, <2>4 DEF SeesShutdown
  <2>5. ASSUME NEW step, NEW by, Found(step, by) PROVE KillsAreOnce' /\ Ages
    BY <1>4, <2>5 DEF Found
  <2>6. CASE AsksStdin \/ AsksTerm
    BY <1>1, <2>6 DEF AsksStdin, AsksTerm
  <2>7. CASE Kills
    BY <2>7, TerminateAges DEF Kills
  <2>8. CASE TellsStopped
    BY <1>3, <2>8 DEF TellsStopped
  <2> QED BY <1>8, <2>1, <2>2, <2>3, <2>4, <2>5, <2>6, <2>7, <2>8 DEF Watch, Stops
<1>9. CASE World
  <2>1. CASE AgentExits
    BY <1>2, <2>1 DEF AgentExits, Outside
  <2>2. CASE EscapeeLeaves
    BY <2>2 DEF EscapeeLeaves, Outside, KillsAreOnce, Ages
  <2>3. ASSUME NEW who \in Lines, Writes(who) PROVE KillsAreOnce' /\ Ages
    BY <1>1, <2>3 DEF Writes, Outside
  <2>4. CASE Send \/ Receive \/ Hear \/ LetsGo
    BY <1>1, <2>4 DEF Send, Receive, Hear, LetsGo
  <2>5. ASSUME NEW gracefully \in BOOLEAN, Shutdown(gracefully) PROVE KillsAreOnce' /\ Ages
    BY <1>1, <1>3, <2>5 DEF Shutdown
  <2>6. CASE Kill
    BY <1>3, <2>6 DEF Kill
  <2> QED BY <1>9, <2>1, <2>2, <2>3, <2>4, <2>5, <2>6 DEF World
<1>10. CASE UNCHANGED vars
  BY <1>1, <1>10 DEF vars, history
<1> QED BY <1>5, <1>6, <1>7, <1>8, <1>9, <1>10 DEF Next

(***************************************************************************)
(* The group's lines: none is lost, and none comes once the group is gone. *)
(***************************************************************************)
\* What a step that moves no line leaves as it is.
LEMMA LinesStay ==
  ASSUME UNCHANGED <<stdout, line>>
  PROVE  Unread' = Unread /\ GroupLines(stdout)' = GroupLines(stdout)
  BY DEF Unread

LEMMA UnreadIsCounted ==
  ASSUME TypeOK
  PROVE  Unread \in Nat /\ One(line) \in {0, 1} /\ Cardinality(GroupLines(stdout)) \in Nat
  BY LinesAreFinite DEF TypeOK, Unread, One

\* What each step does to the lines, to the reader and to who takes them.
LinesMove ==
  \/ ReaderReads \/ ReaderDelivers \/ ReaderEnds \/ ReaderBreaks \/ DrainWaits
  \/ \E who \in Lines : Writes(who)
Settles == \/ reader' = reader
           \/ reader = "announcing" /\ reader' = "delivering"
           \/ reader = "failing" /\ reader' = "done"

LEMMA OthersMoveNoLine ==
  ASSUME [Next]_vars, ~LinesMove
  PROVE  UNCHANGED <<stdout, line, owed, broke>> /\ Settles /\ (reading' => reading)
<1> DEFINE Fine == UNCHANGED <<stdout, line, owed, broke>> /\ Settles /\ (reading' => reading)
<1>1. CASE Writer \/ WriterWrites
  BY <1>1 DEF Writer, WriterTakes, WriterEnds, WriterFails, WriterReports, WriterWrites, Settles, queues
<1>2. CASE ReaderAnnounces \/ ReaderReports
  BY <1>2 DEF ReaderAnnounces, ReaderReports, ReaderUnchanged, Settles
<1>3. CASE Console \/ ConsoleReads
  BY <1>3 DEF Console, ConsoleSays, ConsoleEnds, ConsoleReads, ConsoleUnchanged, Settles
<1>4. CASE Watch
  <2>1. CASE SeesExit \/ DrainEnds \/ WriterJoins \/ AbortsWriter \/ SeesShutdown
    BY <2>1 DEF SeesExit, DrainEnds, WriterJoins, AbortsWriter, SeesShutdown, WatchUnchanged, Settles
  <2>2. CASE Blames \/ Remarks \/ TellsExit
    BY <2>2 DEF Blames, Remarks, TellsExit, Notice, WatchUnchanged, Settles
  <2>3. ASSUME NEW step, NEW by, Found(step, by) PROVE Fine
    BY <2>3 DEF Found, StopUnchanged, WatchUnchanged, Settles
  <2>4. CASE AsksStdin \/ AsksTerm \/ Kills \/ TellsStopped
    BY <2>4 DEF AsksStdin, AsksTerm, Kills, TellsStopped, StopUnchanged, WatchUnchanged, Settles
  <2> QED BY <1>4, <2>1, <2>2, <2>3, <2>4 DEF Watch, Stops, LinesMove
<1>5. CASE World
  <2>1. CASE AgentExits \/ EscapeeLeaves
    BY <2>1 DEF AgentExits, EscapeeLeaves, Outside, pumps, Settles
  <2>2. CASE Send \/ Receive \/ Hear \/ Kill \/ LetsGo
    BY <2>2 DEF Send, Receive, Hear, Kill, LetsGo, ClientUnchanged, queues, pumps, Settles
  <2>3. ASSUME NEW gracefully \in BOOLEAN, Shutdown(gracefully) PROVE Fine
    BY <2>3 DEF Shutdown, ClientUnchanged, queues, pumps, Settles
  <2> QED BY <1>5, <2>1, <2>2, <2>3 DEF World, LinesMove
<1>6. CASE UNCHANGED vars
  BY <1>6 DEF vars, queues, pumps, history, Settles
<1> QED BY <1>1, <1>2, <1>3, <1>4, <1>5, <1>6 DEF Next, Reader, LinesMove

LEMMA LinesKeep ==
  ASSUME TypeOK, KillsAreOnce, LinesAreOwed, ReaderIsDone, ReportIsLate, Ages, [Next]_vars
  PROVE  LinesAreOwed' /\ ReaderIsDone'
<1>0. /\ Unread \in Nat /\ One(line) \in {0, 1} /\ Cardinality(GroupLines(stdout)) \in Nat
      /\ owed \in Nat
  BY UnreadIsCounted DEF TypeOK
<1>1. CASE ~LinesMove
  <2>1. UNCHANGED <<stdout, line, owed, broke>> /\ Settles /\ (reading' => reading)
    BY <1>1, OthersMoveNoLine
  <2>2. Unread' = Unread /\ GroupLines(stdout)' = GroupLines(stdout)
    BY <2>1, LinesStay
  <2>3. LinesAreOwed'
    BY <2>1, <2>2 DEF LinesAreOwed
  <2>4. ReaderIsDone'
    BY <2>1, <2>2 DEF ReaderIsDone, Settles, Ages
  <2> QED BY <2>3, <2>4
<1>2. CASE ReaderReads
  <2>1. /\ stdout \in Seq(Lines) /\ stdout # <<>> /\ line = NoLine /\ line' = Head(stdout)
        /\ stdout' = Tail(stdout) /\ reader' \in {"announcing", "delivering"}
        /\ UNCHANGED <<owed, reading>>
    BY <1>2 DEF ReaderReads, ReaderUnchanged, ReaderIsDone, TypeOK
  <2>2. Cardinality(GroupLines(stdout)) = Cardinality(GroupLines(stdout')) + One(line')
    BY <2>1, ReadingCounts
  <2>3. One(line) = 0
    BY <2>1 DEF One, NoLine
  <2>4. Unread = Cardinality(GroupLines(stdout)) /\ Unread' = Cardinality(GroupLines(stdout')) + One(line')
    BY <1>0, <2>3 DEF Unread
  <2>5. LinesAreOwed'
    BY <2>1, <2>2, <2>4 DEF LinesAreOwed
  <2> QED BY <2>1, <2>5 DEF ReaderIsDone
<1>3. CASE ReaderDelivers
  <2>1. stdout' = stdout /\ line' = NoLine /\ UNCHANGED <<reading, broke>> /\ reader = "delivering"
    BY <1>3 DEF ReaderDelivers, ReaderUnchanged
  <2>2. Unread' = Unread - One(line)
    <3>1. One(line') = 0
      BY <2>1 DEF One, NoLine
    <3>2. Unread' = Cardinality(GroupLines(stdout))
      BY <1>0, <2>1, <3>1 DEF Unread
    <3> QED BY <1>0, <3>2 DEF Unread
  <2>3. CASE reading
    <3>1. owed' = owed - One(line) /\ reader' = "waiting"
      BY <1>0, <1>3, <2>3 DEF ReaderDelivers, One
    <3>2. LinesAreOwed'
      BY <1>0, <2>1, <2>2, <2>3, <3>1 DEF LinesAreOwed
    <3> QED BY <2>1, <3>1, <3>2 DEF ReaderIsDone
  <2>4. CASE ~reading
    <3>1. owed' = owed
      BY <1>3, <2>4 DEF ReaderDelivers
    <3>2. LinesAreOwed'
      BY <1>0, <2>1, <2>2, <2>4, <3>1 DEF LinesAreOwed
    <3> QED BY <1>3, <2>1, <2>4, <3>2 DEF ReaderIsDone, ReaderDelivers
  <2> QED BY <2>3, <2>4
<1>4. CASE ReaderEnds \/ ReaderBreaks \/ DrainWaits
  <2>1. UNCHANGED <<stdout, line, owed, reading>>
    BY <1>4 DEF ReaderEnds, ReaderBreaks, DrainWaits, ReaderUnchanged, WatchUnchanged
  <2>2. Unread' = Unread /\ GroupLines(stdout)' = GroupLines(stdout)
    BY <2>1, LinesStay
  <2>3. LinesAreOwed'
    BY <2>1, <2>2 DEF LinesAreOwed
  <2>4. CASE ReaderEnds
    <3>1. GroupLines(stdout) = {} /\ leader # "runs" /\ ~group /\ reader' = "done" /\ line = NoLine
      BY <2>4 DEF ReaderEnds, Held, GroupLines, ReaderIsDone
    <3> QED BY <2>1, <2>2, <2>3, <3>1 DEF ReaderIsDone, Ages
  <2>5. CASE ReaderBreaks
    BY <2>1, <2>3, <2>5 DEF ReaderBreaks, ReaderIsDone
  <2>6. CASE DrainWaits
    <3>1. leader # "runs" /\ ~group /\ UNCHANGED broke
      BY <2>6 DEF DrainWaits, ReportIsLate, Reporting, KillsAreOnce, WatchUnchanged
    <3>2. CASE reader' = reader
      BY <2>1, <2>2, <2>3, <3>1, <3>2 DEF ReaderIsDone, Ages
    <3>3. CASE reader' # reader
      <4>1. reader' = "done" /\ Stalled("reader") /\ (Waits("reader") => HasNothing("reader"))
        BY <2>6, <3>3 DEF DrainWaits, TypeOK
      <4>2. reader = "waiting" /\ stdout = <<>>
        BY <3>3, <4>1 DEF Stalled, Over, Waits, HasNothing
      <4>3. GroupLines(stdout) = {} /\ line = NoLine
        BY <4>2 DEF GroupLines, ReaderIsDone
      <4> QED BY <2>1, <2>2, <2>3, <3>1, <4>1, <4>3 DEF ReaderIsDone, Ages
    <3> QED BY <3>2, <3>3
  <2> QED BY <1>4, <2>4, <2>5, <2>6
<1>5. ASSUME NEW who \in Lines, Writes(who) PROVE LinesAreOwed' /\ ReaderIsDone'
  <2>1. /\ stdout \in Seq(Lines) /\ stdout' = Append(stdout, who)
        /\ UNCHANGED <<line, reading, reader, broke, leader, group>>
        /\ owed' = owed + One(who) /\ (who = "group" => leader = "runs" \/ group)
    BY <1>0, <1>5 DEF Writes, Outside, pumps, agent, One, TypeOK
  <2>2. /\ Cardinality(GroupLines(stdout')) = Cardinality(GroupLines(stdout)) + One(who)
        /\ who # "group" => GroupLines(stdout') = GroupLines(stdout)
    BY <2>1, WritingCounts
  <2>3. One(who) \in {0, 1}
    BY DEF One
  <2>4. Unread' = Unread + One(who)
    BY <1>0, <2>1, <2>2, <2>3 DEF Unread
  <2>5. LinesAreOwed'
    BY <1>0, <2>1, <2>3, <2>4 DEF LinesAreOwed
  <2> QED BY <2>1, <2>2, <2>5 DEF ReaderIsDone
<1> QED BY <1>1, <1>2, <1>3, <1>4, <1>5 DEF LinesMove

(***************************************************************************)
(* The report: in its order, each step of it after the one before.         *)
(***************************************************************************)
LEMMA ReportKeeps ==
  ASSUME TypeOK, KillsAreOnce, ReportIsLate, Ages, [Next]_vars
  PROVE  ReportIsLate'
<1> DEFINE Over3 == /\ reader = "done" => reader' = "done"
                    /\ console = "done" => console' = "done"
                    /\ writer = "done" => writer' = "done"
<1>1. ASSUME UNCHANGED watch, Over3 PROVE ReportIsLate'
  BY <1>1 DEF ReportIsLate, Ages
<1>2. CASE Writer \/ WriterWrites
  BY <1>1, <1>2 DEF Writer, WriterTakes, WriterEnds, WriterFails, WriterReports, WriterWrites,
                    WriterStops, watching
<1>3. CASE Reader \/ ReaderBreaks
  BY <1>1, <1>3 DEF Reader, ReaderReads, ReaderAnnounces, ReaderDelivers, ReaderEnds, ReaderReports,
                    ReaderBreaks, ReaderUnchanged, watching
<1>4. CASE Console \/ ConsoleReads
  BY <1>1, <1>4 DEF Console, ConsoleSays, ConsoleEnds, ConsoleReads, ConsoleUnchanged, watching
<1>5. CASE Watch
  <2>1. CASE SeesExit
    BY <2>1 DEF SeesExit, Reap, Terminate, agent, ReportIsLate, Reporting
  <2>2. CASE DrainEnds
    BY <2>2 DEF DrainEnds, Joined, ReportIsLate, Reporting, Ages
  <2>3. CASE DrainWaits
    BY <2>3 DEF DrainWaits, ReportIsLate, Reporting, Ages
  <2>4. CASE WriterJoins \/ AbortsWriter
    BY <2>4 DEF WriterJoins, AbortsWriter, WriterStops, ReportIsLate, Reporting, Ages
  <2>5. CASE Blames \/ Remarks \/ TellsExit
    BY <2>5 DEF Blames, Remarks, TellsExit, Notice, ReportIsLate, Reporting, Ages
  <2>6. CASE SeesShutdown
    BY <2>6 DEF SeesShutdown, ReportIsLate, Reporting
  <2>7. ASSUME NEW step, NEW by, Found(step, by) PROVE ReportIsLate'
    BY <2>7 DEF Found, ReportIsLate, Reporting
  <2>8. CASE AsksStdin \/ AsksTerm \/ Kills \/ TellsStopped
    BY <2>8 DEF AsksStdin, AsksTerm, Kills, TellsStopped, ReportIsLate, Reporting
  <2> QED BY <1>5, <2>1, <2>2, <2>3, <2>4, <2>5, <2>6, <2>7, <2>8 DEF Watch, Stops
<1>6. CASE World
  <2>1. CASE AgentExits \/ EscapeeLeaves
    BY <1>1, <2>1 DEF AgentExits, EscapeeLeaves, Outside, pumps, watching
  <2>2. ASSUME NEW who \in Lines, Writes(who) PROVE ReportIsLate'
    BY <1>1, <2>2 DEF Writes, Outside, pumps, watching
  <2>3. CASE Send \/ Receive \/ Hear \/ Kill \/ LetsGo
    BY <1>1, <2>3 DEF Send, Receive, Hear, Kill, LetsGo, ClientUnchanged, pumps, watching
  <2>4. ASSUME NEW gracefully \in BOOLEAN, Shutdown(gracefully) PROVE ReportIsLate'
    BY <1>1, <2>4 DEF Shutdown, ClientUnchanged, pumps, watching
  <2> QED BY <1>6, <2>1, <2>2, <2>3, <2>4 DEF World
<1>7. CASE UNCHANGED vars
  BY <1>1, <1>7 DEF vars, pumps, watching
<1> QED BY <1>2, <1>3, <1>4, <1>5, <1>6, <1>7 DEF Next

(***************************************************************************)
(* Types.                                                                  *)
(***************************************************************************)
\* The types, part by part.
AgentFits ==
  /\ leader \in {"runs", "exited", "killed", "reaped"} /\ group \in BOOLEAN
  /\ terminated \in BOOLEAN /\ holds \in SUBSET {"stdin", "stdout"}
LinesFit ==
  /\ stdout \in Seq(Lines) /\ Len(stdout) <= PipeCapacity
  /\ line \in Lines \cup {NoLine} /\ lines \in 0..MaxLines /\ owed \in Nat
QueuesFit ==
  /\ outgoing \in 0..FrameCapacity /\ incoming \in 0..FrameCapacity
  /\ diagnostics \in 0..DiagnosticCapacity
OpenFit == accepting \in BOOLEAN /\ reading \in BOOLEAN /\ listening \in BOOLEAN
PumpsFit ==
  /\ writer \in {"idle", "writing", "failing", "done"}
  /\ reader \in {"waiting", "announcing", "delivering", "failing", "done"}
  /\ console \in {"waiting", "saying", "drains", "done"}
  /\ moved \in [{"reader", "console"} -> BOOLEAN]
Watched == Reporting \cup {"asked", "closing", "terming", "killing", "saying", "done"}
WatchFits ==
  /\ graceful \in BOOLEAN /\ shutdown \in BOOLEAN /\ stopWriting \in BOOLEAN
  /\ watch \in Watched /\ abandoned \in BOOLEAN /\ verdict \in Verdicts \cup {"none"}

LEMMA TypeParts == TypeOK <=> AgentFits /\ LinesFit /\ QueuesFit /\ OpenFit /\ PumpsFit /\ WatchFits
  BY DEF TypeOK, AgentFits, LinesFit, QueuesFit, OpenFit, PumpsFit, WatchFits, Watched

LEMMA PartsTogether ==
  ASSUME AgentFits', LinesFit', QueuesFit', OpenFit', PumpsFit', WatchFits'
  PROVE  TypeOK'
  BY DEF TypeOK, AgentFits, LinesFit, QueuesFit, OpenFit, PumpsFit, WatchFits, Watched

LEMMA PartsStay ==
  ASSUME TypeOK
  PROVE  /\ UNCHANGED <<leader, group, terminated, holds>> => AgentFits'
         /\ UNCHANGED <<stdout, line, lines, owed>> => LinesFit'
         /\ UNCHANGED <<outgoing, incoming, diagnostics>> => QueuesFit'
         /\ UNCHANGED <<accepting, reading, listening>> => OpenFit'
         /\ UNCHANGED <<writer, reader, console, moved>> => PumpsFit'
         /\ UNCHANGED <<tokens, watching>> => WatchFits'
  BY TypeParts DEF AgentFits, LinesFit, QueuesFit, OpenFit, PumpsFit, WatchFits, tokens, watching

LEMMA SaysIsTyped ==
  ASSUME diagnostics \in 0..DiagnosticCapacity, Says
  PROVE  diagnostics' \in 0..DiagnosticCapacity
  BY DEF Says

LEMMA DyingIsTyped ==
  ASSUME TypeOK, NEW as \in {"exited", "killed", "reaped"}, Terminate(as)
  PROVE  AgentFits'
  BY DEF TypeOK, Terminate, AgentFits

LEMMA EndingIsTyped ==
  ASSUME TypeOK, Reap \/ Terminate(Dead)
  PROVE  AgentFits'
<1>1. CASE Terminate(Dead)
  <2>1. Dead \in {"exited", "killed", "reaped"}
    BY DEF Dead, TypeOK
  <2> QED BY <1>1, <2>1, DyingIsTyped
<1>2. CASE Reap
  BY <1>2, DyingIsTyped, PartsStay DEF Reap, agent
<1> QED BY <1>1, <1>2

LEMMA TypesKeep ==
  ASSUME TypeOK, LinesAreOwed, [Next]_vars
  PROVE  TypeOK'
<1>1. CASE WriterTakes \/ WriterEnds \/ WriterFails
  <2>1. UNCHANGED <<leader, group, terminated, holds, stdout, line, lines, owed, tokens,
                    watching>>
    BY <1>1 DEF WriterTakes, WriterEnds, WriterFails, WriterStops, agent, queues, tokens, pumps,
       watching
  <2>2. QueuesFit'
    BY <1>1, TypeParts DEF WriterTakes, WriterEnds, WriterFails, WriterStops, QueuesFit
  <2>3. OpenFit'
    BY <1>1, TypeParts DEF WriterTakes, WriterEnds, WriterFails, WriterStops, OpenFit
  <2>4. PumpsFit'
    BY <1>1, TypeParts DEF WriterTakes, WriterEnds, WriterFails, WriterStops, PumpsFit
  <2> QED BY <2>1, <2>2, <2>3, <2>4, PartsTogether, PartsStay
<1>2. CASE WriterWrites
  <2>1. UNCHANGED <<leader, group, terminated, holds, stdout, line, lines, owed, outgoing,
                    incoming, diagnostics, accepting, reading, listening, tokens, watching>>
    BY <1>2 DEF WriterWrites, agent, queues, tokens, pumps, watching
  <2>2. PumpsFit'
    BY <1>2, TypeParts DEF WriterWrites, PumpsFit
  <2> QED BY <2>1, <2>2, PartsTogether, PartsStay
<1>3. CASE WriterReports
  <2>1. UNCHANGED <<leader, group, terminated, holds, stdout, line, lines, owed, accepting,
                    reading, listening, tokens, watching>>
    BY <1>3 DEF WriterReports, agent, queues, tokens, pumps, watching
  <2>2. QueuesFit'
    BY <1>3, SaysIsTyped, TypeParts DEF WriterReports, QueuesFit
  <2>3. PumpsFit'
    BY <1>3, TypeParts DEF WriterReports, PumpsFit
  <2> QED BY <2>1, <2>2, <2>3, PartsTogether, PartsStay
<1>4. CASE ReaderReads
  <2>1. /\ Tail(stdout) \in Seq(Lines) /\ Head(stdout) \in Lines /\ Len(Tail(stdout)) < Len(stdout)
        /\ Len(stdout) \in Nat /\ Len(Tail(stdout)) \in Nat
    BY <1>4, ReadingCounts DEF ReaderReads, TypeOK
  <2>2. UNCHANGED <<leader, group, terminated, holds, outgoing, incoming, diagnostics,
                    accepting, reading, listening, tokens, watching>>
    BY <1>4 DEF ReaderReads, ReaderUnchanged, agent, queues, tokens, pumps, watching
  <2>3. LinesFit'
    BY <1>4, <2>1, TypeParts DEF ReaderReads, ReaderUnchanged, LinesFit
  <2>4. PumpsFit'
    BY <1>4, TypeParts DEF ReaderReads, ReaderUnchanged, PumpsFit, Moves
  <2> QED BY <2>2, <2>3, <2>4, PartsTogether, PartsStay
<1>5. CASE ReaderDelivers
  <2>1. owed' \in Nat
    BY <1>5, UnreadIsCounted DEF ReaderDelivers, LinesAreOwed, Unread, One, TypeOK
  <2>2. UNCHANGED <<leader, group, terminated, holds, accepting, reading, listening, tokens,
                    watching>>
    BY <1>5 DEF ReaderDelivers, ReaderUnchanged, agent, queues, tokens, pumps, watching
  <2>3. LinesFit'
    BY <1>5, <2>1, TypeParts DEF ReaderDelivers, ReaderUnchanged, LinesFit
  <2>4. QueuesFit'
    BY <1>5, TypeParts DEF ReaderDelivers, ReaderUnchanged, QueuesFit
  <2>5. PumpsFit'
    BY <1>5, TypeParts DEF ReaderDelivers, ReaderUnchanged, PumpsFit
  <2> QED BY <2>2, <2>3, <2>4, <2>5, PartsTogether, PartsStay
<1>6. CASE ReaderAnnounces \/ ReaderReports
  <2>1. UNCHANGED <<leader, group, terminated, holds, stdout, line, lines, owed, accepting,
                    reading, listening, tokens, watching>>
    BY <1>6 DEF ReaderAnnounces, ReaderReports, ReaderUnchanged, agent, queues, tokens, pumps,
       watching
  <2>2. QueuesFit'
    BY <1>6, SaysIsTyped, TypeParts DEF ReaderAnnounces, ReaderReports, ReaderUnchanged,
       QueuesFit
  <2>3. PumpsFit'
    BY <1>6, TypeParts DEF ReaderAnnounces, ReaderReports, ReaderUnchanged, PumpsFit
  <2> QED BY <2>1, <2>2, <2>3, PartsTogether, PartsStay
<1>7. CASE ReaderEnds \/ ReaderBreaks
  <2>1. UNCHANGED <<leader, group, terminated, holds, stdout, line, lines, owed, outgoing,
                    incoming, diagnostics, accepting, reading, listening, tokens, watching>>
    BY <1>7 DEF ReaderEnds, ReaderBreaks, ReaderUnchanged, agent, queues, tokens, pumps,
       watching
  <2>2. PumpsFit'
    BY <1>7, TypeParts DEF ReaderEnds, ReaderBreaks, ReaderUnchanged, PumpsFit, Moves
  <2> QED BY <2>1, <2>2, PartsTogether, PartsStay
<1>8. CASE ConsoleReads \/ ConsoleEnds
  <2>1. UNCHANGED <<leader, group, terminated, holds, stdout, line, lines, owed, outgoing,
                    incoming, diagnostics, accepting, reading, listening, tokens, watching>>
    BY <1>8 DEF ConsoleReads, ConsoleEnds, ConsoleUnchanged, agent, queues, tokens, pumps,
       watching
  <2>2. PumpsFit'
    BY <1>8, TypeParts DEF ConsoleReads, ConsoleEnds, ConsoleUnchanged, PumpsFit, Moves
  <2> QED BY <2>1, <2>2, PartsTogether, PartsStay
<1>9. CASE ConsoleSays
  <2>1. UNCHANGED <<leader, group, terminated, holds, stdout, line, lines, owed, accepting,
                    reading, listening, tokens, watching>>
    BY <1>9 DEF ConsoleSays, ConsoleUnchanged, agent, queues, tokens, pumps, watching
  <2>2. QueuesFit'
    BY <1>9, SaysIsTyped, TypeParts DEF ConsoleSays, ConsoleUnchanged, QueuesFit
  <2>3. PumpsFit'
    BY <1>9, TypeParts DEF ConsoleSays, ConsoleUnchanged, PumpsFit
  <2> QED BY <2>1, <2>2, <2>3, PartsTogether, PartsStay
<1>10. CASE SeesExit
  <2>1. UNCHANGED <<stdout, line, lines, owed, outgoing, incoming, diagnostics, accepting,
                    reading, listening>>
    BY <1>10 DEF SeesExit, WatchUnchanged, agent, queues, tokens, pumps, watching
  <2>2. AgentFits'
    BY <1>10, EndingIsTyped DEF SeesExit
  <2>3. PumpsFit'
    BY <1>10, TypeParts DEF SeesExit, WatchUnchanged, PumpsFit
  <2>4. WatchFits'
    BY <1>10, TypeParts DEF SeesExit, WatchUnchanged, WatchFits, Watched, Reporting
  <2> QED BY <2>1, <2>2, <2>3, <2>4, PartsTogether, PartsStay
<1>11. CASE SeesShutdown
  <2>1. UNCHANGED <<stdout, line, lines, owed, outgoing, incoming, diagnostics, accepting,
                    reading, listening>>
    BY <1>11 DEF SeesShutdown, WatchUnchanged, agent, queues, tokens, pumps, watching
  <2>2. AgentFits'
    BY <1>11, EndingIsTyped, PartsStay DEF SeesShutdown, agent
  <2>3. PumpsFit'
    BY <1>11, TypeParts DEF SeesShutdown, WatchUnchanged, PumpsFit
  <2>4. WatchFits'
    BY <1>11, TypeParts DEF SeesShutdown, WatchUnchanged, WatchFits, Watched, Reporting
  <2> QED BY <2>1, <2>2, <2>3, <2>4, PartsTogether, PartsStay
<1>12. CASE DrainEnds \/ DrainWaits
  <2>1. UNCHANGED <<leader, group, terminated, holds, stdout, line, lines, owed, outgoing,
                    incoming, diagnostics, accepting, reading, listening>>
    BY <1>12 DEF DrainEnds, DrainWaits, WatchUnchanged, agent, queues, tokens, pumps, watching
  <2>2. PumpsFit'
    BY <1>12, TypeParts DEF DrainEnds, DrainWaits, WatchUnchanged, PumpsFit
  <2>3. WatchFits'
    BY <1>12, TypeParts DEF DrainEnds, DrainWaits, WatchUnchanged, WatchFits, Watched, Reporting
  <2> QED BY <2>1, <2>2, <2>3, PartsTogether, PartsStay
<1>13. CASE WriterJoins \/ AbortsWriter
  <2>1. UNCHANGED <<leader, group, terminated, holds, stdout, line, lines, owed>>
    BY <1>13 DEF WriterJoins, AbortsWriter, WriterStops, WatchUnchanged, agent, queues, tokens,
       pumps, watching
  <2>2. QueuesFit'
    BY <1>13, TypeParts DEF WriterJoins, AbortsWriter, WriterStops, WatchUnchanged, QueuesFit
  <2>3. OpenFit'
    BY <1>13, TypeParts DEF WriterJoins, AbortsWriter, WriterStops, WatchUnchanged, OpenFit
  <2>4. PumpsFit'
    BY <1>13, TypeParts DEF WriterJoins, AbortsWriter, WriterStops, WatchUnchanged, PumpsFit
  <2>5. WatchFits'
    BY <1>13, TypeParts DEF WriterJoins, AbortsWriter, WriterStops, WatchUnchanged, WatchFits,
       Watched, Reporting
  <2> QED BY <2>1, <2>2, <2>3, <2>4, <2>5, PartsTogether, PartsStay
<1>14. CASE Blames \/ Remarks \/ TellsExit
  <2>1. UNCHANGED <<leader, group, terminated, holds, stdout, line, lines, owed, accepting,
                    reading, listening, writer, reader, console, moved>>
    BY <1>14 DEF Blames, Remarks, TellsExit, Notice, WatchUnchanged, agent, queues, tokens,
       pumps, watching
  <2>2. QueuesFit'
    BY <1>14, SaysIsTyped, TypeParts DEF Blames, Remarks, TellsExit, Notice, WatchUnchanged,
       QueuesFit
  <2>3. WatchFits'
    BY <1>14, TypeParts DEF Blames, Remarks, TellsExit, Notice, WatchUnchanged, WatchFits,
       Watched, Reporting
  <2> QED BY <2>1, <2>2, <2>3, PartsTogether, PartsStay
<1>15. ASSUME NEW step, NEW by \in Verdicts, Found(step, by) PROVE TypeOK'
  <2>1. UNCHANGED <<stdout, line, lines, owed, outgoing, incoming, diagnostics, accepting,
                    reading, listening, writer, reader, console, moved>>
    BY <1>15 DEF Found, StopUnchanged, WatchUnchanged, agent, queues, tokens, pumps, watching
  <2>2. AgentFits'
    BY <1>15, EndingIsTyped DEF Found
  <2>3. WatchFits'
    BY <1>15, TypeParts DEF Found, StopUnchanged, WatchUnchanged, WatchFits, Watched, Reporting
  <2> QED BY <2>1, <2>2, <2>3, PartsTogether, PartsStay
<1>16. CASE AsksStdin \/ AsksTerm
  <2>1. UNCHANGED <<leader, group, terminated, holds, stdout, line, lines, owed, outgoing,
                    incoming, diagnostics, accepting, reading, listening, writer, reader,
                    console, moved>>
    BY <1>16 DEF AsksStdin, AsksTerm, StopUnchanged, WatchUnchanged, agent, queues, tokens,
       pumps, watching
  <2>2. WatchFits'
    BY <1>16, TypeParts DEF AsksStdin, AsksTerm, StopUnchanged, WatchUnchanged, WatchFits,
       Watched, Reporting
  <2> QED BY <2>1, <2>2, PartsTogether, PartsStay
<1>17. CASE Kills
  <2>1. UNCHANGED <<stdout, line, lines, owed, outgoing, incoming, diagnostics, accepting,
                    reading, listening, writer, reader, console, moved>>
    BY <1>17 DEF Kills, StopUnchanged, WatchUnchanged, agent, queues, tokens, pumps, watching
  <2>2. AgentFits'
    BY <1>17, DyingIsTyped DEF Kills
  <2>3. WatchFits'
    BY <1>17, TypeParts DEF Kills, StopUnchanged, WatchUnchanged, WatchFits, Watched, Reporting
  <2> QED BY <2>1, <2>2, <2>3, PartsTogether, PartsStay
<1>18. CASE TellsStopped
  <2>1. UNCHANGED <<stdout, line, lines, owed, accepting, reading, listening, writer, reader,
                    console, moved>>
    BY <1>18 DEF TellsStopped, StopUnchanged, WatchUnchanged, agent, queues, tokens, pumps,
       watching
  <2>2. AgentFits'
    BY <1>18, EndingIsTyped DEF TellsStopped
  <2>3. QueuesFit'
    BY <1>18, SaysIsTyped, TypeParts DEF TellsStopped, StopUnchanged, WatchUnchanged, QueuesFit
  <2>4. WatchFits'
    BY <1>18, TypeParts DEF TellsStopped, StopUnchanged, WatchUnchanged, WatchFits, Watched,
       Reporting
  <2> QED BY <2>1, <2>2, <2>3, <2>4, PartsTogether, PartsStay
<1>19. CASE AgentExits \/ EscapeeLeaves
  <2>1. UNCHANGED <<stdout, line, lines, owed, outgoing, incoming, diagnostics, accepting,
                    reading, listening, writer, reader, console, moved, tokens, watching>>
    BY <1>19 DEF AgentExits, EscapeeLeaves, Outside, agent, queues, tokens, pumps, watching
  <2>2. AgentFits'
    BY <1>19, TypeParts DEF AgentExits, EscapeeLeaves, Outside, AgentFits
  <2> QED BY <2>1, <2>2, PartsTogether, PartsStay
<1>20. ASSUME NEW who \in Lines, Writes(who) PROVE TypeOK'
  <2>1. stdout' \in Seq(Lines) /\ Len(stdout') = Len(stdout) + 1 /\ Len(stdout) \in Nat
        /\ Len(stdout) < PipeCapacity
    BY <1>20 DEF Writes, TypeOK
  <2>2. owed' \in Nat /\ lines' \in 0..MaxLines /\ line' = line
    <3>1. /\ line' = line /\ owed \in Nat /\ lines \in 0..MaxLines
          /\ \/ owed' = owed + 1 /\ lines' = lines
             \/ lines < MaxLines /\ lines' = lines + 1 /\ owed' = owed
      BY <1>20 DEF Writes, Outside, pumps, TypeOK
    <3> QED BY <3>1
  <2>3. UNCHANGED <<leader, group, terminated, holds, outgoing, incoming, diagnostics,
                    accepting, reading, listening, writer, reader, console, moved, tokens,
                    watching>>
    BY <1>20 DEF Writes, Outside, agent, queues, tokens, pumps, watching
  <2>4. LinesFit'
    BY <1>20, <2>1, <2>2, TypeParts DEF LinesFit
  <2> QED BY <2>3, <2>4, PartsTogether, PartsStay
<1>21. CASE Send \/ Receive \/ Hear \/ LetsGo
  <2>1. UNCHANGED <<leader, group, terminated, holds, stdout, line, lines, owed, writer, reader,
                    console, moved, tokens, watching>>
    BY <1>21 DEF Send, Receive, Hear, LetsGo, ClientUnchanged, agent, queues, tokens, pumps,
       watching
  <2>2. QueuesFit'
    BY <1>21, TypeParts DEF Send, Receive, Hear, LetsGo, ClientUnchanged, QueuesFit
  <2>3. OpenFit'
    BY <1>21, TypeParts DEF Send, Receive, Hear, LetsGo, ClientUnchanged, OpenFit
  <2> QED BY <2>1, <2>2, <2>3, PartsTogether, PartsStay
<1>22. ASSUME NEW gracefully \in BOOLEAN, Shutdown(gracefully) \/ Kill PROVE TypeOK'
  <2>1. UNCHANGED <<stdout, line, lines, owed, outgoing, incoming, diagnostics, accepting,
                    reading, listening, writer, reader, console, moved>>
    BY <1>22 DEF Shutdown, Kill, ClientUnchanged, agent, queues, tokens, pumps, watching
  <2>2. AgentFits'
    BY <1>22, EndingIsTyped, PartsStay DEF Shutdown, Kill, agent
  <2>3. WatchFits'
    BY <1>22, TypeParts DEF Shutdown, Kill, ClientUnchanged, WatchFits, watching
  <2> QED BY <2>1, <2>2, <2>3, PartsTogether, PartsStay
<1>23. CASE UNCHANGED vars
  BY <1>23, PartsStay, PartsTogether DEF vars, history, agent, queues, tokens, pumps, watching
<1>24. CASE Watch
  BY <1>10, <1>11, <1>12, <1>13, <1>14, <1>15, <1>16, <1>17, <1>18, <1>24 DEF Watch, Stops, Verdicts
<1>25. CASE World
  BY <1>19, <1>20, <1>21, <1>22, <1>25 DEF World
<1> QED BY <1>1, <1>2, <1>3, <1>4, <1>5, <1>6, <1>7, <1>8, <1>9, <1>23, <1>24, <1>25
        DEF Next, Writer, Reader, Console

(***************************************************************************)
(* The theorems.                                                           *)
(***************************************************************************)
LEMMA InitIInv == Init => IInv
<1> SUFFICES ASSUME Init PROVE IInv
  OBVIOUS
<1>1. TypeOK
  <2>1. AgentFits
    BY DEF Init, AgentFits
  <2>2. LinesFit
    BY DEF Init, LinesFit, NoLine
  <2>3. QueuesFit /\ OpenFit
    BY DEF Init, QueuesFit, OpenFit
  <2>4. PumpsFit /\ WatchFits
    BY DEF Init, PumpsFit, WatchFits, Watched, Reporting
  <2> QED BY <2>1, <2>2, <2>3, <2>4, TypeParts
<1>2. GroupLines(stdout) = {} /\ One(line) = 0
  BY DEF Init, GroupLines, One, NoLine
<1>3. Unread = 0
  BY <1>2, FS_EmptySet DEF Unread
<1>4. LinesAreOwed
  BY <1>3 DEF Init, LinesAreOwed
<1> QED BY <1>1, <1>4 DEF Init, IInv, KillsAreOnce, ReaderIsDone, ReportIsLate

LEMMA NextKeeps == IInv /\ [Next]_vars => IInv'
  BY KillsKeep, LinesKeep, ReportKeeps, TypesKeep DEF IInv

LEMMA Inductive == Spec => []IInv
  BY InitIInv, NextKeeps, PTL DEF Spec

\* Whatever dies, is stopped, killed or reaped in whatever order, no signal goes
\* to the group once its number may be another's, and every queue, pump and
\* step of the watch is within its type (process.rs `terminate`, `try_wait`).
THEOREM OwnSignals == Spec => []SignalsAreOwn
<1>1. IInv => SignalsAreOwn
  BY DEF IInv, KillsAreOnce, SignalsAreOwn, NoStraySignal
<1> QED BY <1>1, Inductive, PTL

\* The exit is the last thing told: after the pumps, and after everything the
\* agent and its group wrote was handed on, however long their lines, full the
\* queues, and whatever an escaped process holds (stdio.rs `watch`, `drain`).
THEOREM LateExit == Spec => EvidenceBeforeExit
<1>1. IInv /\ [Next]_vars =>
        [TellsExit => /\ {reader, console, writer} = {"done"}
                      /\ owed = 0 \/ broke \/ ~reading]_vars
  <2> SUFFICES ASSUME IInv, TellsExit
               PROVE  /\ {reader, console, writer} = {"done"}
                      /\ owed = 0 \/ broke \/ ~reading
    OBVIOUS
  <2>1. reader = "done" /\ console = "done" /\ writer = "done"
    BY DEF IInv, ReportIsLate, TellsExit, Notice
  <2>2. ASSUME ~broke, reading PROVE owed = 0
    <3>1. GroupLines(stdout) = {} /\ line = NoLine
      BY <2>1, <2>2 DEF IInv, ReaderIsDone
    <3>2. Unread = 0
      BY <3>1, FS_EmptySet DEF Unread, One, NoLine
    <3> QED BY <2>2, <3>2 DEF IInv, LinesAreOwed
  <2> QED BY <2>1, <2>2
<1> QED BY <1>1, Inductive, PTL DEF Spec, EvidenceBeforeExit
=============================================================================
