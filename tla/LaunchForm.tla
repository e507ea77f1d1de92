------------------------------ MODULE LaunchForm ------------------------------
(***************************************************************************)
(* The Connect dialog (crates/app/src/spawn.rs, connect.rs,                *)
(* app/launch.rs): the fields a launch is made of, which the last launch,  *)
(* a remembered one and the first-run card all fill, the list of what was  *)
(* launched before, whose variable values may not have been kept, and the  *)
(* failure read back from what the launch wrote.  What the fields hold is  *)
(* core's AgentCommand (crates/core/src/command.rs): one program, and      *)
(* variables that are absent, named without a value, or set.  The MCP      *)
(* draft that also gates a launch is Servers, and the file the list is     *)
(* kept in is Kept.                                                        *)
(***************************************************************************)
EXTENDS Naturals, Sequences, FiniteSets, SequencesExt

CONSTANTS
  Programs,        \* programs, beside a whole command line
  Names,           \* variables a reader may set
  MaxRecent,       \* RecentCommands::CAPACITY
  MaxHeld,         \* what the diagnostics hold
  MaxLaunches, MaxLines, MaxActs   \* bounds: launches, lines written, edits

VARIABLES
  form,            \* command, env, remember
  missing,         \* values_missing
  confirmed,       \* recall_confirmation: the invocation it names, and whether it says values are missing
  followed, filled,  \* the launched one, and the prefill, the fields were last filled from
  launched,        \* Launch.launched
  prefill,         \* Launch.prefill
  recent,          \* the remembered ones, newest first
  task,            \* the launch under way, and how its start went
  launch,          \* its number
  mark, fresh,     \* launch_mark, and whether the window had seen every line then
  lines, gone,     \* the diagnostics, and how many they let go
  seen,            \* what the window last read of them, of the agent and of the status
  described, status, problem,
  recalled,        \* names whose value a row did not have, still to be typed
  acts

fields == <<form, missing, confirmed, followed, filled, recalled>>
starting == <<launched, task, launch, mark, fresh, problem>>
agent == <<described, status, lines, gone>>
vars == <<fields, starting, agent, prefill, recent, seen, acts>>

None == [command |-> "none"]
Unset == [n \in Names |-> "absent"]
Typed == [command: {"", "line"} \cup Programs, env: [Names -> {"absent", "blank", "set"}],
          remember: BOOLEAN]
Launchable == {e \in Typed : e.command # ""}

TypeOK ==
  /\ form \in Typed /\ missing \in BOOLEAN /\ recalled \subseteq Names
  /\ {launched, followed} \subseteq Launchable \cup {None}
  /\ recent \in Seq(Launchable) /\ Len(recent) <= MaxRecent
  /\ task \in {"none", "starts", "failed", "answered"}
  /\ status \in {"idle", "connected", "over", "failedToStart"} /\ described \in BOOLEAN
  /\ problem \in {"none", "disconnected", "other"} /\ Len(lines) <= MaxHeld

Init ==
  /\ form = [command |-> "", env |-> Unset, remember |-> FALSE]
  /\ missing = FALSE /\ confirmed = None /\ followed = None /\ filled = 0 /\ recalled = {}
  /\ launched = None /\ prefill = [nth |-> 0, entry |-> None]
  /\ recent = <<>> /\ task = "none" /\ launch = 0 /\ mark = 0 /\ fresh = TRUE
  /\ lines = <<>> /\ gone = 0
  /\ described = FALSE /\ status = "idle" /\ problem = "none"
  /\ seen = [lines |-> <<>>, gone |-> 0, described |-> FALSE, status |-> "idle"]
  /\ acts = 0

(***************************************************************************)
(* What an invocation is kept as.                                          *)
(***************************************************************************)
Variables(e) == {n \in Names : e.env[n] # "absent"}
HasEnvValues(e) == \E n \in Names : e.env[n] = "set"
EnvValuesMissing(e) == ~e.remember /\ Variables(e) # {} /\ ~HasEnvValues(e)

WithoutEnvValues(e) ==
  [e EXCEPT !.env = [n \in Names |-> IF @[n] = "absent" THEN "absent" ELSE "blank"],
            !.remember = FALSE]

Remembered(e) == IF e.remember /\ Variables(e) # {} THEN e ELSE WithoutEnvValues(e)

Recorded(list, e) ==
  LET others == SelectSeq(list, LAMBDA r : WithoutEnvValues(r) # WithoutEnvValues(e))
      all == <<Remembered(e)>> \o others
  IN SubSeq(all, 1, IF Len(all) < MaxRecent THEN Len(all) ELSE MaxRecent)

(***************************************************************************)
(* The fields.                                                             *)
(***************************************************************************)
\* `fill`: every field, and whether the entry's values were lost.
Fill(e) == form' = e /\ missing' = EnvValuesMissing(e)

\* `refill`: a recalled row says what it filled in.
Refill(e) ==
  /\ Fill(e)
  /\ confirmed' = [command |-> e.command, lost |-> EnvValuesMissing(e)]
  /\ recalled' = IF EnvValuesMissing(e) THEN Variables(e) ELSE {}

Acts == acts < MaxActs /\ acts' = acts + 1

Types(e) ==
  /\ Acts /\ form' = e /\ confirmed' = None
  /\ recalled' = {n \in recalled : e.env[n] = "blank"}
  /\ UNCHANGED <<missing, followed, filled, starting, agent, prefill, recent, seen>>

TypeCommand(c) == c # form.command /\ Types([form EXCEPT !.command = c])
TypeEnv(n, v) == v # form.env[n] /\ Types([form EXCEPT !.env[n] = v])

\* A checkbox leaves the confirmation standing.
Tick ==
  /\ Acts /\ form' = [form EXCEPT !.remember = ~@]
  /\ UNCHANGED <<missing, confirmed, followed, filled, recalled, starting, agent, prefill, recent,
                 seen>>

\* A whole command line in Command, split: its assignments go before the rest.
Split ==
  /\ form.command = "line"
  /\ \E c \in Programs, n \in Names : Types([form EXCEPT !.command = c, !.env[n] = "set"])

\* The names the environment lacks, with the inspector's own values.
Minimal == Types([form EXCEPT !.env = [n \in Names |-> IF @[n] = "absent" THEN "set" ELSE @[n]]])

\* The fields follow the invocation last launched, and the card's prefill.
FollowLaunched ==
  /\ launched \notin {None, followed} /\ followed' = launched
  /\ Fill(launched)
  /\ recalled' = {n \in recalled : launched.env[n] = "blank"}
  /\ UNCHANGED <<confirmed, filled, starting, agent, prefill, recent, seen, acts>>

FollowPrefill ==
  /\ filled # prefill.nth /\ filled' = prefill.nth
  /\ Refill(prefill.entry)
  /\ UNCHANGED <<followed, starting, agent, prefill, recent, seen, acts>>

\* A row's label, and the play button of one whose values are missing.
RefillRow(e) ==
  /\ Acts /\ Refill(e)
  /\ UNCHANGED <<followed, filled, starting, agent, prefill, recent, seen>>

\* The same on the first-run card, which opens the form on it.
PrefillRow(e) ==
  /\ Acts /\ prefill' = [nth |-> prefill.nth + 1, entry |-> e]
  /\ UNCHANGED <<fields, starting, agent, recent, seen>>

(***************************************************************************)
(* Launching.                                                              *)
(***************************************************************************)
LaunchOf(e) ==
  /\ task = "none" /\ launch < MaxLaunches
  /\ launch' = launch + 1 /\ task' = "starts" /\ problem' = "none" /\ launched' = e
  /\ fresh' = (seen.lines = lines /\ seen.gone = gone)
  /\ mark' = seen.gone + Len(seen.lines)

Submit ==
  /\ form.command # "" /\ LaunchOf(form)
  /\ confirmed' = None
  /\ UNCHANGED <<form, missing, followed, filled, recalled, agent, prefill, recent, seen, acts>>

\* A row's play button, where its values are there: in the form, and on the card,
\* which knows nothing of the form's confirmation.
LaunchRow(e) ==
  /\ ~EnvValuesMissing(e) /\ LaunchOf(e)
  /\ confirmed' \in {None, confirmed}
  /\ UNCHANGED <<form, missing, followed, filled, recalled, agent, prefill, recent, seen, acts>>

Restart ==
  /\ launched # None /\ LaunchOf(launched)
  /\ UNCHANGED <<fields, agent, prefill, recent, seen, acts>>

Write(kind, n) ==
  /\ gone + Len(lines) < MaxLines
  /\ IF Len(lines) < MaxHeld THEN lines' = Append(lines, [kind |-> kind, of |-> n]) /\ UNCHANGED gone
     ELSE lines' = Append(Tail(lines), [kind |-> kind, of |-> n]) /\ gone' = gone + 1

\* The start connects, and an agent that cannot be run says so before it fails.
SpawnFails ==
  /\ task = "starts" /\ Write("spawn", launch)
  /\ task' = "failed" /\ described' = FALSE /\ status' = "failedToStart" /\ problem' = "none"
  /\ UNCHANGED <<fields, launched, launch, mark, fresh, prefill, recent, seen, acts>>

Exits ==
  /\ task = "starts" /\ Write("exit", launch)
  /\ task' = "failed" /\ described' = FALSE /\ status' = "over" /\ problem' = "none"
  /\ UNCHANGED <<fields, launched, launch, mark, fresh, prefill, recent, seen, acts>>

\* An agent, this one or the one it replaces, writes to stderr.
Says ==
  /\ \E n \in 1..launch : Write("said", n)
  /\ UNCHANGED <<fields, starting, described, status, prefill, recent, seen, acts>>

\* A refusal before the connection is made leaves the agent that is there.
Refused ==
  /\ task = "starts" /\ ~described /\ task' = "failed"
  /\ UNCHANGED <<fields, launched, launch, mark, fresh, problem, agent, prefill, recent, seen, acts>>

Answers ==
  /\ task = "starts" /\ task' = "answered" /\ described' = TRUE /\ status' = "connected"
  /\ UNCHANGED <<fields, launched, launch, mark, fresh, problem, lines, gone, prefill, recent, seen,
                 acts>>

\* An agent that answered is remembered, as it was typed; one that did not is said.
Done ==
  /\ task \in {"failed", "answered"} /\ task' = "none"
  /\ recent' = IF described THEN Recorded(recent, launched) ELSE recent
  /\ problem' \in IF task = "answered" THEN {"none", "other"}
                  ELSE IF status = "idle" THEN {"other"} ELSE {"disconnected"}
  /\ UNCHANGED <<fields, launched, launch, mark, fresh, agent, prefill, seen, acts>>

RemoveRow(e) ==
  /\ Acts /\ recent' = SelectSeq(recent, LAMBDA r : r # e)
  /\ UNCHANGED <<fields, starting, agent, prefill, seen>>

ForgetValues(e) ==
  /\ HasEnvValues(e) /\ Acts
  /\ recent' = [i \in DOMAIN recent |-> IF recent[i] = e THEN WithoutEnvValues(e) ELSE recent[i]]
  /\ UNCHANGED <<fields, starting, agent, prefill, seen>>

Watch ==
  /\ seen' = [lines |-> lines, gone |-> gone, described |-> described, status |-> status]
  /\ seen' # seen
  /\ UNCHANGED <<fields, starting, agent, prefill, recent, acts>>

(***************************************************************************)
(* What the dialog says of the last launch.                                *)
(***************************************************************************)
Since ==
  LET from == IF mark > seen.gone THEN mark - seen.gone ELSE 0
  IN IF from > Len(seen.lines) THEN <<>> ELSE SubSeq(seen.lines, from + 1, Len(seen.lines))

LastLine(kind) ==
  LET own == SelectSeq(Since, LAMBDA l : l.kind = kind) IN IF own = <<>> THEN None ELSE own[Len(own)]

Failure ==
  IF seen.described THEN None
  ELSE IF LastLine("spawn") # None THEN [command |-> "spawn", line |-> LastLine("spawn")]
  ELSE IF seen.status = "failedToStart" THEN [command |-> "failedToStart"]
  ELSE IF problem = "none" THEN None
  ELSE [command |-> problem, line |-> IF problem = "disconnected" THEN LastLine("exit") ELSE None]

\* Still worth saying while any named variable has no value.
ShowMissing == missing /\ \E n \in Names : form.env[n] = "blank"

Next ==
  \/ \E c \in Programs \cup {"line"} : TypeCommand(c)
  \/ \E n \in Names, v \in {"absent", "blank", "set"} : TypeEnv(n, v)
  \/ Tick \/ Split \/ Minimal \/ FollowLaunched \/ FollowPrefill
  \/ \E e \in Range(recent) : RefillRow(e) \/ PrefillRow(e) \/ LaunchRow(e) \/ RemoveRow(e) \/ ForgetValues(e)
  \/ Submit \/ Restart \/ SpawnFails \/ Exits \/ Says \/ Refused \/ Answers \/ Done \/ Watch

Spec == Init /\ [][Next]_vars

-----------------------------------------------------------------------------
\* Values a recalled row did not have are asked for until they are typed, through
\* every launch but one whose values the reader said to keep (spawn.rs `show_missing`).
LossIsSaid ==
  recalled # {} /\ (followed # None => ~followed.remember) => ShowMissing

\* A value is kept only where a launch asked for it, and one invocation is one row
\* (recent.rs `record`).
RowsAreOne ==
  /\ \A i, j \in DOMAIN recent : WithoutEnvValues(recent[i]) = WithoutEnvValues(recent[j]) => i = j
  /\ \A e \in Range(recent) : HasEnvValues(e) => e.remember

\* A spawn failure the dialog says is the last launch's, however much the
\* diagnostics let go since (launch.rs `failure`).
FailureIsOurs ==
  fresh /\ Failure.command = "spawn" => Failure.line.of = launch

LaunchFormIsSafe == TypeOK /\ LossIsSaid /\ RowsAreOne /\ FailureIsOurs
=============================================================================
