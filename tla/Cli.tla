-------------------------------- MODULE Cli --------------------------------
(***************************************************************************)
(* One run of the command line (crates/cli/src/run.rs, with the exit code  *)
(* main.rs hands on and the outcome report.rs prints).  Three tasks share  *)
(* one thread and give it up only where they await: the run itself, the    *)
(* task answering the agent's requests by policy, and the core's reader.   *)
(* The connection is seen as Inspector and Turn describe it: a call fails  *)
(* at once where its frame cannot be queued, the reader records why a      *)
(* connection ended and tears it down in one step, and a graceful stop     *)
(* ends with a `Stopped` line or with none.                                *)
(***************************************************************************)
EXTENDS Naturals, Sequences, FiniteSets

CONSTANTS
  MaxPrompts,    \* bound: prompts on the command line
  MaxAsks,       \* bound: requests the agent makes of the policy
  MaxSignals,    \* bound: signals sent
  Starts,        \* how a start can go: the agent runs, never does, or has no directory
  Export         \* a file was asked for

ASSUME CliAssumption ==
  /\ MaxPrompts \in Nat /\ MaxAsks \in Nat /\ MaxSignals \in Nat
  /\ Starts \subseteq {"runs", "never", "nowhere"} /\ Export \in BOOLEAN

Asks == 1..MaxAsks
\* Whether an option of the kind the policy wants is offered; an elicitation is
\* cancelled whatever it offers.
Kinds == {"fits", "unfit", "form"}
Stops == {"end_turn", "cancelled", "refusal"}
Replies == Stops \cup {"error", "lost"}

VARIABLES
  prompts, timeout,          \* the command line: how many, and a limit set
  at,            \* where `run` is
  turns,         \* the turns reported on, oldest first: their outcomes
  ending,        \* how the run ended, and for a failure at which call
  exported, code,  \* what came of the export; the exit code
  reply,         \* what the call awaited was answered, "none" so far
  agent, status, \* the agent's process; the connection's status
  why,           \* diagnostics that say how it ended
  turn,          \* the core's turn
  notes,         \* the timeline holds an annotation
  asks,          \* request -> its kind and where it stands
  answering, todo, asked,    \* the answering task: its step, what it saw, whom it asked
  stirred,       \* the timeline changed since that task last began to look
  signals, hurried,          \* signals sent; some wait was given up on
  policyCancels  \* history: turns the policy cancelled

report == <<turns, ending, exported, code>>
core == <<reply, agent, status, why, turn, notes, asks, stirred>>
task == <<answering, todo, asked, policyCancels>>
given == <<prompts, timeout>>
vars == <<given, at, report, core, task, signals, hurried>>

Calls == {"initialize", "session", "prompt"}
Endings == {"none", "completed", "timeout", "signal"} \cup {"cwd", "spawn"} \cup Calls
Connected == status = "connected"

TypeOK ==
  /\ prompts \in 0..MaxPrompts /\ timeout \in BOOLEAN
  /\ at \in {"start", "settle", "stop", "stopping", "report", "over"} \cup Calls
  /\ turns \in Seq({"open"} \cup Replies) /\ Len(turns) <= prompts
  /\ ending.how \in Endings /\ ending.lost \in BOOLEAN
  /\ exported \in {"no", "yes", "failed"} /\ code \in {"none", "0", "1", "2", "3", "4", "128+"}
  /\ reply \in {"none"} \cup Replies
  /\ agent \in {"none", "runs", "never", "gone"}
  /\ status \in {"idle", "connected", "lost", "disconnected"}
  /\ why \subseteq {"SpawnFailed", "AgentExited", "Stopped"}
  /\ turn \in {"idle", "inflight", "cancelling", "ended"} /\ notes \in BOOLEAN /\ stirred \in BOOLEAN
  /\ \A r \in Asks : asks[r].kind \in Kinds /\ asks[r].stands \in {"unmade", "waits", "answered", "over"}
  /\ answering \in {"look", "ask", "wait", "aborted"}
  /\ todo \subseteq Asks /\ asked \subseteq Asks
  /\ signals \in 0..MaxSignals /\ hurried \in BOOLEAN /\ policyCancels \in 0..MaxPrompts

Init ==
  /\ prompts \in 0..MaxPrompts /\ timeout \in BOOLEAN
  /\ at = "start" /\ turns = <<>> /\ ending = [how |-> "none", lost |-> FALSE]
  /\ exported = "no" /\ code = "none"
  /\ reply = "none" /\ agent = "none" /\ status = "idle" /\ why = {}
  /\ turn = "idle" /\ notes = FALSE /\ stirred = FALSE
  /\ asks = [r \in Asks |-> [kind |-> "fits", stands |-> "unmade"]]
  /\ answering = "look" /\ todo = {} /\ asked = {}
  /\ signals = 0 /\ hurried = FALSE /\ policyCancels = 0

(***************************************************************************)
(* Ending the run: the select over the driven run, the time-out and the    *)
(* signals, each of which may win where several are ready.                 *)
(***************************************************************************)
Driving == at \in {"start"} \cup Calls

\* `lost`: the call failed because the connection went away, which it may
\* learn before the reader has recorded why.
Lost(end) == end.lost

\* The answering task is aborted, and what it knew dropped, before the agent is
\* stopped.
Ended(how, lost) ==
  /\ ending' = [how |-> how, lost |-> lost]
  /\ at' = IF Lost(ending') THEN "settle" ELSE "stop"
  /\ answering' = "aborted" /\ todo' = {} /\ asked' = {}
  /\ UNCHANGED policyCancels

TimesOut ==
  /\ timeout /\ Driving /\ Ended("timeout", FALSE)
  /\ UNCHANGED <<given, turns, exported, code, core, signals, hurried>>

Interrupted ==
  /\ Driving /\ signals < MaxSignals /\ signals' = signals + 1
  /\ Ended("signal", FALSE)
  /\ UNCHANGED <<given, turns, exported, code, core, hurried>>

(***************************************************************************)
(* `drive`: the handshake and the turns, up to the first failure.          *)
(***************************************************************************)
\* The next thing to send: a prompt, which opens a turn, or nothing.
More(done) == Len(done) < prompts
Proceed ==
  IF More(turns)
  THEN /\ at' = "prompt" /\ turns' = Append(turns, "open")
       /\ turn' = "inflight" /\ UNCHANGED <<ending, task>>
  ELSE Ended("completed", FALSE) /\ UNCHANGED <<turns, turn>>

\* A directory the agent cannot be started in fails before anything is spawned.
Start ==
  /\ at = "start"
  /\ \E how \in Starts :
       \/ /\ how = "nowhere" /\ Ended("cwd", FALSE)
          /\ UNCHANGED <<agent, status>>
       \/ /\ how # "nowhere" /\ agent' = how /\ status' = "connected" /\ at' = "initialize"
          /\ UNCHANGED <<ending, task>>
  /\ UNCHANGED <<given, turns, exported, code, reply, why, turn, notes, asks, stirred, signals, hurried>>

\* `prompt` returns with the stop reason already in the turn's report.
Return ==
  /\ at \in Calls /\ reply # "none" /\ reply' = "none"
  /\ IF at = "prompt" /\ reply \in Stops
     THEN LET done == [turns EXCEPT ![Len(turns)] = reply]
          IN IF More(done)
             THEN /\ turns' = Append(done, "open") /\ turn' = "inflight"
                  /\ UNCHANGED <<at, ending, task>>
             ELSE turns' = done /\ Ended("completed", FALSE) /\ UNCHANGED turn
     ELSE IF reply \in {"error", "lost"}
     THEN /\ Ended(at, reply = "lost") /\ UNCHANGED turn
          /\ turns' = IF at = "prompt" THEN [turns EXCEPT ![Len(turns)] = reply] ELSE turns
     ELSE IF at = "initialize"
     THEN at' = "session" /\ UNCHANGED <<turns, turn, ending, task>>
     ELSE Proceed
  /\ UNCHANGED <<given, exported, code, agent, status, why, notes, asks, stirred, signals, hurried>>

(***************************************************************************)
(* After the ending: settling, stopping, reporting.                        *)
(***************************************************************************)
\* What the teardown does to the turn and to the requests that wait: a turn
\* still cancelling was never resolved, and that is annotated.
Teardown ==
  /\ notes' = (notes \/ turn = "cancelling")
  /\ turn' = IF turn \in {"inflight", "cancelling"} THEN "ended" ELSE turn
  /\ asks' = [r \in Asks |-> IF asks[r].stands = "waits" THEN [asks[r] EXCEPT !.stands = "over"]
                             ELSE asks[r]]
  /\ stirred' = TRUE

\* Each of these waits has a limit, which may be up at any time.
LimitIsUpVariant == at = "settle"
LimitIsUp == TRUE

\* `settle`: until the reader has recorded why, or two seconds.
Settled ==
  /\ at = "settle" /\ (~Connected \/ LimitIsUp) /\ at' = "stop"
  /\ hurried' = (hurried \/ Connected)
  /\ UNCHANGED <<given, report, core, task, signals>>

\* `stop`: asked politely where it is still connected, and waited for.
Stop ==
  /\ at = "stop"
  /\ IF Connected THEN status' = "disconnected" /\ at' = "stopping" /\ Teardown
     ELSE at' = "report" /\ UNCHANGED <<status, notes, turn, asks, stirred>>
  /\ UNCHANGED <<given, report, reply, agent, why, task, signals, hurried>>

\* The wait ends at the `Stopped` line or after seven seconds; `disconnect`
\* then kills whatever is still stopping.
KillsVariant == UNCHANGED agent
Kills == agent' = IF agent = "runs" THEN "gone" ELSE agent
Disconnect ==
  /\ at = "stopping" /\ ("Stopped" \in why \/ LimitIsUp) /\ at' = "report" /\ Kills
  /\ hurried' = (hurried \/ "Stopped" \notin why)
  /\ UNCHANGED <<given, report, reply, status, why, turn, notes, asks, stirred, task, signals>>

\* A signal while the agent is being stopped kills it and exits at once.
Hurry ==
  /\ at \in {"settle", "stop", "stopping"}
  /\ signals < MaxSignals /\ signals' = signals + 1
  /\ at' = "over" /\ code' = "128+" /\ Kills
  /\ status' = IF Connected THEN "disconnected" ELSE status
  /\ IF Connected THEN Teardown ELSE UNCHANGED <<notes, turn, asks, stirred>>
  /\ UNCHANGED <<given, turns, ending, exported, reply, why, task, hurried>>

\* `exit_code`, and `outcome` in step with it: a signal, then a time-out, then
\* a failure, then a broken MUST, then a turn that stopped short.
ExitCode(end, outcome, annotated) ==
  IF end.how = "signal" THEN "128+"
  ELSE IF end.how = "timeout" THEN "3"
  ELSE IF end.how # "completed" \/ outcome = "failed" THEN "1"
  ELSE IF annotated THEN "2"
  ELSE IF \E k \in DOMAIN turns : turns[k] # "end_turn" THEN "4"
  ELSE "0"

\* The word the JSON summary says it in, and what either summary says of a turn.
Outcome ==
  IF ending.how = "signal" THEN "interrupted"
  ELSE IF ending.how = "timeout" THEN "timeout"
  ELSE IF ending.how # "completed" \/ exported = "failed" THEN "failed"
  ELSE IF notes THEN "conformance"
  ELSE IF \E k \in DOMAIN turns : turns[k] # "end_turn" THEN "stopped"
  ELSE "ok"
Told(k) == IF turns[k] = "open" THEN "did not end"
           ELSE IF turns[k] \in Stops THEN turns[k] ELSE "failed"

\* `write_export`: whole at its place, or an error and nothing half-written.
Written == IF Export THEN {"yes", "failed"} ELSE {"no"}

\* A failed handshake is blamed on the spawn where a diagnostic says so; the
\* annotations are read only now; the export is written on every ending, and
\* whether it could be is part of the code.
AnnotatedVariant == notes /\ status # "disconnected"
Annotated == notes
Report ==
  /\ at = "report" /\ at' = "over"
  /\ ending' = IF ending.how = "initialize" /\ "SpawnFailed" \in why
               THEN [ending EXCEPT !.how = "spawn"] ELSE ending
  /\ exported' \in Written
  /\ code' = ExitCode(ending', exported', Annotated)
  /\ UNCHANGED <<given, turns, core, task, signals, hurried>>

(***************************************************************************)
(* `answer`: requests by policy, as they arrive.                           *)
(***************************************************************************)
Waiting == {r \in Asks : asks[r].stands = "waits"}

Look ==
  /\ answering = "look" /\ answering' = "ask"
  /\ todo' = Waiting \ asked /\ asked' = Waiting
  /\ UNCHANGED <<given, at, report, core, signals, hurried, policyCancels>>

\* An option of the kind the policy wants is selected; without one the turn is
\* cancelled, which answers every request of it; a form is cancelled.
\* `respond`, and the loop over elicitations.
Respond(r) ==
  /\ answering = "ask" /\ r \in todo /\ todo' = todo \ {r}
  /\ IF asks[r].kind = "unfit"
     THEN IF turn \in {"inflight", "cancelling"} /\ Connected
          THEN /\ turn' = "cancelling" /\ stirred' = TRUE
               /\ asks' = [q \in Asks |-> IF q \in Waiting THEN [asks[q] EXCEPT !.stands = "answered"]
                                          ELSE asks[q]]
               /\ policyCancels' = IF turn = "inflight" THEN policyCancels + 1 ELSE policyCancels
          ELSE UNCHANGED <<turn, stirred, asks, policyCancels>>
     ELSE /\ asks' = [asks EXCEPT ![r].stands = IF @ = "waits" THEN "answered" ELSE @]
          /\ stirred' = TRUE /\ UNCHANGED <<turn, policyCancels>>
  /\ UNCHANGED <<given, at, report, reply, agent, status, why, notes, answering, asked, signals, hurried>>

\* Before it sleeps the task compares what it last saw: a change while it was
\* asking wakes it at once.
SleepVariant ==
  /\ answering = "ask" /\ todo = {} /\ answering' = "wait" /\ stirred' = FALSE
  /\ UNCHANGED <<given, at, report, reply, agent, status, why, turn, notes, asks, todo, asked,
                 policyCancels, signals, hurried>>
Sleep ==
  /\ answering = "ask" /\ todo = {} /\ answering' = "wait"
  /\ UNCHANGED <<given, at, report, core, todo, asked, policyCancels, signals, hurried>>
Wake ==
  /\ answering = "wait" /\ stirred /\ stirred' = FALSE /\ answering' = "look"
  /\ UNCHANGED <<given, at, report, reply, agent, status, why, turn, notes, asks, todo, asked,
                 policyCancels, signals, hurried>>

(***************************************************************************)
(* The agent and the core.                                                 *)
(***************************************************************************)
\* An answer read.  A cancelled turn that ends some other way is annotated;
\* what waited in the turn is over with it.
Answered(how) ==
  /\ agent = "runs" /\ Connected /\ at \in Calls /\ reply = "none"
  /\ how \in {"cancelled", "refusal"} => at = "prompt"
  /\ reply' = how
  /\ IF at = "prompt"
     THEN /\ turn' = "ended" /\ stirred' = TRUE
          /\ notes' = (notes \/ (turn = "cancelling" /\ how # "cancelled"))
          /\ asks' = [r \in Asks |-> IF r \in Waiting THEN [asks[r] EXCEPT !.stands = "over"]
                                     ELSE asks[r]]
     ELSE UNCHANGED <<turn, stirred, notes, asks>>
  /\ UNCHANGED <<given, at, report, agent, status, why, task, signals, hurried>>

Asked(r, kind) ==
  /\ agent = "runs" /\ at = "prompt" /\ turn = "inflight" /\ Connected
  /\ asks[r].stands = "unmade" /\ \A q \in 1..(r - 1) : asks[q].stands # "unmade"
  /\ asks' = [asks EXCEPT ![r] = [kind |-> kind, stands |-> "waits"]] /\ stirred' = TRUE
  /\ UNCHANGED <<given, at, report, reply, agent, status, why, turn, notes, task, signals, hurried>>

\* What the agent broke otherwise, annotated as it arrives.
Breaks ==
  /\ agent = "runs" /\ Connected /\ ~notes /\ notes' = TRUE /\ stirred' = TRUE
  /\ UNCHANGED <<given, at, report, reply, agent, status, why, turn, asks, task, signals, hurried>>

Exits ==
  /\ agent = "runs" /\ Driving /\ agent' = "gone"
  /\ UNCHANGED <<given, at, report, reply, status, why, turn, notes, asks, stirred, task, signals, hurried>>

\* Its frame cannot be queued: the call fails before the reader knows why, or
\* after the reader let the connection go.
SendFails ==
  /\ agent \in {"never", "gone"} /\ at \in Calls /\ reply = "none" /\ reply' = "lost"
  /\ turn' = IF at = "prompt" THEN "ended" ELSE turn
  /\ notes' = (notes \/ (at = "prompt" /\ turn = "cancelling"))
  /\ UNCHANGED <<given, at, report, agent, status, why, asks, stirred, task, signals, hurried>>

\* The reader records why, and tears the conversation down.
Observes ==
  /\ agent \in {"never", "gone"} /\ Connected
  /\ why' = why \cup {IF agent = "never" THEN "SpawnFailed" ELSE "AgentExited"}
  /\ status' = "lost" /\ Teardown
  /\ reply' = IF at \in Calls /\ reply = "none" THEN "lost" ELSE reply
  /\ UNCHANGED <<given, at, report, agent, task, signals, hurried>>

\* The stop asked for is over, and said to be.
Stopped ==
  /\ at = "stopping" /\ "Stopped" \notin why /\ why' = why \cup {"Stopped"}
  /\ agent' = IF agent = "runs" THEN "gone" ELSE agent
  /\ UNCHANGED <<given, at, report, reply, status, turn, notes, asks, stirred, task, signals, hurried>>

Run == Start \/ Return \/ Settled \/ Stop \/ Disconnect \/ Report
Answering == Look \/ (\E r \in Asks : Respond(r)) \/ Sleep \/ Wake

Next ==
  \/ Run \/ TimesOut \/ Interrupted \/ Hurry \/ Answering
  \/ \E how \in Replies \ {"lost"} : Answered(how)
  \/ \E r \in Asks, kind \in Kinds : Asked(r, kind)
  \/ Breaks \/ Exits \/ SendFails \/ Observes \/ Stopped
  \/ at = "over" /\ UNCHANGED vars

Spec == Init /\ [][Next]_vars

\* The run takes its steps: each wait it makes is bounded by a time-out of its
\* own, and the whole of `drive` by --timeout where it is given.  The answering
\* task is scheduled, the reader sees a connection that ended, and a call that
\* cannot be sent fails.
FairSpec ==
  /\ Spec /\ WF_vars(Run) /\ WF_vars(TimesOut) /\ WF_vars(Answering)
  /\ WF_vars(Observes) /\ WF_vars(SendFails)

-----------------------------------------------------------------------------
\* Exit code 0 promises what docs/cli.md says: every prompt answered with
\* end_turn, nothing annotated up to and including the teardown, no turn
\* cancelled for want of an option, and the file written where it was asked for.
ZeroMeansClean ==
  code = "0" =>
    /\ Len(turns) = prompts /\ \A k \in DOMAIN turns : turns[k] = "end_turn"
    /\ ~notes /\ policyCancels = 0
    /\ exported = IF Export THEN "yes" ELSE "no"

\* The summary and the code say the same, and a turn said not to have ended is
\* the last one, cut by a time-out or a signal.
Word(c) ==
  CASE c = "0" -> "ok" [] c = "1" -> "failed" [] c = "2" -> "conformance" [] c = "3" -> "timeout"
    [] c = "4" -> "stopped" [] c = "128+" -> "interrupted"
SummaryAgrees ==
  at = "over" /\ (signals > 0 => ending.how = "signal") =>
    /\ Outcome = Word(code)
    /\ \A k \in DOMAIN turns : Told(k) = "did not end" =>
         k = Len(turns) /\ ending.how \in {"timeout", "signal"}

ReportIsTrue == ZeroMeansClean /\ SummaryAgrees

\* Whatever ended the run, and however it was hurried, no agent outlives it.
NoAgentLeft == at = "over" => agent # "runs"

\* An agent that never started is reported as that and not as a handshake
\* nobody answered, unless a wait for the reader ran out of time or the run
\* was cut short.
SpawnIsBlamed ==
  at = "over" /\ agent = "never" /\ ending.how = "initialize" => hurried \/ signals > 0

\* The ending blamed is the one that happened.
BlameIsRight == TypeOK /\ ReportIsTrue /\ SpawnIsBlamed

\* With a --timeout the run always ends, and without one when the agent is gone
\* or never came: no call waits for somebody who is not there.
RunEnds == timeout \/ agent \in {"never", "gone"} ~> at = "over"

\* No request is slept over: one that waits is asked about, or the run goes on
\* to stop the agent.
NothingIsSleptOver ==
  \A r \in Asks : asks[r].stands = "waits" ~> r \in asked \/ asks[r].stands # "waits" \/ ~Driving
=============================================================================
