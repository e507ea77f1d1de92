-------------------------------- MODULE Turn --------------------------------
(***************************************************************************)
(* A prompt turn: sending it, cancelling it, and settling it from the      *)
(* frame that ends it (crates/core/src/client/turn.rs, with the teardown of*)
(* inbound.rs, `leave` and `forget` of lifecycle.rs, and the turns of      *)
(* timeline.rs).  What the code does under one lock is one step; between   *)
(* two locks, or across an await, other tasks run.                         *)
(*                                                                         *)
(* User tasks (submit, cancel, leave) share one thread, the window's or    *)
(* the command line's.  The reader, which also tears the connection down,  *)
(* and the tasks awaiting a prompt run on threads of their own in the app, *)
(* and on that same thread in the command line: OneThread.  A task gives   *)
(* its thread up only where it awaits.                                     *)
(***************************************************************************)
EXTENDS Naturals, Sequences

CONSTANTS
  Users,         \* user tasks
  MaxPrompts,    \* bound: prompts sent
  MaxCancels,    \* bound: cancels and leaves begun
  OneThread,     \* the runtime has one thread
  Stalls,        \* the outgoing queue can be full, so a cancel can be kept waiting
  Leaves,        \* how sessions are left: by a restore, by a session/new, or by
                 \* a session/new the agent refuses
  Hasty          \* prompts are sent while the next session is being opened

ASSUME TurnAssumption ==
  /\ MaxPrompts \in Nat /\ MaxCancels \in Nat
  /\ {OneThread, Stalls, Hasty} \subseteq BOOLEAN
  /\ Leaves \subseteq {"restore", "new", "refused"}

Prompts == 1..MaxPrompts
Ends == {"ended", "cancelled", "failed"}

VARIABLES
  turn,          \* stores.turn; an Ended turn is "ended" or "cancelled"
  awaiting,      \* the id the open turn waits for, 0 for none
  armed,         \* the `cancelled` slot: {} or {the prompt the cancel was sent for}
  sent,          \* how many prompts have taken an id
  pending,       \* prompts in the table of calls
  closed,        \* the conversation is closed
  result,        \* prompt -> what its waiting task is handed
  open, rows,    \* the timeline's open turn (0: none), and each prompt's turn
  notes,         \* cancellation annotations: whose cancel, which turn, how it ended
  user, cancels, \* each user task's step; how many cancels and leaves have begun
  reader,        \* the reader's step
  finisher,      \* prompt -> the step of the task awaiting it
  up,            \* answers on their way from the agent
  agent          \* prompts it was sent and did not answer; how it answered each

slots == <<turn, awaiting, armed>>
table == <<sent, pending, closed, result>>
timeline == <<open, rows, notes>>
tasks == <<user, cancels, reader, finisher>>
wire == <<up, agent>>
vars == <<slots, table, timeline, tasks, wire>>

Running == turn \in {"inflight", "cancelling"}

UserSteps == {"idle", "await", "disarm", "fly", "opening", "enqueue",
              "notify", "noted", "owing", "forget1", "forget2", "forget3",
              "discard", "switching", "switched", "notSwitched", "idling",
              "refused", "unsent1", "unsent2", "unsent3"}
ReaderSteps == {"idle", "resolve", "judge", "close", "answer", "failing",
                "closing", "end2", "end3", "judgeEnd", "end4", "gone"}

TypeOK ==
  /\ turn \in {"idle", "inflight", "cancelling"} \cup Ends
  /\ awaiting \in 0..MaxPrompts /\ sent \in 0..MaxPrompts
  /\ armed \subseteq 0..MaxPrompts
  /\ pending \subseteq Prompts /\ closed \in BOOLEAN
  /\ result \in [Prompts -> {"none", "ok", "error"}]
  /\ open \in 0..MaxPrompts
  /\ rows \in [Prompts -> {"absent", "open", "left"} \cup Ends]
  /\ notes \subseteq [cancel : 0..MaxPrompts, turn : 0..MaxPrompts, end : {"ended", "failed"}]
  /\ user \in [Users -> [at : UserSteps, for : 0..MaxPrompts, leaving : {"no"} \cup Leaves]]
  /\ cancels \in 0..MaxCancels
  /\ reader \in [at : ReaderSteps, id : 0..MaxPrompts, end : Ends, cancel : SUBSET (0..MaxPrompts)]
  /\ finisher \in [Prompts -> {"none", "waiting", "failing", "closing", "done"}]
  /\ up \in Seq([id : Prompts, end : Ends])
  /\ agent \in [holds : SUBSET Prompts, said : [Prompts -> {"none"} \cup Ends]]

Resting == [at |-> "idle", for |-> 0, leaving |-> "no"]
Listening == [at |-> "idle", id |-> 0, end |-> "failed", cancel |-> {}]

Init ==
  /\ turn = "idle" /\ awaiting = 0 /\ armed = {}
  /\ sent = 0 /\ pending = {} /\ closed = FALSE
  /\ result = [k \in Prompts |-> "none"]
  /\ open = 0 /\ rows = [k \in Prompts |-> "absent"] /\ notes = {}
  /\ user = [u \in Users |-> Resting] /\ cancels = 0
  /\ reader = Listening
  /\ finisher = [k \in Prompts |-> "none"]
  /\ up = <<>>
  /\ agent = [holds |-> {}, said |-> [k \in Prompts |-> "none"]]

(***************************************************************************)
(* Who may run.  A task in the middle of a stretch without an await holds  *)
(* its thread.                                                             *)
(***************************************************************************)
Switching == {"switching", "switched", "notSwitched"}
AwaitPoints == {"idle"} \cup Switching \cup IF Stalls THEN {"notify", "noted", "owing"} ELSE {}
Inside(u) == user[u].at \notin AwaitPoints
ReaderInside == reader.at \notin {"idle", "gone"}
FinisherInside(k) == finisher[k] \in {"failing", "closing"}

UserRuns(u) ==
  /\ \A v \in Users \ {u} : ~Inside(v)
  /\ OneThread => ~ReaderInside /\ \A k \in Prompts : ~FinisherInside(k)
ReaderRuns ==
  OneThread => (\A u \in Users : ~Inside(u)) /\ \A k \in Prompts : ~FinisherInside(k)
FinisherRuns(k) ==
  OneThread => /\ \A u \in Users : ~Inside(u)
               /\ ~ReaderInside
               /\ \A j \in Prompts \ {k} : ~FinisherInside(j)

Quiet == /\ \A u \in Users : user[u].at = "idle"
         /\ ~ReaderInside
         /\ \A k \in Prompts : finisher[k] \notin {"failing", "closing"}

(***************************************************************************)
(* The timeline's turns.                                                   *)
(***************************************************************************)
\* `open_turn`: a turn already open is kept.
OpenTurn(k) ==
  IF open # 0 THEN UNCHANGED <<open, rows>>
  ELSE /\ open' = k
       /\ rows' = [rows EXCEPT ![k] = "open"]

\* `close_turn`: the first conclusion stands.
CloseTurnVariant(end) ==
  /\ rows' = [k \in Prompts |-> IF k = open THEN end ELSE rows[k]]
  /\ UNCHANGED open
CloseTurn(end) ==
  /\ rows' = [k \in Prompts |-> IF k = open THEN end ELSE rows[k]]
  /\ open' = 0

\* `judge`: an annotation where a cancelled turn ended any other way.
Judge(cancel, end, k) ==
  notes' = IF end = "cancelled" THEN notes
           ELSE notes \cup {[cancel |-> c, turn |-> k, end |-> end] : c \in cancel}

(***************************************************************************)
(* `submit_prompt`.  The window offers it only while no turn runs.         *)
(***************************************************************************)
Step(u, at) == user' = [user EXCEPT ![u].at = at]

Submit(u) ==
  /\ UserRuns(u) /\ user[u].at = "idle" /\ ~Running
  /\ Hasty \/ \A v \in Users : user[v].at \notin Switching
  /\ ~closed /\ sent < MaxPrompts
  /\ sent' = sent + 1
  /\ pending' = pending \cup {sent + 1}
  /\ user' = [user EXCEPT ![u] = [at |-> "await", for |-> sent + 1, leaving |-> "no"]]
  /\ UNCHANGED <<slots, closed, result, timeline, cancels, reader, finisher, wire>>

\* Refused before it was sent: no connection, or content the agent did not
\* advertise.  `turn_failed(None)`, in two steps.
Refuse(u) ==
  /\ UserRuns(u) /\ user[u].at = "idle" /\ ~Running
  /\ turn' = "failed"
  /\ Step(u, "refused")
  /\ UNCHANGED <<awaiting, armed, table, timeline, cancels, reader, finisher, wire>>

Refused(u) ==
  /\ UserRuns(u) /\ user[u].at \in {"refused", "unsent3"}
  /\ CloseTurn("failed")
  /\ user' = [user EXCEPT ![u] = Resting]
  /\ UNCHANGED <<slots, table, notes, cancels, reader, finisher, wire>>

Await(u) ==
  /\ UserRuns(u) /\ user[u].at = "await"
  /\ awaiting' = user[u].for
  /\ Step(u, "disarm")
  /\ UNCHANGED <<turn, armed, table, timeline, cancels, reader, finisher, wire>>

\* A cancel still armed belongs to a turn prompted over.
DisarmedVariant == armed
Disarmed == {}

Disarm(u) ==
  /\ UserRuns(u) /\ user[u].at = "disarm"
  /\ armed' = Disarmed
  /\ Step(u, "fly")
  /\ UNCHANGED <<turn, awaiting, table, timeline, cancels, reader, finisher, wire>>

Fly(u) ==
  /\ UserRuns(u) /\ user[u].at = "fly"
  /\ turn' = "inflight"
  /\ Step(u, "opening")
  /\ UNCHANGED <<awaiting, armed, table, timeline, cancels, reader, finisher, wire>>

Opening(u) ==
  /\ UserRuns(u) /\ user[u].at = "opening"
  /\ OpenTurn(user[u].for)
  /\ Step(u, "enqueue")
  /\ UNCHANGED <<slots, table, notes, cancels, reader, finisher, wire>>

\* Onto the wire, and a task to await the answer.  The queue of a connection
\* being torn down can still take a frame that goes nowhere.
Enqueue(u) ==
  /\ UserRuns(u) /\ user[u].at = "enqueue"
  /\ agent' = IF closed THEN agent ELSE [agent EXCEPT !.holds = @ \cup {user[u].for}]
  /\ finisher' = [finisher EXCEPT ![user[u].for] = "waiting"]
  /\ user' = [user EXCEPT ![u] = Resting]
  /\ UNCHANGED <<slots, table, timeline, cancels, reader, up>>

\* The queue is full, or the transport is gone before the teardown says so:
\* the call is forgotten and the turn failed.
EnqueueFails(u) ==
  /\ UserRuns(u) /\ user[u].at = "enqueue"
  /\ pending' = pending \ {user[u].for}
  /\ Step(u, "unsent1")
  /\ UNCHANGED <<slots, sent, closed, result, timeline, cancels, reader, finisher, wire>>

(***************************************************************************)
(* `turn_failed` of a registered turn: dropped unless it is the awaited    *)
(* one.  A prompt abandoned must not mark the next turn failed.            *)
(***************************************************************************)
AwaitedVariant(k) == TRUE
Awaited(k) == awaiting = k

Unsent(u) ==
  /\ UserRuns(u) /\ user[u].at = "unsent1"
  /\ IF Awaited(user[u].for)
     THEN awaiting' = 0 /\ Step(u, "unsent2")
     ELSE user' = [user EXCEPT ![u] = Resting] /\ UNCHANGED awaiting
  /\ UNCHANGED <<turn, armed, table, timeline, cancels, reader, finisher, wire>>

UnsentFails(u) ==
  /\ UserRuns(u) /\ user[u].at = "unsent2"
  /\ turn' = "failed"
  /\ Step(u, "unsent3")
  /\ UNCHANGED <<awaiting, armed, table, timeline, cancels, reader, finisher, wire>>

\* `finish_prompt`: an answer the caller could not use fails the turn, where
\* the reader has not settled it.
Finish(k) ==
  /\ finisher[k] = "waiting" /\ k \notin pending
  /\ IF result[k] # "ok" /\ Awaited(k)
     THEN awaiting' = 0 /\ finisher' = [finisher EXCEPT ![k] = "failing"]
     ELSE finisher' = [finisher EXCEPT ![k] = "done"] /\ UNCHANGED awaiting
  /\ UNCHANGED <<turn, armed, table, timeline, user, cancels, reader, wire>>

FinishFails(k) ==
  /\ finisher[k] = "failing"
  /\ turn' = "failed"
  /\ finisher' = [finisher EXCEPT ![k] = "closing"]
  /\ UNCHANGED <<awaiting, armed, table, timeline, user, cancels, reader, wire>>

FinishCloses(k) ==
  /\ finisher[k] = "closing"
  /\ CloseTurn("failed")
  /\ finisher' = [finisher EXCEPT ![k] = "done"]
  /\ UNCHANGED <<slots, table, notes, user, cancels, reader, wire>>

(***************************************************************************)
(* `cancel`, offered while a turn runs.  The frame goes out, the requests  *)
(* the turn blocked on are answered, and then, under both locks, a turn    *)
(* still in flight is marked and the rule armed.                           *)
(***************************************************************************)
Cancel(u) ==
  /\ UserRuns(u) /\ user[u].at = "idle" /\ Running
  /\ cancels < MaxCancels
  /\ cancels' = cancels + 1
  /\ Step(u, "notify")
  /\ UNCHANGED <<slots, table, timeline, reader, finisher, wire>>

Notify(u) ==
  /\ UserRuns(u) /\ user[u].at = "notify"
  /\ \/ ~closed /\ user' = [user EXCEPT ![u].at = "noted", ![u].for = sent]
     \/ user' = [user EXCEPT ![u].at = IF user[u].leaving = "no" THEN "idle" ELSE "owing"]
  /\ UNCHANGED <<slots, table, timeline, cancels, reader, finisher, wire>>

Arms == turn = "inflight"

Noted(u) ==
  /\ UserRuns(u) /\ user[u].at = "noted"
  /\ IF Arms THEN turn' = "cancelling" /\ armed' = {user[u].for}
     ELSE UNCHANGED <<turn, armed>>
  /\ Step(u, IF user[u].leaving = "no" THEN "idle" ELSE "owing")
  /\ UNCHANGED <<awaiting, table, timeline, cancels, reader, finisher, wire>>

(***************************************************************************)
(* Leaving a session for another: `leave`, then `forget`, slot by slot.  A *)
(* restore discards the view before it asks; a session/new after it is     *)
(* answered, and not at all where it is refused.                           *)
(***************************************************************************)
Leave(u) ==
  /\ UserRuns(u) /\ user[u].at = "idle"
  /\ cancels < MaxCancels
  /\ cancels' = cancels + 1
  /\ \E how \in Leaves :
       user' = [user EXCEPT ![u] = [at |-> IF Running THEN "notify" ELSE "owing",
                                    for |-> 0, leaving |-> how]]
  /\ UNCHANGED <<slots, table, timeline, reader, finisher, wire>>

Owing(u) ==
  /\ UserRuns(u) /\ user[u].at = "owing"
  /\ Step(u, "forget1")
  /\ UNCHANGED <<slots, table, timeline, cancels, reader, finisher, wire>>

ForgetAwaitingVariant == awaiting
ForgetAwaiting == 0

Forget(u) ==
  /\ UserRuns(u)
  /\ \/ user[u].at = "forget1" /\ awaiting' = ForgetAwaiting /\ Step(u, "forget2")
        /\ UNCHANGED <<turn, armed>>
     \/ user[u].at = "forget2" /\ armed' = {} /\ Step(u, "forget3")
        /\ UNCHANGED <<turn, awaiting>>
     \/ user[u].at = "forget3" /\ turn' = "idle"
        /\ Step(u, IF user[u].leaving = "restore" THEN "discard" ELSE "switching")
        /\ UNCHANGED <<awaiting, armed>>
  /\ UNCHANGED <<table, timeline, cancels, reader, finisher, wire>>

Discard(u) ==
  /\ UserRuns(u) /\ user[u].at = "discard"
  /\ open' = 0
  /\ rows' = [k \in Prompts |-> IF rows[k] = "absent" THEN "absent" ELSE "left"]
  /\ Step(u, IF user[u].leaving = "restore" THEN "switching" ELSE "idling")
  /\ UNCHANGED <<slots, table, notes, cancels, reader, finisher, wire>>

\* The answer to session/new, session/load or session/resume, handed over by
\* the reader, or by the teardown that lets every call go.
SwitchAnswered(u) ==
  /\ ReaderRuns /\ user[u].at = "switching"
  /\ \/ reader.at = "idle" /\ user[u].leaving \in {"new", "restore"} /\ Step(u, "switched")
     \/ reader.at = "idle" /\ user[u].leaving \in {"refused", "restore"} /\ Step(u, "notSwitched")
     \/ closed /\ Step(u, "notSwitched")
  /\ UNCHANGED <<slots, table, timeline, cancels, reader, finisher, wire>>

Switched(u) ==
  /\ UserRuns(u) /\ user[u].at = "switched"
  /\ Step(u, IF user[u].leaving = "new" THEN "discard" ELSE "idling")
  /\ UNCHANGED <<slots, table, timeline, cancels, reader, finisher, wire>>

\* Refused, or the connection is gone: the view is left as it is.
NotSwitched(u) ==
  /\ UserRuns(u) /\ user[u].at = "notSwitched"
  /\ user' = [user EXCEPT ![u] = Resting]
  /\ UNCHANGED <<slots, table, timeline, cancels, reader, finisher, wire>>

Idling(u) ==
  /\ UserRuns(u) /\ user[u].at = "idling"
  /\ turn' = "idle"
  /\ user' = [user EXCEPT ![u] = Resting]
  /\ UNCHANGED <<awaiting, armed, table, timeline, cancels, reader, finisher, wire>>

(***************************************************************************)
(* The reader: an answer settles the turn that awaits it, then goes to its *)
(* caller (`settle`, and the Answer arm of `receive_classified`).          *)
(***************************************************************************)
ReaderStep(at) == reader' = [reader EXCEPT !.at = at]

\* `cut`: the frame was too long to keep, and only its id was read.
Receive(cut) ==
  /\ ReaderRuns /\ reader.at = "idle" /\ up # <<>>
  /\ up' = Tail(up)
  /\ LET k == Head(up).id
     IN  /\ awaiting' = IF Awaited(k) THEN 0 ELSE awaiting
         /\ reader' = [at |-> IF ~Awaited(k) THEN "answer"
                              ELSE IF cut THEN "failing" ELSE "resolve",
                       id |-> k, cancel |-> {},
                       end |-> IF cut THEN "failed" ELSE Head(up).end]
  /\ UNCHANGED <<turn, armed, table, timeline, user, cancels, finisher, agent>>

\* Under one hold: the armed cancel is taken and the turn resolved.
Taken == {}

Resolve ==
  /\ ReaderRuns /\ reader.at = "resolve"
  /\ turn' = reader.end
  /\ armed' = Taken
  /\ reader' = [reader EXCEPT !.at = "judge", !.cancel = armed]
  /\ UNCHANGED <<awaiting, table, timeline, user, cancels, finisher, wire>>

JudgeAnswer ==
  /\ ReaderRuns /\ reader.at = "judge"
  /\ Judge(reader.cancel, reader.end, reader.id)
  /\ ReaderStep("close")
  /\ UNCHANGED <<slots, table, open, rows, user, cancels, finisher, wire>>

Settled ==
  /\ ReaderRuns /\ reader.at \in {"close", "closing"}
  /\ CloseTurn(reader.end)
  /\ ReaderStep("answer")
  /\ UNCHANGED <<slots, table, notes, user, cancels, finisher, wire>>

\* `omitted` fails the turn, and no cancel is judged.
CutFails ==
  /\ ReaderRuns /\ reader.at = "failing"
  /\ turn' = "failed"
  /\ ReaderStep("closing")
  /\ UNCHANGED <<awaiting, armed, table, timeline, user, cancels, finisher, wire>>

Answer ==
  /\ ReaderRuns /\ reader.at = "answer"
  /\ pending' = pending \ {reader.id}
  /\ result' = IF reader.id \notin pending THEN result
               ELSE [result EXCEPT ![reader.id] = IF reader.end = "failed" THEN "error" ELSE "ok"]
  /\ reader' = Listening
  /\ UNCHANGED <<slots, sent, closed, timeline, user, cancels, finisher, wire>>

(***************************************************************************)
(* The teardown (`disconnected`, `end_turn`).                              *)
(***************************************************************************)
Disconnected ==
  /\ ReaderRuns /\ reader.at = "idle"
  /\ closed' = TRUE /\ pending' = {}
  /\ result' = [k \in Prompts |-> IF k \in pending THEN "error" ELSE result[k]]
  /\ ReaderStep("end2")
  /\ UNCHANGED <<slots, sent, timeline, user, cancels, finisher, wire>>

StopAwaiting ==
  /\ ReaderRuns /\ reader.at = "end2"
  /\ awaiting' = 0
  /\ ReaderStep("end3")
  /\ UNCHANGED <<turn, armed, table, timeline, user, cancels, finisher, wire>>

\* The cancel judges the turn only where the turn was still open; a turn that
\* runs is the last prompt's.
JudgedAtEnd == IF Running THEN armed ELSE {}

EndTurnVariant == turn
EndTurn == IF Running THEN "failed" ELSE turn

TurnEnds ==
  /\ ReaderRuns /\ reader.at = "end3"
  /\ turn' = EndTurn
  /\ armed' = {}
  /\ reader' = [at |-> "judgeEnd", id |-> sent, end |-> "failed", cancel |-> JudgedAtEnd]
  /\ UNCHANGED <<awaiting, table, timeline, user, cancels, finisher, wire>>

JudgeEnd ==
  /\ ReaderRuns /\ reader.at = "judgeEnd"
  /\ Judge(reader.cancel, "failed", reader.id)
  /\ ReaderStep("end4")
  /\ UNCHANGED <<slots, table, open, rows, user, cancels, finisher, wire>>

TimelineEnds ==
  /\ ReaderRuns /\ reader.at = "end4"
  /\ CloseTurn("failed")
  /\ reader' = [Listening EXCEPT !.at = "gone"]
  /\ UNCHANGED <<slots, table, notes, user, cancels, finisher, wire>>

(***************************************************************************)
(* The agent answers each prompt it is sent once, in any way and order.  A *)
(* cancel obliges it to nothing this module tells apart.                   *)
(***************************************************************************)
Replies(k, end) ==
  /\ k \in agent.holds /\ ~closed
  /\ agent' = [agent EXCEPT !.holds = @ \ {k}, !.said[k] = end]
  /\ up' = Append(up, [id |-> k, end |-> end])
  /\ UNCHANGED <<slots, table, timeline, tasks>>

UserGoesOn(u) ==
  \/ Refused(u) \/ Await(u) \/ Disarm(u) \/ Fly(u) \/ Opening(u)
  \/ Enqueue(u) \/ EnqueueFails(u) \/ Unsent(u) \/ UnsentFails(u)
  \/ Notify(u) \/ Noted(u) \/ Owing(u) \/ Forget(u) \/ Discard(u)
  \/ Switched(u) \/ NotSwitched(u) \/ Idling(u)
ReaderGoesOn ==
  \/ Receive(TRUE) \/ Receive(FALSE) \/ Resolve \/ JudgeAnswer \/ Settled
  \/ CutFails \/ Answer \/ StopAwaiting \/ TurnEnds \/ JudgeEnd \/ TimelineEnds
FinisherGoesOn(k) ==
  /\ FinisherRuns(k)
  /\ Finish(k) \/ FinishFails(k) \/ FinishCloses(k)

Next ==
  \/ \E u \in Users : \/ Submit(u) \/ Refuse(u) \/ Cancel(u) \/ Leave(u)
                      \/ SwitchAnswered(u) \/ UserGoesOn(u)
  \/ ReaderGoesOn \/ Disconnected
  \/ \E k \in Prompts : FinisherGoesOn(k)
  \/ \E k \in Prompts, end \in Ends : Replies(k, end)

Spec == Init /\ [][Next]_vars

\* The runtime schedules every task that can run; a thread gets its turn.
FairSpec ==
  /\ Spec
  /\ \A u \in Users : WF_vars(UserGoesOn(u))
  /\ WF_vars(ReaderGoesOn)
  /\ \A k \in Prompts : WF_vars(FinisherGoesOn(k))

(***************************************************************************)
(* Properties.                                                             *)
(***************************************************************************)
\* Whenever no task is between two locks: an answer is awaited exactly while
\* the turn runs, and the call it will come for is still in the table.  So no
\* turn waits for an answer nobody will recognise, and no answer awaited
\* belongs to a turn that is over (`awaiting`, client/turn.rs).
AwaitedRuns ==
  Quiet => /\ Running <=> awaiting # 0
           /\ awaiting # 0 => awaiting \in pending

\* With every task on a thread of its own, while the connection stands and no
\* task is between two locks: the answer awaited is still to come, and the
\* turn runs until it does.
AwaitedIsPending ==
  Quiet /\ ~closed =>
    /\ awaiting # 0 => awaiting \in pending
    /\ Running <=> awaiting # 0

\* Once the teardown is through and no task is between two locks, no turn
\* runs, none is awaited, no rule is armed and the timeline has no open turn
\* (`disconnected`, inbound.rs:243).
EndedWithConnection ==
  reader.at = "gone" /\ Quiet => ~Running /\ awaiting = 0 /\ armed = {} /\ open = 0

\* The timeline's turn of a prompt never carries another prompt's stop reason
\* (`TurnOutcome`, turn.rs:45).
RowsTellTheirOwn ==
  \A k \in Prompts : rows[k] \in {"ended", "cancelled"} => agent.said[k] = rows[k]

\* Every prompt sent has a turn of its own on the timeline, and the one still
\* open is the one awaited (turn.rs:113).
EveryPromptHasARow ==
  Quiet => /\ \A k \in 1..sent : rows[k] # "absent"
           /\ open = awaiting

\* Turn, timeline and connection tell one story, whichever task stopped last.
OneStory == TypeOK /\ EndedWithConnection /\ RowsTellTheirOwn /\ EveryPromptHasARow

\* The armed cancel judges the turn it was sent for or none, however often
\* turns, cancels, answers and the teardown race (turn.rs:222).
CancelJudgesItsTurn ==
  \A n \in notes : n.cancel = n.turn

\* A connection that goes away ends whatever turn is running: the window does
\* not wait for ever (inbound.rs:245).
TurnsEnd == closed ~> ~Running /\ open = 0
=============================================================================
