----------------------------- MODULE TurnProofs ------------------------------
(***************************************************************************)
(* What holds of a prompt's turn and of its cancels (Turn), for any number *)
(* of tasks, prompts and cancels and on any runtime, where no cancel is    *)
(* kept waiting by a full queue and no prompt is sent while the next       *)
(* session is being opened (crates/core/src/client/turn.rs); then, on one  *)
(* thread, what the timeline tells of each turn (timeline.rs).             *)
(***************************************************************************)
EXTENDS Turn, TLAPS

(***************************************************************************)
(* The invariant.                                                          *)
(***************************************************************************)
Somebody(places) == \E u \in Users : user[u].at \in places

\* A task that submits; a reader with an answer in its hands, or tearing down.
Prompting == {"await", "disarm", "fly", "opening", "enqueue", "unsent1", "unsent2", "unsent3"}
Handling == {"resolve", "judge", "close", "failing", "closing", "answer"}
Closing == {"end2", "end3", "judgeEnd", "end4", "gone"}
Forgotten == {"forget2", "forget3", "discard", "idling", "unsent2", "unsent3"} \cup Switching

\* The tasks of the one thread: what one submits or cancels is the last prompt,
\* and nobody submits while a session is being switched.
OneIsInside == \A u, v \in Users : Inside(u) /\ Inside(v) => u = v
MeansTheLast(u) ==
  /\ user[u].at \in Prompting \cup {"noted"} => user[u].for = sent
  /\ user[u].at \in Prompting => sent # 0
SwitchersAreAlone == Somebody(Prompting) => ~Somebody(Switching)
TasksAgree == OneIsInside /\ (\A u \in Users : MeansTheLast(u)) /\ SwitchersAreAlone

\* A prompt that is not yet on the wire is nobody's but its task's, and none was
\* answered that was not sent.
NobodysYet(k) ==
  /\ k \notin agent.holds /\ finisher[k] = "none"
  /\ \A i \in DOMAIN up : up[i].id # k
  /\ reader.at \in Handling => reader.id # k
WireAgrees ==
  /\ \A u \in Users : user[u].at \in Prompting => NobodysYet(user[u].for)
  /\ \A k \in Prompts : k > sent => NobodysYet(k)

\* The answer awaited is the last prompt's, and of no turn that was given up; its
\* call is in the table, and its turn runs once its task is past starting it.
AwaitedAgrees ==
  /\ awaiting \in {0, sent}
  /\ Somebody(Forgotten) => awaiting = 0
  /\ reader.at \in Handling => reader.id \notin {0, awaiting}
  /\ ~closed /\ Somebody({"await"}) => sent \in pending
  /\ ~closed /\ awaiting # 0 =>
       /\ Running \/ Somebody({"disarm", "fly"})
       /\ awaiting \in pending \/ Somebody({"unsent1"})

\* While the reader settles the last turn, between the lock it took the awaited
\* id under and the one it ends the turn under, nobody starts another.
SettlingHolds ==
  reader.at \in {"resolve", "failing"} =>
    /\ awaiting = 0 /\ reader.id = sent
    /\ ~Somebody(Prompting \cup {"switched", "notSwitched", "idling"})
    /\ \A u \in Users : user[u].at = "discard" => user[u].leaving = "restore"
    /\ Running \/ Somebody({"discard", "switching"})

\* An armed cancel is the last prompt's, once its task has disarmed the one
\* before; what the reader took is of the turn it ends.
CancelsAgree ==
  /\ armed \subseteq {sent} \/ Somebody({"await", "disarm"})
  /\ Somebody({"await", "disarm", "fly"}) => ~Running
  /\ reader.at \in {"judge", "judgeEnd"} => reader.cancel \subseteq {reader.id}

\* A turn runs no longer than its answer is awaited, but for the steps that end it.
RunsAgree ==
  ~closed =>
    /\ Running => \/ awaiting # 0 \/ Somebody({"unsent2", "forget2", "forget3"})
                  \/ reader.at \in {"resolve", "failing"}
    /\ Somebody({"disarm", "fly"}) => awaiting # 0

\* On one thread no task is submitting while the connection is torn down, so what
\* the teardown ended stays ended.
TeardownAgrees ==
  OneThread =>
    /\ closed => ~Somebody(Prompting)
    /\ reader.at \in {"end3", "judgeEnd", "end4", "gone"} => awaiting = 0
    /\ reader.at \in {"judgeEnd", "end4", "gone"} => ~Running /\ armed = {}

\* Only a teardown leaves a prompt to its waiting task to fail.
ClosedAgrees ==
  /\ closed <=> reader.at \in Closing
  /\ \A k \in Prompts : finisher[k] = "failing" => closed

IInv ==
  /\ TypeOK /\ TasksAgree /\ WireAgrees /\ AwaitedAgrees /\ SettlingHolds
  /\ CancelsAgree /\ ClosedAgrees /\ RunsAgree /\ TeardownAgrees

(***************************************************************************)
(* The steps, by what they do to the task that takes them.                 *)
(***************************************************************************)
Tasks == [at : UserSteps, for : 0..MaxPrompts, leaving : {"no"} \cup Leaves]

LEMMA Numbers == MaxPrompts \in Nat /\ Prompts = 1..MaxPrompts /\ 0 \notin Prompts
  BY TurnAssumption DEF Prompts

\* One task moves, and no other is in the middle of something.
Moves(u) ==
  /\ user' \in [Users -> Tasks]
  /\ \A v \in Users \ {u} : user'[v] = user[v]
Alone(u) == \A v \in Users \ {u} : user[v].at \in {"idle"} \cup Switching

\* A step that moves its task and nothing these parts speak of.
Walks(u) ==
  LET a == user[u]
      b == user'[u]
  IN /\ UNCHANGED <<slots, table, finisher, reader, wire>>
     /\ Moves(u)
     /\ \/ /\ Alone(u)
           /\ \/ a.at \in {"refused", "unsent3", "notSwitched"} /\ b.at = "idle"
              \/ a.at = "opening" /\ b.at = "enqueue" /\ b.for = a.for
              \/ a.at = "idle" /\ b.at \in {"notify", "owing"}
              \/ a.at = "notify" /\ b.at \in {"idle", "owing"}
              \/ a.at = "notify" /\ b.at = "noted" /\ b.for = sent
              \/ a.at = "owing" /\ b.at = "forget1"
              \/ a.at = "discard" /\ a.leaving = "restore" /\ b.at = "switching"
              \/ a.at = "discard" /\ a.leaving # "restore" /\ b.at = "idling"
              \/ a.at = "switched" /\ b.at \in {"discard", "idling"}
        \/ a.at = "switching" /\ b.at \in {"switched", "notSwitched"}
           /\ (reader.at = "idle" \/ closed)

LEMMA SetIs ==
  ASSUME TypeOK, NEW u \in Users, NEW w \in Tasks, user' = [user EXCEPT ![u] = w]
  PROVE  Moves(u) /\ user'[u] = w
  BY DEF TypeOK, Moves, Tasks

LEMMA StepIs ==
  ASSUME TypeOK, NEW u \in Users, NEW at \in UserSteps, Step(u, at)
  PROVE  Moves(u) /\ user'[u].at = at /\ user'[u].for = user[u].for
         /\ user'[u].leaving = user[u].leaving
<1>1. user[u] \in Tasks /\ user' = [user EXCEPT ![u] = [user[u] EXCEPT !.at = at]]
  BY DEF TypeOK, Tasks, Step
<1>2. /\ [user[u] EXCEPT !.at = at] \in Tasks /\ [user[u] EXCEPT !.at = at].at = at
      /\ [user[u] EXCEPT !.at = at].for = user[u].for
      /\ [user[u] EXCEPT !.at = at].leaving = user[u].leaving
  BY <1>1 DEF Tasks
<1> QED BY <1>1, <1>2, SetIs

LEMMA RestIs ==
  ASSUME TypeOK, NEW u \in Users, user' = [user EXCEPT ![u] = Resting]
  PROVE  Moves(u) /\ user'[u].at = "idle"
<1>1. Resting \in Tasks /\ Resting.at = "idle"
  BY Numbers DEF Resting, Tasks, UserSteps
<1> QED BY <1>1, SetIs

LEMMA RunsAlone ==
  ASSUME ~Stalls, NEW u \in Users, UserRuns(u)
  PROVE  Alone(u)
  BY DEF UserRuns, Alone, Inside, AwaitPoints

LEMMA WalksAre ==
  ASSUME ~Stalls, TypeOK, NEW u \in Users,
         \/ Refused(u) \/ Opening(u) \/ Cancel(u) \/ Notify(u) \/ Leave(u) \/ Owing(u)
         \/ Discard(u) \/ SwitchAnswered(u) \/ Switched(u) \/ NotSwitched(u)
  PROVE  Walks(u)
<1> USE DEF slots, table, wire
<1>1. CASE Refused(u) \/ NotSwitched(u)
  <2>1. Alone(u) /\ Moves(u) /\ user'[u].at = "idle"
    BY <1>1, RunsAlone, RestIs DEF Refused, NotSwitched
  <2> QED BY <1>1, <2>1 DEF Walks, Refused, NotSwitched
<1>2. CASE Opening(u)
  <2>1. Alone(u) /\ Moves(u) /\ user'[u].at = "enqueue" /\ user'[u].for = user[u].for
    BY <1>2, RunsAlone, StepIs DEF Opening, UserSteps
  <2> QED BY <1>2, <2>1 DEF Walks, Opening
<1>3. CASE Owing(u)
  <2>1. Alone(u) /\ Moves(u) /\ user'[u].at = "forget1"
    BY <1>3, RunsAlone, StepIs DEF Owing, UserSteps
  <2> QED BY <1>3, <2>1 DEF Walks, Owing
<1>4. CASE Cancel(u)
  <2>1. Alone(u) /\ Moves(u) /\ user'[u].at = "notify"
    BY <1>4, RunsAlone, StepIs DEF Cancel, UserSteps
  <2> QED BY <1>4, <2>1 DEF Walks, Cancel
<1>5. CASE Notify(u)
  <2>1. Alone(u) /\ user[u] \in Tasks /\ sent \in 0..MaxPrompts
    BY <1>5, RunsAlone DEF Notify, TypeOK, Tasks
  <2>2. CASE user' = [user EXCEPT ![u].at = "noted", ![u].for = sent]
    <3>1. PICK w : w = [user[u] EXCEPT !.at = "noted", !.for = sent]
      OBVIOUS
    <3>2. w \in Tasks /\ w.at = "noted" /\ w.for = sent
      BY <2>1, <3>1 DEF Tasks, UserSteps
    <3>3. user' = [user EXCEPT ![u] = w]
      BY <2>2, <3>1 DEF TypeOK
    <3> QED BY <1>5, <2>1, <3>2, <3>3, SetIs DEF Walks, Notify
  <2>3. CASE user' = [user EXCEPT ![u].at = IF user[u].leaving = "no" THEN "idle" ELSE "owing"]
    <3>1. PICK at \in {"idle", "owing"} : Step(u, at)
      BY <2>3 DEF Step
    <3>2. Moves(u) /\ user'[u].at = at
      BY <3>1, StepIs DEF UserSteps
    <3> QED BY <1>5, <2>1, <3>1, <3>2 DEF Walks, Notify
  <2> QED BY <1>5, <2>2, <2>3 DEF Notify
<1>6. CASE Leave(u)
  <2>1. PICK at \in {"notify", "owing"}, how \in Leaves :
          user' = [user EXCEPT ![u] = [at |-> at, for |-> 0, leaving |-> how]]
    BY <1>6 DEF Leave
  <2>2. PICK w : w = [at |-> at, for |-> 0, leaving |-> how]
    OBVIOUS
  <2>3. w \in Tasks /\ w.at = at
    BY <2>2, Numbers DEF Tasks, UserSteps
  <2>4. Alone(u) /\ Moves(u) /\ user'[u] = w
    BY <1>6, <2>1, <2>2, <2>3, RunsAlone, SetIs DEF Leave
  <2> QED BY <1>6, <2>1, <2>3, <2>4 DEF Walks, Leave
<1>7. CASE Discard(u)
  <2>1. Alone(u)
    BY <1>7, RunsAlone DEF Discard
  <2>2. CASE user[u].leaving = "restore"
    <3>1. Moves(u) /\ user'[u].at = "switching"
      BY <1>7, <2>2, StepIs DEF Discard, UserSteps
    <3> QED BY <1>7, <2>1, <2>2, <3>1 DEF Walks, Discard
  <2>3. CASE user[u].leaving # "restore"
    <3>1. Moves(u) /\ user'[u].at = "idling"
      BY <1>7, <2>3, StepIs DEF Discard, UserSteps
    <3> QED BY <1>7, <2>1, <2>3, <3>1 DEF Walks, Discard
  <2> QED BY <2>2, <2>3
<1>8. CASE SwitchAnswered(u)
  <2>1. PICK at \in {"switched", "notSwitched"} : Step(u, at) /\ (reader.at = "idle" \/ closed)
    BY <1>8 DEF SwitchAnswered
  <2>2. Moves(u) /\ user'[u].at = at
    BY <2>1, StepIs DEF UserSteps
  <2> QED BY <1>8, <2>1, <2>2 DEF Walks, SwitchAnswered
<1>9. CASE Switched(u)
  <2>1. PICK at \in {"discard", "idling"} : Step(u, at)
    BY <1>9 DEF Switched
  <2>2. Alone(u) /\ Moves(u) /\ user'[u].at = at
    BY <1>9, <2>1, RunsAlone, StepIs DEF Switched, UserSteps
  <2> QED BY <1>9, <2>1, <2>2 DEF Walks, Switched
<1> QED BY <1>1, <1>2, <1>3, <1>4, <1>5, <1>6, <1>7, <1>8, <1>9

\* The steps of a task that move more, each from where it is to where it goes.
Goes(u, from, to) ==
  /\ Alone(u) /\ Moves(u)
  /\ user[u].at = from /\ user'[u].at = to /\ user'[u].for = user[u].for

Submits(u) ==
  /\ Alone(u) /\ Moves(u) /\ user[u].at = "idle" /\ user'[u].at = "await"
  /\ user'[u].for = sent + 1
  /\ ~Running /\ ~Somebody(Switching) /\ ~closed
  /\ sent < MaxPrompts /\ sent' = sent + 1 /\ pending' = pending \cup {sent + 1}
  /\ UNCHANGED <<turn, awaiting, armed, closed, reader, finisher, up, agent>>
Refuses(u) ==
  /\ Goes(u, "idle", "refused") /\ ~Running /\ turn' = "failed"
  /\ UNCHANGED <<awaiting, armed, sent, pending, closed, reader, finisher, up, agent>>
Awaits(u) ==
  /\ Goes(u, "await", "disarm") /\ awaiting' = user[u].for
  /\ UNCHANGED <<turn, armed, sent, pending, closed, reader, finisher, up, agent>>
Disarms(u) ==
  /\ Goes(u, "disarm", "fly") /\ armed' = {}
  /\ UNCHANGED <<turn, awaiting, sent, pending, closed, reader, finisher, up, agent>>
Flies(u) ==
  /\ Goes(u, "fly", "opening") /\ turn' = "inflight"
  /\ UNCHANGED <<awaiting, armed, sent, pending, closed, reader, finisher, up, agent>>
Enqueues(u) ==
  /\ Alone(u) /\ Moves(u) /\ user[u].at = "enqueue" /\ user'[u].at = "idle"
  /\ agent'.holds \subseteq agent.holds \cup {user[u].for}
  /\ finisher' = [finisher EXCEPT ![user[u].for] = "waiting"]
  /\ UNCHANGED <<turn, awaiting, armed, sent, pending, closed, reader, up>>
Unqueues(u) ==
  /\ Goes(u, "enqueue", "unsent1") /\ pending' = pending \ {user[u].for}
  /\ UNCHANGED <<turn, awaiting, armed, sent, closed, reader, finisher, up, agent>>
Unsends(u) ==
  /\ \/ Goes(u, "unsent1", "unsent2") /\ awaiting = user[u].for /\ awaiting' = 0
     \/ /\ Alone(u) /\ Moves(u) /\ user[u].at = "unsent1" /\ user'[u].at = "idle"
        /\ awaiting # user[u].for /\ UNCHANGED awaiting
  /\ UNCHANGED <<turn, armed, sent, pending, closed, reader, finisher, up, agent>>
UnsentEnds(u) ==
  /\ Goes(u, "unsent2", "unsent3") /\ turn' = "failed"
  /\ UNCHANGED <<awaiting, armed, sent, pending, closed, reader, finisher, up, agent>>
Notes(u) ==
  /\ Alone(u) /\ Moves(u) /\ user[u].at = "noted" /\ user'[u].at \in {"idle", "owing"}
  /\ \/ turn = "inflight" /\ turn' = "cancelling" /\ armed' = {user[u].for}
     \/ UNCHANGED <<turn, armed>>
  /\ UNCHANGED <<awaiting, sent, pending, closed, reader, finisher, up, agent>>
Forgets(u) ==
  /\ \/ Goes(u, "forget1", "forget2") /\ awaiting' = 0 /\ UNCHANGED <<turn, armed>>
     \/ Goes(u, "forget2", "forget3") /\ armed' = {} /\ UNCHANGED <<turn, awaiting>>
     \/ /\ turn' = "idle" /\ UNCHANGED <<awaiting, armed>>
        /\ \/ Goes(u, "forget3", "discard") /\ user[u].leaving = "restore"
                /\ user'[u].leaving = "restore"
           \/ Goes(u, "forget3", "switching")
  /\ UNCHANGED <<sent, pending, closed, reader, finisher, up, agent>>
Idles(u) ==
  /\ Alone(u) /\ Moves(u) /\ user[u].at = "idling" /\ user'[u].at = "idle" /\ turn' = "idle"
  /\ UNCHANGED <<awaiting, armed, sent, pending, closed, reader, finisher, up, agent>>

UserTakes(u) ==
  \/ Walks(u) \/ Submits(u) \/ Refuses(u) \/ Awaits(u) \/ Disarms(u) \/ Flies(u) \/ Enqueues(u)
  \/ Unqueues(u) \/ Unsends(u) \/ UnsentEnds(u) \/ Notes(u) \/ Forgets(u) \/ Idles(u)

LEMMA UserSubmits ==
  ASSUME ~Stalls, ~Hasty, TypeOK, NEW u \in Users
  PROVE  /\ Submit(u) => Submits(u)
         /\ Refuse(u) => Refuses(u)
         /\ Await(u) => Awaits(u)
         /\ Disarm(u) => Disarms(u)
         /\ Fly(u) => Flies(u)
<1> USE DEF slots, table, wire, timeline
<1>1. ASSUME Submit(u) PROVE Submits(u)
  <2>1. PICK w : w = [at |-> "await", for |-> sent + 1, leaving |-> "no"]
    OBVIOUS
  <2>2. w \in Tasks /\ w.at = "await" /\ w.for = sent + 1
    BY <1>1, <2>1, Numbers DEF Submit, TypeOK, Tasks, UserSteps
  <2>3. Alone(u) /\ Moves(u) /\ user'[u] = w
    BY <1>1, <2>1, <2>2, RunsAlone, SetIs DEF Submit
  <2>4. ~Somebody(Switching)
    BY <1>1 DEF Submit, Somebody
  <2> QED BY <1>1, <2>2, <2>3, <2>4 DEF Submit, Submits
<1>2. ASSUME Refuse(u) PROVE Refuses(u)
  BY <1>2, RunsAlone, StepIs DEF Refuse, Refuses, Goes, UserSteps
<1>3. ASSUME Await(u) PROVE Awaits(u)
  BY <1>3, RunsAlone, StepIs DEF Await, Awaits, Goes, UserSteps
<1>4. ASSUME Disarm(u) PROVE Disarms(u)
  BY <1>4, RunsAlone, StepIs DEF Disarm, Disarmed, Disarms, Goes, UserSteps
<1>5. ASSUME Fly(u) PROVE Flies(u)
  BY <1>5, RunsAlone, StepIs DEF Fly, Flies, Goes, UserSteps
<1> QED BY <1>1, <1>2, <1>3, <1>4, <1>5

LEMMA UserSends ==
  ASSUME ~Stalls, TypeOK, NEW u \in Users
  PROVE  /\ Enqueue(u) => Enqueues(u)
         /\ EnqueueFails(u) => Unqueues(u)
         /\ Unsent(u) => Unsends(u)
         /\ UnsentFails(u) => UnsentEnds(u)
<1> USE DEF slots, table, wire, timeline
<1>1. ASSUME Enqueue(u) PROVE Enqueues(u)
  <2>1. Alone(u) /\ Moves(u) /\ user'[u].at = "idle"
    BY <1>1, RunsAlone, RestIs DEF Enqueue
  <2>2. agent'.holds \subseteq agent.holds \cup {user[u].for}
    BY <1>1 DEF Enqueue, TypeOK
  <2> QED BY <1>1, <2>1, <2>2 DEF Enqueue, Enqueues
<1>2. ASSUME EnqueueFails(u) PROVE Unqueues(u)
  BY <1>2, RunsAlone, StepIs DEF EnqueueFails, Unqueues, Goes, UserSteps
<1>3. ASSUME Unsent(u) PROVE Unsends(u)
  <2>1. CASE Awaited(user[u].for)
    BY <1>3, <2>1, RunsAlone, StepIs DEF Unsent, Unsends, Goes, UserSteps, Awaited
  <2>2. CASE ~Awaited(user[u].for)
    BY <1>3, <2>2, RunsAlone, RestIs DEF Unsent, Unsends, Awaited
  <2> QED BY <2>1, <2>2
<1>4. ASSUME UnsentFails(u) PROVE UnsentEnds(u)
  BY <1>4, RunsAlone, StepIs DEF UnsentFails, UnsentEnds, Goes, UserSteps
<1> QED BY <1>1, <1>2, <1>3, <1>4

LEMMA UserLeaves ==
  ASSUME ~Stalls, TypeOK, NEW u \in Users
  PROVE  /\ Noted(u) => Notes(u)
         /\ Forget(u) => Forgets(u)
         /\ Idling(u) => Idles(u)
<1> USE DEF slots, table, wire, timeline
<1>1. ASSUME Noted(u) PROVE Notes(u)
  <2>1. PICK at \in {"idle", "owing"} : Step(u, at)
    BY <1>1 DEF Noted
  <2>2. Alone(u) /\ Moves(u) /\ user'[u].at = at
    BY <1>1, <2>1, RunsAlone, StepIs DEF Noted, UserSteps
  <2> QED BY <1>1, <2>1, <2>2 DEF Noted, Notes, Arms
<1>2. ASSUME Forget(u) PROVE Forgets(u)
  <2>1. CASE user[u].at = "forget1"
    BY <1>2, <2>1, RunsAlone, StepIs DEF Forget, Forgets, Goes, UserSteps, ForgetAwaiting
  <2>2. CASE user[u].at = "forget2"
    BY <1>2, <2>2, RunsAlone, StepIs DEF Forget, Forgets, Goes, UserSteps
  <2>3. CASE user[u].at = "forget3" /\ user[u].leaving = "restore"
    BY <1>2, <2>3, RunsAlone, StepIs DEF Forget, Forgets, Goes, UserSteps
  <2>4. CASE user[u].at = "forget3" /\ user[u].leaving # "restore"
    BY <1>2, <2>4, RunsAlone, StepIs DEF Forget, Forgets, Goes, UserSteps
  <2> QED BY <1>2, <2>1, <2>2, <2>3, <2>4 DEF Forget
<1>3. ASSUME Idling(u) PROVE Idles(u)
  BY <1>3, RunsAlone, RestIs DEF Idling, Idles
<1> QED BY <1>1, <1>2, <1>3

\* The reader's steps, with no task moved.
Stays == UNCHANGED <<user, sent>>
ReaderGoes(from, to) == reader.at \in from /\ reader'.at = to /\ reader'.id = reader.id

Receives(k) ==
  /\ reader.at = "idle" /\ up # <<>> /\ Head(up).id = k /\ up' = Tail(up)
  /\ reader'.id = k
  /\ \/ awaiting = k /\ awaiting' = 0 /\ reader'.at \in {"resolve", "failing"}
     \/ awaiting # k /\ UNCHANGED awaiting /\ reader'.at = "answer"
  /\ UNCHANGED <<turn, armed, pending, closed, finisher, agent>>
Resolves ==
  /\ ReaderGoes({"resolve"}, "judge") /\ reader'.cancel = armed /\ turn' \in Ends /\ armed' = {}
  /\ UNCHANGED <<awaiting, pending, closed, finisher, wire>>
Proceeds ==
  /\ \/ ReaderGoes({"judge"}, "close") \/ ReaderGoes({"close", "closing"}, "answer")
     \/ ReaderGoes({"judgeEnd"}, "end4") \/ (reader.at = "end4" /\ reader'.at = "gone")
  /\ UNCHANGED <<slots, pending, closed, finisher, wire>>
Cuts ==
  /\ ReaderGoes({"failing"}, "closing") /\ turn' = "failed"
  /\ UNCHANGED <<awaiting, armed, pending, closed, finisher, wire>>
HandsOver ==
  /\ reader.at = "answer" /\ reader'.at = "idle" /\ pending' = pending \ {reader.id}
  /\ UNCHANGED <<slots, closed, finisher, wire>>
Disconnects ==
  /\ ReaderGoes({"idle"}, "end2") /\ closed' = TRUE /\ pending' = {}
  /\ OneThread => ~Somebody(Prompting)
  /\ UNCHANGED <<slots, finisher, wire>>
StopsAwaiting ==
  /\ ReaderGoes({"end2"}, "end3") /\ awaiting' = 0
  /\ UNCHANGED <<turn, armed, pending, closed, finisher, wire>>
EndsTurn ==
  /\ reader.at = "end3" /\ reader'.at = "judgeEnd" /\ reader'.id = sent
  /\ reader'.cancel = (IF Running THEN armed ELSE {})
  /\ turn' = (IF Running THEN "failed" ELSE turn) /\ armed' = {}
  /\ UNCHANGED <<awaiting, pending, closed, finisher, wire>>

ReaderTakes ==
  /\ Stays
  /\ \/ \E k \in Prompts : Receives(k)
     \/ Resolves \/ Proceeds \/ Cuts \/ HandsOver \/ Disconnects \/ StopsAwaiting \/ EndsTurn

\* And those of a prompt's waiting task and of the agent.
FinisherTakes(k) ==
  /\ Stays /\ UNCHANGED <<armed, pending, closed, reader, wire>>
  /\ \/ /\ finisher[k] = "waiting" /\ k \notin pending
        /\ \/ awaiting = k /\ awaiting' = 0 /\ finisher' = [finisher EXCEPT ![k] = "failing"]
           \/ UNCHANGED awaiting /\ finisher' = [finisher EXCEPT ![k] = "done"]
        /\ UNCHANGED turn
     \/ /\ finisher[k] = "failing" /\ turn' = "failed" /\ UNCHANGED awaiting
        /\ finisher' = [finisher EXCEPT ![k] = "closing"]
     \/ /\ finisher[k] = "closing" /\ UNCHANGED <<turn, awaiting>>
        /\ finisher' = [finisher EXCEPT ![k] = "done"]
AgentTakes(k) ==
  /\ Stays /\ k \in agent.holds /\ agent'.holds = agent.holds \ {k}
  /\ up' \in Seq([id : Prompts, end : Ends]) /\ Len(up') = Len(up) + 1
  /\ \A i \in DOMAIN up' : IF i = Len(up') THEN up'[i].id = k ELSE up'[i] = up[i]
  /\ UNCHANGED <<slots, pending, closed, reader, finisher>>

LEMMA HeadIsOne ==
  ASSUME NEW S, NEW s \in Seq(S), s # <<>>
  PROVE  Head(s) \in S /\ Tail(s) \in Seq(S)
  OBVIOUS

LEMMA ReaderActs ==
  ASSUME TypeOK,
         ReaderGoesOn \/ Disconnected
  PROVE  ReaderTakes
<1> USE DEF slots, table, wire, timeline, tasks, ReaderTakes, Stays, ReaderGoes, ReaderStep
<1>0. /\ reader \in [at : ReaderSteps, id : 0..MaxPrompts, end : Ends, cancel : SUBSET (0..MaxPrompts)]
      /\ up \in Seq([id : Prompts, end : Ends])
  BY DEF TypeOK
<1>1. ASSUME NEW cut \in BOOLEAN, Receive(cut) PROVE ReaderTakes
  <2>0. up # <<>>
    BY <1>1 DEF Receive
  <2>1. Head(up).id \in Prompts /\ up # <<>>
    <3>1. Head(up) \in [id : Prompts, end : Ends]
      BY <1>0, <2>0, HeadIsOne
    <3> QED BY <2>0, <3>1
  <2>2. Receives(Head(up).id)
    BY <1>1, <2>1 DEF Receive, Receives, Awaited
  <2>3. Stays
    BY <1>1 DEF Receive
  <2> QED BY <2>1, <2>2, <2>3
<1>2. CASE Resolve
  BY <1>0, <1>2 DEF Resolve, Resolves, Taken
<1>3. CASE JudgeAnswer \/ Settled \/ JudgeEnd
  BY <1>0, <1>3 DEF JudgeAnswer, Settled, JudgeEnd, TimelineEnds, Proceeds
<1>4. CASE TimelineEnds
  <2>1. reader'.at = "gone"
    BY <1>4 DEF TimelineEnds, Listening
  <2> QED BY <1>4, <2>1 DEF TimelineEnds, Proceeds
<1>5. CASE CutFails
  BY <1>0, <1>5 DEF CutFails, Cuts
<1>6. CASE Answer
  BY <1>0, <1>6 DEF Answer, HandsOver, Listening
<1>7. CASE Disconnected
  <2>1. OneThread => ~Somebody(Prompting)
    BY <1>7 DEF Disconnected, ReaderRuns, Inside, AwaitPoints, Somebody, Prompting, Switching
  <2> QED BY <1>0, <1>7, <2>1 DEF Disconnected, Disconnects
<1>8. CASE StopAwaiting
  BY <1>0, <1>8 DEF StopAwaiting, StopsAwaiting
<1>9. CASE TurnEnds
  BY <1>0, <1>9 DEF TurnEnds, EndsTurn, EndTurn, JudgedAtEnd
<1> QED BY <1>1, <1>2, <1>3, <1>4, <1>5, <1>6, <1>7, <1>8, <1>9 DEF ReaderGoesOn

LEMMA OthersTake ==
  ASSUME TypeOK, NEW k \in Prompts
  PROVE  /\ FinisherGoesOn(k) => FinisherTakes(k)
         /\ \A end \in Ends : Replies(k, end) => AgentTakes(k)
<1> USE DEF slots, table, wire, timeline, tasks, Stays
<1>1. ASSUME FinisherGoesOn(k) PROVE FinisherTakes(k)
  <2>1. CASE Finish(k)
    BY <2>1 DEF Finish, Awaited, FinisherTakes
  <2>2. CASE FinishFails(k)
    BY <2>2 DEF FinishFails, FinisherTakes
  <2>3. CASE FinishCloses(k)
    BY <2>3 DEF FinishCloses, FinisherTakes
  <2> QED BY <1>1, <2>1, <2>2, <2>3 DEF FinisherGoesOn
<1>2. ASSUME NEW end \in Ends, Replies(k, end) PROVE AgentTakes(k)
  <2>1. agent'.holds = agent.holds \ {k}
    BY <1>2 DEF Replies, TypeOK
  <2>2. PICK said : said = [id |-> k, end |-> end]
    OBVIOUS
  <2>3. up \in Seq([id : Prompts, end : Ends]) /\ up' = Append(up, said)
        /\ said \in [id : Prompts, end : Ends] /\ said.id = k
    BY <1>2, <2>2 DEF Replies, TypeOK
  <2>4. /\ up' \in Seq([id : Prompts, end : Ends]) /\ Len(up') = Len(up) + 1
        /\ \A i \in DOMAIN up' : IF i = Len(up') THEN up'[i].id = k ELSE up'[i] = up[i]
    BY <2>3
  <2> QED BY <1>2, <2>1, <2>4 DEF Replies, AgentTakes
<1> QED BY <1>1, <1>2

LEMMA StepsAre ==
  ASSUME ~Stalls, ~Hasty, TypeOK, [Next]_vars
  PROVE  \/ \E u \in Users : UserTakes(u)
         \/ ReaderTakes
         \/ \E k \in Prompts : FinisherTakes(k) \/ AgentTakes(k)
         \/ UNCHANGED vars
<1>1. ASSUME NEW u \in Users,
             Submit(u) \/ Refuse(u) \/ Cancel(u) \/ Leave(u) \/ SwitchAnswered(u) \/ UserGoesOn(u)
      PROVE  UserTakes(u)
  BY <1>1, WalksAre, UserSubmits, UserSends, UserLeaves DEF UserGoesOn, UserTakes
<1> QED BY <1>1, ReaderActs, OthersTake DEF Next

(***************************************************************************)
(* The tasks of the one thread.                                            *)
(***************************************************************************)
LEMMA InsideIs ==
  ASSUME ~Stalls, NEW u \in Users
  PROVE  Inside(u) <=> user[u].at \notin {"idle"} \cup Switching
  BY DEF Inside, AwaitPoints

LEMMA InsideIsNext ==
  ASSUME ~Stalls, NEW u \in Users
  PROVE  Inside(u)' <=> user'[u].at \notin {"idle"} \cup Switching
  BY DEF Inside, AwaitPoints

LEMMA TasksStay ==
  ASSUME TasksAgree, UNCHANGED <<user, sent>>
  PROVE  TasksAgree'
  BY DEF TasksAgree, OneIsInside, Inside, MeansTheLast, SwitchersAreAlone, Somebody

\* A task alone that goes on with the prompt it has, or ends; or begins the next.
LEMMA TasksGoOn ==
  ASSUME ~Stalls, TasksAgree, NEW u \in Users, Alone(u), Moves(u),
         user'[u].at \in Prompting \cup {"noted"} => user'[u].for = sent',
         user'[u].at \in Prompting => sent' # 0 /\ ~Somebody(Switching)
  PROVE  TasksAgree'
<1>1. OneIsInside'
  BY InsideIsNext DEF OneIsInside, Alone, Moves
<1>2. \A v \in Users : MeansTheLast(v)'
  BY DEF MeansTheLast, Alone, Moves, Prompting, Switching
<1>3. SwitchersAreAlone'
  BY DEF SwitchersAreAlone, Somebody, Alone, Moves, Prompting, Switching
<1> QED BY <1>1, <1>2, <1>3 DEF TasksAgree

LEMMA TasksKeep ==
  ASSUME ~Stalls, ~Hasty, TypeOK, TasksAgree, [Next]_vars
  PROVE  TasksAgree'
<1>0. sent \in Nat
  BY DEF TypeOK
<1>1. ASSUME NEW u \in Users, UserTakes(u) PROVE TasksAgree'
  <2>1. CASE Submits(u)
    BY <1>0, <2>1, TasksGoOn DEF Submits
  <2>2. CASE Walks(u) /\ user[u].at = "switching"
    <3>1. /\ \A v \in Users : Inside(v)' => Inside(v)
          /\ \A v \in Users \ {u} : user'[v] = user[v]
          /\ user'[u].at \in {"switched", "notSwitched"} /\ sent' = sent
      BY <2>2, InsideIs, InsideIsNext DEF Walks, Moves, Switching, table
    <3>2. OneIsInside' /\ \A v \in Users : MeansTheLast(v)'
      BY <3>1 DEF TasksAgree, OneIsInside, MeansTheLast, Prompting
    <3>3. SwitchersAreAlone'
      BY <2>2, <3>1 DEF TasksAgree, SwitchersAreAlone, Somebody, Switching, Prompting
    <3> QED BY <3>2, <3>3 DEF TasksAgree
  <2>3. CASE Walks(u) /\ user[u].at # "switching"
    <3>1. Alone(u) /\ Moves(u) /\ sent' = sent
      BY <2>3 DEF Walks, table
    <3>2. /\ user'[u].at \in Prompting => user[u].at \in Prompting /\ user'[u].for = user[u].for
          /\ user'[u].at = "noted" => user'[u].for = sent
      BY <2>3 DEF Walks, Prompting
    <3> QED BY <3>1, <3>2, TasksGoOn DEF TasksAgree, MeansTheLast, SwitchersAreAlone, Somebody
  <2>4. CASE ~Submits(u) /\ ~Walks(u)
    <3>1. Alone(u) /\ Moves(u) /\ sent' = sent
      BY <1>1, <2>4 DEF UserTakes, Refuses, Awaits, Disarms, Flies, Enqueues, Unqueues, Unsends,
                        UnsentEnds, Notes, Forgets, Idles, Goes
    <3>2. /\ user'[u].at \in Prompting => user[u].at \in Prompting /\ user'[u].for = user[u].for
          /\ user'[u].at # "noted"
      BY <1>1, <2>4 DEF UserTakes, Refuses, Awaits, Disarms, Flies, Enqueues, Unqueues, Unsends,
                        UnsentEnds, Notes, Forgets, Idles, Goes, Prompting
    <3> QED BY <3>1, <3>2, TasksGoOn DEF TasksAgree, MeansTheLast, SwitchersAreAlone, Somebody
  <2> QED BY <2>1, <2>2, <2>3, <2>4
<1>2. CASE ReaderTakes \/ (\E k \in Prompts : FinisherTakes(k) \/ AgentTakes(k)) \/ UNCHANGED vars
  BY <1>2, TasksStay DEF ReaderTakes, FinisherTakes, AgentTakes, Stays, vars, tasks, table
<1> QED BY <1>1, <1>2, StepsAre

(***************************************************************************)
(* Prompts that are not on the wire yet.                                   *)
(***************************************************************************)
\* A prompt stays nobody's while it is not sent.
LEMMA StaysNobodys ==
  ASSUME NEW k \in Prompts, NobodysYet(k), UNCHANGED <<up, finisher, reader>>,
         k \notin agent'.holds
  PROVE  NobodysYet(k)'
  BY DEF NobodysYet

LEMMA ReaderLeavesNobodys ==
  ASSUME TypeOK, NEW k \in Prompts, NobodysYet(k), ReaderTakes
  PROVE  NobodysYet(k)'
<1>1. ASSUME NEW j \in Prompts, Receives(j) PROVE NobodysYet(k)'
  <2>1. /\ up \in Seq([id : Prompts, end : Ends]) /\ up # <<>> /\ up[1].id = j
        /\ up' = Tail(up) /\ UNCHANGED <<agent, finisher>> /\ reader'.id = j
    BY <1>1 DEF TypeOK, Receives
  <2>2. \A i \in DOMAIN up' : i + 1 \in DOMAIN up /\ up'[i] = up[i + 1]
    BY <2>1
  <2>3. 1 \in DOMAIN up
    BY <2>1
  <2> QED BY <2>1, <2>2, <2>3 DEF NobodysYet
<1>2. CASE Resolves \/ Proceeds \/ Cuts \/ HandsOver \/ Disconnects \/ StopsAwaiting \/ EndsTurn
  <2>1. UNCHANGED <<up, agent, finisher>>
    BY <1>2 DEF Resolves, Proceeds, Cuts, HandsOver, Disconnects, StopsAwaiting, EndsTurn, wire
  <2>2. reader'.at \in Handling => reader.at \in Handling /\ reader'.id = reader.id
    BY <1>2 DEF Resolves, Proceeds, Cuts, HandsOver, Disconnects, StopsAwaiting, EndsTurn,
                ReaderGoes, Handling
  <2> QED BY <2>1, <2>2 DEF NobodysYet
<1> QED BY <1>1, <1>2 DEF ReaderTakes

LEMMA OthersLeaveNobodys ==
  ASSUME TypeOK, NEW k \in Prompts, NobodysYet(k), NEW j \in Prompts, FinisherTakes(j) \/ AgentTakes(j)
  PROVE  NobodysYet(k)'
<1>1. CASE FinisherTakes(j)
  <2>1. finisher'[k] = finisher[k]
    BY <1>1 DEF FinisherTakes, NobodysYet, TypeOK
  <2> QED BY <1>1, <2>1 DEF FinisherTakes, NobodysYet, wire
<1>2. CASE AgentTakes(j)
  <2>1. j # k /\ up \in Seq([id : Prompts, end : Ends])
    BY <1>2 DEF AgentTakes, NobodysYet, TypeOK
  <2>2. \A i \in DOMAIN up' : i = Len(up') \/ i \in DOMAIN up
    BY <1>2, <2>1 DEF AgentTakes
  <2> QED BY <1>2, <2>1, <2>2 DEF AgentTakes, NobodysYet
<1> QED BY <1>1, <1>2

LEMMA WireKeeps ==
  ASSUME ~Stalls, ~Hasty, TypeOK, TasksAgree, WireAgrees, [Next]_vars
  PROVE  WireAgrees'
<1>0. /\ sent \in 0..MaxPrompts
      /\ \A u \in Users : user[u].at \in Prompting => user[u].for \in Prompts /\ user[u].for = sent
  BY Numbers DEF TypeOK, TasksAgree, MeansTheLast
<1>1. ASSUME NEW u \in Users, UserTakes(u) PROVE WireAgrees'
  <2>1. CASE Submits(u)
    <3>1. sent + 1 \in Prompts /\ sent + 1 > sent /\ UNCHANGED <<up, finisher, reader, agent>>
      BY <1>0, <2>1, Numbers DEF Submits
    <3>2. \A k \in Prompts : NobodysYet(k)' <=> NobodysYet(k)
      BY <3>1 DEF NobodysYet
    <3>3. \A v \in Users : user'[v].at \in Prompting => user'[v].for = sent + 1
      BY <2>1 DEF Submits, Alone, Moves, Prompting, Switching
    <3>4. \A k \in Prompts : k > sent' => k > sent
      BY <1>0, <2>1, Numbers DEF Submits
    <3> QED BY <3>1, <3>2, <3>3, <3>4 DEF WireAgrees
  <2>2. CASE Enqueues(u)
    <3>1. \A v \in Users : user'[v].at \notin Prompting
      BY <2>2 DEF Enqueues, Alone, Moves, Prompting, Switching
    <3>2. user[u].for = sent /\ user[u].at \in Prompting
      BY <1>0, <2>2 DEF Enqueues, Prompting
    <3>3. ASSUME NEW k \in Prompts, k > sent' PROVE NobodysYet(k)'
      <4>1. k # sent /\ NobodysYet(k) /\ finisher'[k] = finisher[k]
        BY <1>0, <2>2, <3>2, <3>3, Numbers DEF Enqueues, WireAgrees, TypeOK
      <4> QED BY <2>2, <3>2, <4>1 DEF Enqueues, NobodysYet
    <3> QED BY <3>1, <3>3 DEF WireAgrees
  <2>3. CASE ~Submits(u) /\ ~Enqueues(u)
    <3>1. UNCHANGED <<sent, up, finisher, reader, agent>> /\ Moves(u)
      BY <1>1, <2>3 DEF UserTakes, Walks, Refuses, Awaits, Disarms, Flies, Unqueues, Unsends,
                        UnsentEnds, Notes, Forgets, Idles, Goes, table, wire
    <3>2. user'[u].at \in Prompting => user[u].at \in Prompting /\ user'[u].for = user[u].for
      BY <1>1, <2>3 DEF UserTakes, Walks, Refuses, Awaits, Disarms, Flies, Unqueues, Unsends,
                        UnsentEnds, Notes, Forgets, Idles, Goes, Prompting
    <3>3. \A k \in Prompts : NobodysYet(k)' <=> NobodysYet(k)
      BY <3>1 DEF NobodysYet
    <3>4. \A v \in Users : user'[v].at \in Prompting => user[v].at \in Prompting /\ user'[v].for = user[v].for
      BY <3>1, <3>2 DEF Moves
    <3> QED BY <1>0, <3>1, <3>3, <3>4 DEF WireAgrees
  <2> QED BY <2>1, <2>2, <2>3
<1>2. CASE ReaderTakes \/ \E j \in Prompts : FinisherTakes(j) \/ AgentTakes(j)
  <2>1. UNCHANGED <<user, sent>>
    BY <1>2 DEF ReaderTakes, FinisherTakes, AgentTakes, Stays
  <2>2. \A k \in Prompts : NobodysYet(k) => NobodysYet(k)'
    BY <1>2, ReaderLeavesNobodys, OthersLeaveNobodys
  <2> QED BY <1>0, <2>1, <2>2 DEF WireAgrees
<1>3. CASE UNCHANGED vars
  BY <1>3 DEF vars, tasks, table, wire, WireAgrees, NobodysYet
<1> QED BY <1>1, <1>2, <1>3, StepsAre

(***************************************************************************)
(* The answer awaited.                                                     *)
(***************************************************************************)
\* Where a task that moves alone leaves a place to, nobody is at another.
LEMMA NobodyElse ==
  ASSUME NEW u \in Users, Alone(u), NEW places, places \cap ({"idle"} \cup Switching) = {}
  PROVE  Somebody(places) => user[u].at \in places
  BY DEF Alone, Somebody

LEMMA NobodyElseNext ==
  ASSUME NEW u \in Users, Alone(u), Moves(u), NEW places, places \cap ({"idle"} \cup Switching) = {}
  PROVE  Somebody(places)' => user'[u].at \in places
  BY DEF Alone, Somebody, Moves

LEMMA OthersAreWhereTheyWere ==
  ASSUME NEW u \in Users, Moves(u), NEW places, user[u].at \in places <=> user'[u].at \in places
  PROVE  Somebody(places)' <=> Somebody(places)
  BY DEF Somebody, Moves

LEMMA WalksKeepAwaited ==
  ASSUME AwaitedAgrees, NEW u \in Users, Walks(u)
  PROVE  AwaitedAgrees'
<1>1. Moves(u) /\ UNCHANGED <<turn, awaiting, sent, pending, closed, reader>>
  BY DEF Walks, slots, table
<1>2. /\ Somebody({"await"})' <=> Somebody({"await"})
      /\ Somebody({"disarm", "fly"})' <=> Somebody({"disarm", "fly"})
      /\ Somebody({"unsent1"})' <=> Somebody({"unsent1"})
  BY <1>1, OthersAreWhereTheyWere DEF Walks
<1>3. Somebody(Forgotten)' => Somebody(Forgotten)
  <2>1. user'[u].at \in Forgotten => user[u].at \in Forgotten
    BY DEF Walks, Forgotten, Switching
  <2> QED BY <1>1, <2>1 DEF Somebody, Moves
<1> QED BY <1>1, <1>2, <1>3 DEF AwaitedAgrees, Running

LEMMA StartsKeepAwaited ==
  ASSUME TypeOK, TasksAgree, WireAgrees, AwaitedAgrees, NEW u \in Users,
         Submits(u) \/ Refuses(u) \/ Awaits(u) \/ Disarms(u) \/ Flies(u)
  PROVE  AwaitedAgrees'
<1>0. sent \in Nat
  BY DEF TypeOK
<1>1. Alone(u) /\ Moves(u) /\ UNCHANGED <<closed, reader>>
  BY DEF Submits, Refuses, Awaits, Disarms, Flies, Goes
<1>2. user[u].at \in Prompting => user[u].for = sent /\ sent # 0 /\ NobodysYet(sent) /\ ~Somebody(Switching)
  BY DEF TasksAgree, MeansTheLast, SwitchersAreAlone, Somebody, WireAgrees
<1>3. CASE Submits(u)
  <2>1. awaiting = 0
    <3>1. ~Somebody({"disarm", "fly"})
      BY <1>1, <1>3, NobodyElse DEF Submits, Switching
    <3> QED BY <1>3, <3>1 DEF Submits, AwaitedAgrees
  <2>2. sent + 1 \in pending'
    BY <1>3 DEF Submits
  <2> QED BY <1>0, <1>1, <1>3, <2>1, <2>2 DEF Submits, AwaitedAgrees
<1>4. CASE Refuses(u)
  <2>1. ~Somebody({"disarm", "fly"}) /\ ~Somebody({"unsent1"})
    BY <1>1, <1>4, NobodyElse DEF Refuses, Goes, Switching
  <2>2. awaiting = 0 \/ closed
    BY <1>4, <2>1 DEF Refuses, AwaitedAgrees
  <2>3. /\ Somebody(Forgotten)' => Somebody(Forgotten)
        /\ Somebody({"await"})' => Somebody({"await"})
    BY <1>1, <1>4 DEF Somebody, Refuses, Goes, Moves, Forgotten, Switching
  <2> QED BY <1>1, <1>4, <2>2, <2>3 DEF Refuses, AwaitedAgrees
<1>5. CASE Awaits(u)
  <2>1. user[u].at = "await" /\ user'[u].at = "disarm" /\ awaiting' = sent /\ UNCHANGED <<sent, pending>>
    BY <1>2, <1>5 DEF Awaits, Goes, Prompting
  <2>2. ~Somebody(Forgotten)' /\ ~Somebody({"await"})'
    <3>1. ~Somebody(Switching)
      BY <1>2, <2>1 DEF Prompting
    <3> QED BY <1>1, <2>1, <3>1 DEF Somebody, Alone, Moves, Forgotten, Switching
  <2>3. Somebody({"disarm", "fly"})' /\ Somebody({"await"})
    BY <2>1 DEF Somebody
  <2>4. reader'.at \in Handling => reader'.id \notin {0, sent}
    BY <1>1, <1>2, <2>1 DEF AwaitedAgrees, NobodysYet, Prompting
  <2> QED BY <1>1, <2>1, <2>2, <2>3, <2>4 DEF AwaitedAgrees
<1>6. CASE Disarms(u) \/ Flies(u)
  <2>1. UNCHANGED <<awaiting, sent, pending>> /\ (user'[u].at = "fly" \/ Running')
    BY <1>6 DEF Disarms, Flies, Goes, Running
  <2>2. /\ Somebody(Forgotten)' <=> Somebody(Forgotten)
        /\ Somebody({"await"})' <=> Somebody({"await"})
        /\ Somebody({"unsent1"})' <=> Somebody({"unsent1"})
    BY <1>1, <1>6, OthersAreWhereTheyWere DEF Disarms, Flies, Goes, Forgotten, Switching
  <2>3. Running' \/ Somebody({"disarm", "fly"})'
    BY <2>1 DEF Somebody
  <2> QED BY <1>1, <2>1, <2>2, <2>3 DEF AwaitedAgrees
<1> QED BY <1>3, <1>4, <1>5, <1>6

LEMMA EndsKeepAwaited ==
  ASSUME TypeOK, TasksAgree, AwaitedAgrees, NEW u \in Users,
         \/ Enqueues(u) \/ Unqueues(u) \/ Unsends(u) \/ UnsentEnds(u)
         \/ Notes(u) \/ Forgets(u) \/ Idles(u)
  PROVE  AwaitedAgrees'
<1>1. Alone(u) /\ Moves(u) /\ UNCHANGED <<sent, closed, reader>>
  BY DEF Enqueues, Unqueues, Unsends, UnsentEnds, Notes, Forgets, Idles, Goes
<1>2. user[u].at \in Prompting => user[u].for = sent /\ sent # 0
  BY DEF TasksAgree, MeansTheLast
<1>3. /\ ~Somebody({"await"})' /\ ~Somebody({"disarm", "fly"})
      /\ user[u].at # "unsent1" => ~Somebody({"unsent1"})
  <2>1. user[u].at \notin {"disarm", "fly"} /\ user'[u].at \notin {"await"}
    BY DEF Enqueues, Unqueues, Unsends, UnsentEnds, Notes, Forgets, Idles, Goes
  <2> QED BY <1>1, <2>1, NobodyElse, NobodyElseNext DEF Switching
<1>4. user[u].at \in Forgotten => awaiting = 0
  BY DEF AwaitedAgrees, Somebody
<1>5. CASE awaiting' = 0
  BY <1>1, <1>3, <1>5 DEF AwaitedAgrees
<1>6. CASE awaiting' # 0
  <2>1. /\ awaiting' = awaiting
        /\ \/ Enqueues(u) /\ user'[u].at = "idle"
           \/ Unqueues(u) /\ user'[u].at = "unsent1"
           \/ Notes(u) /\ user'[u].at \in {"idle", "owing"}
    <3>1. CASE Unsends(u)
      BY <1>2, <1>6, <3>1 DEF Unsends, Goes, AwaitedAgrees, Prompting
    <3>2. CASE UnsentEnds(u) \/ Forgets(u) \/ Idles(u)
      BY <1>4, <1>6, <3>2 DEF UnsentEnds, Forgets, Idles, Goes, Forgotten
    <3> QED BY <3>1, <3>2 DEF Enqueues, Unqueues, Notes, Goes
  <2>2. Somebody(Forgotten)' => Somebody(Forgotten)
    BY <1>1, <2>1 DEF Somebody, Moves, Forgotten, Switching
  <2>3. Running' <=> Running
    BY <2>1 DEF Enqueues, Unqueues, Notes, Running
  <2>4. ~closed => awaiting \in pending' \/ Somebody({"unsent1"})'
    <3>1. CASE Unqueues(u)
      BY <2>1, <3>1 DEF Unqueues, Somebody, Goes
    <3>2. CASE ~Unqueues(u)
      <4>1. pending' = pending /\ user[u].at # "unsent1"
        BY <2>1, <3>2 DEF Enqueues, Notes
      <4> QED BY <1>3, <1>6, <2>1, <4>1 DEF AwaitedAgrees
    <3> QED BY <3>1, <3>2
  <2> QED BY <1>1, <1>3, <1>6, <2>1, <2>2, <2>3, <2>4 DEF AwaitedAgrees
<1> QED BY <1>5, <1>6

LEMMA ReaderKeepsAwaited ==
  ASSUME TypeOK, WireAgrees, TasksAgree, AwaitedAgrees, SettlingHolds, ClosedAgrees, ReaderTakes
  PROVE  AwaitedAgrees'
<1>1. UNCHANGED <<user, sent>> /\ \A places : Somebody(places)' <=> Somebody(places)
  BY DEF ReaderTakes, Stays, Somebody
<1>2. CASE \E k \in Prompts : Receives(k)
  <2>1. PICK k \in Prompts : Receives(k)
    BY <1>2
  <2>2. k # 0 /\ awaiting' \in {0, awaiting} /\ awaiting' # k
    BY <2>1, Numbers DEF Receives
  <2> QED BY <1>1, <2>1, <2>2 DEF AwaitedAgrees, Receives, Running
<1>3. CASE Resolves \/ Cuts
  <2>1. awaiting = 0 /\ awaiting' = 0 /\ UNCHANGED <<closed, pending>>
    BY <1>3 DEF SettlingHolds, Resolves, Cuts, ReaderGoes
  <2>2. reader.at \in Handling /\ reader'.id = reader.id
    BY <1>3 DEF Resolves, Cuts, ReaderGoes, Handling
  <2> QED BY <1>1, <2>1, <2>2 DEF AwaitedAgrees
<1>4. CASE Proceeds
  <2>1. reader'.at \in Handling => reader.at \in Handling /\ reader'.id = reader.id
    BY <1>4 DEF Proceeds, ReaderGoes, Handling
  <2> QED BY <1>1, <1>4, <2>1 DEF Proceeds, AwaitedAgrees, slots, Running
<1>5. CASE HandsOver
  <2>1. reader.at \in Handling /\ reader'.at \notin Handling
    BY <1>5 DEF HandsOver, Handling
  <2>2. UNCHANGED <<turn, awaiting, closed>> /\ pending' = pending \ {reader.id}
    BY <1>5 DEF HandsOver, slots
  <2>3. Somebody({"await"}) => reader.id # sent
    BY <2>1 DEF Somebody, WireAgrees, NobodysYet, TasksAgree, MeansTheLast, Prompting
  <2> QED BY <1>1, <2>1, <2>2, <2>3 DEF AwaitedAgrees, Running
<1>6. CASE Disconnects \/ StopsAwaiting \/ EndsTurn
  <2>1. closed' /\ reader'.at \notin Handling /\ awaiting' \in {0, awaiting}
    BY <1>6 DEF Disconnects, StopsAwaiting, EndsTurn, ReaderGoes, ClosedAgrees, Closing, Handling, slots
  <2> QED BY <1>1, <2>1 DEF AwaitedAgrees
<1> QED BY <1>2, <1>3, <1>4, <1>5, <1>6 DEF ReaderTakes

LEMMA OthersKeepAwaited ==
  ASSUME AwaitedAgrees, ClosedAgrees, NEW k \in Prompts, FinisherTakes(k) \/ AgentTakes(k)
  PROVE  AwaitedAgrees'
<1>1. UNCHANGED <<user, sent, pending, closed, reader>> /\ \A places : Somebody(places)' <=> Somebody(places)
  BY DEF FinisherTakes, AgentTakes, Stays, Somebody
<1>2. /\ awaiting' \in {0, awaiting}
      /\ turn' = turn \/ closed
  BY DEF FinisherTakes, AgentTakes, ClosedAgrees, slots
<1> QED BY <1>1, <1>2 DEF AwaitedAgrees, Running

LEMMA AwaitedKeeps ==
  ASSUME ~Stalls, ~Hasty, IInv, [Next]_vars
  PROVE  AwaitedAgrees'
<1>1. ASSUME NEW u \in Users, UserTakes(u) PROVE AwaitedAgrees'
  BY <1>1, WalksKeepAwaited, StartsKeepAwaited, EndsKeepAwaited DEF UserTakes, IInv
<1>2. CASE UNCHANGED vars
  BY <1>2 DEF IInv, AwaitedAgrees, Somebody, Running, vars, slots, table, tasks
<1> QED BY <1>1, <1>2, StepsAre, ReaderKeepsAwaited, OthersKeepAwaited DEF IInv

(***************************************************************************)
(* The turn being settled.                                                 *)
(***************************************************************************)
LEMMA UsersKeepSettling ==
  ASSUME SettlingHolds, ClosedAgrees, NEW u \in Users, UserTakes(u)
  PROVE  SettlingHolds'
<1> SUFFICES ASSUME reader'.at \in {"resolve", "failing"} PROVE SettlingHolds'
  BY DEF SettlingHolds
<1>1. Moves(u) /\ UNCHANGED reader
  BY DEF UserTakes, Walks, Submits, Refuses, Awaits, Disarms, Flies, Enqueues, Unqueues, Unsends,
         UnsentEnds, Notes, Forgets, Idles, Goes
<1>2. ~closed /\ reader.at # "idle"
  BY <1>1 DEF ClosedAgrees, Closing
<1>3. /\ awaiting = 0 /\ reader.id = sent
      /\ \A v \in Users : /\ user[v].at \notin Prompting \cup {"switched", "notSwitched", "idling"}
                          /\ user[v].at = "discard" => user[v].leaving = "restore"
      /\ Running \/ Somebody({"discard", "switching"})
  BY <1>1 DEF SettlingHolds, Somebody
<1>4. \A v \in Users \ {u} : user'[v] = user[v]
  BY <1>1 DEF Moves
<1>5. CASE Walks(u)
  <2>1. /\ UNCHANGED <<sent, awaiting, turn>>
        /\ user'[u].at \notin Prompting \cup {"switched", "notSwitched", "idling", "discard"}
        /\ user[u].at \in {"discard", "switching"} => user'[u].at = "switching"
    BY <1>2, <1>3, <1>5 DEF Walks, table, slots, Prompting
  <2>2. Somebody({"discard", "switching"}) => Somebody({"discard", "switching"})'
    BY <1>4, <2>1 DEF Somebody
  <2> QED BY <1>1, <1>3, <1>4, <2>1, <2>2 DEF SettlingHolds, Somebody, Running
<1>6. CASE Forgets(u)
  <2>1. /\ UNCHANGED sent /\ awaiting' = 0
        /\ user'[u].at \in {"forget2", "forget3", "discard", "switching"}
        /\ user'[u].at = "discard" => user'[u].leaving = "restore"
        /\ turn' = turn \/ user'[u].at \in {"discard", "switching"}
        /\ user[u].at \notin {"discard", "switching"}
    BY <1>3, <1>6 DEF Forgets, Goes
  <2>2. user'[u].at \notin Prompting \cup {"switched", "notSwitched", "idling"}
    BY <2>1 DEF Prompting
  <2>3. Running' \/ Somebody({"discard", "switching"})'
    BY <1>3, <1>4, <2>1 DEF Somebody, Running
  <2> QED BY <1>1, <1>3, <1>4, <2>1, <2>2, <2>3 DEF SettlingHolds, Somebody
<1>7. CASE Refuses(u) \/ Notes(u)
  <2>1. /\ UNCHANGED <<sent, awaiting>>
        /\ user'[u].at \in {"refused", "idle", "owing"}
        /\ Running <=> Running'
        /\ user[u].at \notin {"discard", "switching"}
    BY <1>7 DEF Refuses, Notes, Goes, Running
  <2>2. user'[u].at \notin Prompting \cup {"switched", "notSwitched", "idling", "discard"}
    BY <2>1 DEF Prompting
  <2>3. Running' \/ Somebody({"discard", "switching"})'
    BY <1>3, <1>4, <2>1 DEF Somebody
  <2> QED BY <1>1, <1>3, <1>4, <2>1, <2>2, <2>3 DEF SettlingHolds, Somebody
<1>8. ~Submits(u)
  BY <1>3 DEF Submits, Somebody, Alone, Switching
<1>9. ~(\/ Awaits(u) \/ Disarms(u) \/ Flies(u) \/ Enqueues(u) \/ Unqueues(u) \/ Unsends(u)
        \/ UnsentEnds(u) \/ Idles(u))
  BY <1>3 DEF Awaits, Disarms, Flies, Enqueues, Unqueues, Unsends, UnsentEnds, Idles, Goes, Prompting
<1> QED BY <1>5, <1>6, <1>7, <1>8, <1>9 DEF UserTakes

LEMMA OthersKeepSettling ==
  ASSUME SettlingHolds, ClosedAgrees, NEW k \in Prompts, FinisherTakes(k) \/ AgentTakes(k)
  PROVE  SettlingHolds'
<1>1. UNCHANGED <<user, sent, reader>> /\ \A places : Somebody(places)' <=> Somebody(places)
  BY DEF FinisherTakes, AgentTakes, Stays, Somebody
<1>2. /\ awaiting' \in {0, awaiting}
      /\ turn' = turn \/ reader.at \in Closing
  BY DEF FinisherTakes, AgentTakes, ClosedAgrees, slots
<1> QED BY <1>1, <1>2 DEF SettlingHolds, Running, Closing

LEMMA ReaderKeepsSettling ==
  ASSUME TypeOK, TasksAgree, WireAgrees, AwaitedAgrees, SettlingHolds, ClosedAgrees, ReaderTakes
  PROVE  SettlingHolds'
<1>1. UNCHANGED <<user, sent>> /\ \A places : Somebody(places)' <=> Somebody(places)
  BY DEF ReaderTakes, Stays, Somebody
<1>2. CASE \E k \in Prompts : Receives(k) /\ awaiting = k
  <2>1. PICK k \in Prompts : Receives(k) /\ awaiting = k
    BY <1>2
  <2>2. /\ k = sent /\ awaiting' = 0 /\ reader'.id = sent /\ turn' = turn
        /\ ~closed /\ awaiting # 0
    BY <2>1, Numbers DEF Receives, AwaitedAgrees, ClosedAgrees, Closing
  <2>3. ~NobodysYet(sent)
    <3>1. up \in Seq([id : Prompts, end : Ends]) /\ up # <<>> /\ up[1].id = k
      BY <2>1 DEF TypeOK, Receives
    <3> QED BY <2>2, <3>1 DEF NobodysYet
  <2>4. ~Somebody(Prompting)
    BY <2>3 DEF Somebody, TasksAgree, MeansTheLast, WireAgrees
  <2>5. ~Somebody(Forgotten) /\ (Running \/ Somebody({"disarm", "fly"}))
    BY <2>2 DEF AwaitedAgrees
  <2>6. Running
    BY <2>4, <2>5 DEF Somebody, Prompting
  <2> QED BY <1>1, <2>2, <2>4, <2>5, <2>6 DEF SettlingHolds, Somebody, Forgotten, Switching, Running
<1>3. CASE ~\E k \in Prompts : Receives(k) /\ awaiting = k
  <2>1. reader'.at \notin {"resolve", "failing"}
    BY <1>3 DEF ReaderTakes, Receives, Resolves, Proceeds, Cuts, HandsOver, Disconnects,
                StopsAwaiting, EndsTurn, ReaderGoes
  <2> QED BY <2>1 DEF SettlingHolds
<1> QED BY <1>2, <1>3

LEMMA SettlingKeeps ==
  ASSUME ~Stalls, ~Hasty, IInv, [Next]_vars
  PROVE  SettlingHolds'
<1>1. CASE UNCHANGED vars
  BY <1>1 DEF IInv, SettlingHolds, Somebody, Running, vars, slots, table, tasks
<1> QED BY <1>1, StepsAre, UsersKeepSettling, ReaderKeepsSettling, OthersKeepSettling DEF IInv

(***************************************************************************)
(* The cancels, and the teardown.                                          *)
(***************************************************************************)
LEMMA UsersKeepCancels ==
  ASSUME TasksAgree, CancelsAgree, NEW u \in Users, UserTakes(u)
  PROVE  CancelsAgree'
<1>1. Moves(u) /\ UNCHANGED reader
  BY DEF UserTakes, Walks, Submits, Refuses, Awaits, Disarms, Flies, Enqueues, Unqueues, Unsends,
         UnsentEnds, Notes, Forgets, Idles, Goes
<1>2. reader'.at \in {"judge", "judgeEnd"} => reader'.cancel \subseteq {reader'.id}
  BY <1>1 DEF CancelsAgree
<1>3. CASE Submits(u)
  BY <1>1, <1>2, <1>3 DEF Submits, CancelsAgree, Somebody, Running
<1>4. CASE Awaits(u)
  <2>1. Somebody({"await", "disarm", "fly"}) /\ Somebody({"await", "disarm"})'
    BY <1>4 DEF Awaits, Goes, Somebody
  <2> QED BY <1>2, <1>4, <2>1 DEF Awaits, CancelsAgree, Running
<1>5. CASE Disarms(u)
  <2>1. Somebody({"await", "disarm", "fly"})
    BY <1>5 DEF Disarms, Goes, Somebody
  <2> QED BY <1>2, <1>5, <2>1 DEF Disarms, CancelsAgree, Running
<1>6. CASE Flies(u)
  <2>1. ~Somebody({"await", "disarm"}) /\ ~Somebody({"await", "disarm", "fly"})'
    BY <1>6, NobodyElse, NobodyElseNext DEF Flies, Goes, Switching
  <2> QED BY <1>2, <1>6, <2>1 DEF Flies, CancelsAgree
<1>7. CASE Notes(u)
  <2>1. /\ ~Somebody({"await", "disarm"}) /\ ~Somebody({"await", "disarm", "fly"})'
        /\ user[u].for = sent
    BY <1>7, NobodyElse, NobodyElseNext DEF Notes, Switching, TasksAgree, MeansTheLast
  <2> QED BY <1>2, <1>7, <2>1 DEF Notes, CancelsAgree
<1>8. CASE ~(Submits(u) \/ Awaits(u) \/ Disarms(u) \/ Flies(u) \/ Notes(u))
  <2>1. user[u].at \notin {"await", "disarm", "fly"} /\ user'[u].at \notin {"await", "disarm", "fly"}
    BY <1>8 DEF UserTakes, Walks, Refuses, Enqueues, Unqueues, Unsends, UnsentEnds, Forgets, Idles, Goes
  <2>2. /\ Somebody({"await", "disarm", "fly"})' <=> Somebody({"await", "disarm", "fly"})
        /\ Somebody({"await", "disarm"})' <=> Somebody({"await", "disarm"})
    BY <1>1, <2>1, OthersAreWhereTheyWere
  <2>3. /\ armed' \in {{}, armed} /\ sent' = sent
        /\ turn' = turn \/ ~Running'
    BY <1>8 DEF UserTakes, Walks, Refuses, Enqueues, Unqueues, Unsends, UnsentEnds, Forgets, Idles,
                Goes, Running, slots, table
  <2> QED BY <1>2, <2>2, <2>3 DEF CancelsAgree, Running
<1> QED BY <1>3, <1>4, <1>5, <1>6, <1>7, <1>8

LEMMA ReaderKeepsCancels ==
  ASSUME SettlingHolds, CancelsAgree, ReaderTakes
  PROVE  CancelsAgree'
<1>1. UNCHANGED <<user, sent>> /\ \A places : Somebody(places)' <=> Somebody(places)
  BY DEF ReaderTakes, Stays, Somebody
<1>2. CASE Resolves
  <2>1. reader'.id = sent /\ ~Somebody({"await", "disarm"})
    BY <1>2 DEF Resolves, ReaderGoes, SettlingHolds, Somebody, Prompting
  <2>2. reader'.cancel \subseteq {reader'.id} /\ armed' = {} /\ ~Running'
    BY <1>2, <2>1 DEF Resolves, CancelsAgree, Running, Ends
  <2> QED BY <2>2 DEF CancelsAgree
<1>3. CASE EndsTurn
  <2>1. Running => ~Somebody({"await", "disarm"})
    BY DEF CancelsAgree, Somebody
  <2>2. reader'.cancel \subseteq {reader'.id} /\ armed' = {} /\ ~Running'
    BY <1>3, <2>1 DEF EndsTurn, CancelsAgree, Running
  <2> QED BY <2>2 DEF CancelsAgree
<1>4. CASE ~Resolves /\ ~EndsTurn
  <2>1. /\ reader'.at \notin {"judge", "judgeEnd"} /\ UNCHANGED armed
        /\ turn' = turn \/ ~Running'
    BY <1>4 DEF ReaderTakes, Receives, Proceeds, Cuts, HandsOver, Disconnects,
                StopsAwaiting, ReaderGoes, Running, slots
  <2> QED BY <1>1, <2>1 DEF CancelsAgree, Running
<1> QED BY <1>2, <1>3, <1>4

LEMMA CancelsKeep ==
  ASSUME ~Stalls, ~Hasty, IInv, [Next]_vars
  PROVE  CancelsAgree'
<1>1. CASE \E k \in Prompts : FinisherTakes(k) \/ AgentTakes(k)
  <2>1. UNCHANGED <<user, sent, reader, armed>> /\ (turn' = turn \/ ~Running')
    BY <1>1 DEF FinisherTakes, AgentTakes, Stays, slots, Running
  <2> QED BY <2>1 DEF IInv, CancelsAgree, Somebody, Running
<1>2. CASE UNCHANGED vars
  BY <1>2 DEF IInv, CancelsAgree, Somebody, Running, vars, slots, table, tasks
<1> QED BY <1>1, <1>2, StepsAre, UsersKeepCancels, ReaderKeepsCancels DEF IInv

\* An answer that is awaited and yet out of the table was let go by the teardown.
LEMMA LetGo ==
  ASSUME IInv, NEW k \in Prompts, finisher[k] = "waiting", k \notin pending, awaiting = k
  PROVE  closed
<1>1. SUFFICES ASSUME ~closed PROVE FALSE
  OBVIOUS
<1>2. Somebody({"unsent1"}) /\ k = sent
  BY <1>1, Numbers DEF IInv, AwaitedAgrees
<1>3. NobodysYet(k)
  BY <1>2 DEF Somebody, IInv, WireAgrees, TasksAgree, MeansTheLast, Prompting
<1> QED BY <1>3 DEF NobodysYet

LEMMA ClosedKeeps ==
  ASSUME ~Stalls, ~Hasty, IInv, [Next]_vars
  PROVE  ClosedAgrees'
<1>0. TypeOK /\ ClosedAgrees
  BY DEF IInv
<1>1. ASSUME NEW u \in Users, UserTakes(u) PROVE ClosedAgrees'
  <2>1. UNCHANGED <<closed, reader>>
    BY <1>1 DEF UserTakes, Walks, Submits, Refuses, Awaits, Disarms, Flies, Enqueues, Unqueues,
                Unsends, UnsentEnds, Notes, Forgets, Idles, Goes, table
  <2>2. finisher' = finisher \/ finisher' = [finisher EXCEPT ![user[u].for] = "waiting"]
    BY <1>1 DEF UserTakes, Walks, Submits, Refuses, Awaits, Disarms, Flies, Enqueues, Unqueues,
                Unsends, UnsentEnds, Notes, Forgets, Idles, Goes
  <2>3. \A k \in Prompts : finisher'[k] = "failing" => finisher[k] = "failing"
    BY <1>0, <2>2 DEF TypeOK
  <2> QED BY <1>0, <2>1, <2>3 DEF ClosedAgrees
<1>2. CASE ReaderTakes
  <2>1. UNCHANGED finisher /\ (closed => closed')
    BY <1>2 DEF ReaderTakes, Receives, Resolves, Proceeds, Cuts, HandsOver, Disconnects,
                StopsAwaiting, EndsTurn
  <2>2. closed' <=> reader'.at \in Closing
    BY <1>0, <1>2 DEF ReaderTakes, Receives, Resolves, Proceeds, Cuts, HandsOver, Disconnects,
                StopsAwaiting, EndsTurn, ReaderGoes, ClosedAgrees, Closing
  <2> QED BY <1>0, <2>1, <2>2 DEF ClosedAgrees
<1>3. ASSUME NEW k \in Prompts, FinisherTakes(k) PROVE ClosedAgrees'
  <2>1. finisher[k] = "waiting" /\ k \notin pending /\ awaiting = k => closed
    BY LetGo
  <2>2. /\ UNCHANGED <<closed, reader>>
        /\ \A j \in Prompts : finisher'[j] = "failing" => finisher[j] = "failing" \/ closed
    BY <1>0, <1>3, <2>1 DEF FinisherTakes, TypeOK
  <2> QED BY <1>0, <2>2 DEF ClosedAgrees
<1>4. CASE (\E k \in Prompts : AgentTakes(k)) \/ UNCHANGED vars
  BY <1>0, <1>4 DEF AgentTakes, ClosedAgrees, vars, table, tasks
<1> QED BY <1>0, <1>1, <1>2, <1>3, <1>4, StepsAre

(***************************************************************************)
(* The types.                                                              *)
(***************************************************************************)
TimelineOK ==
  /\ open \in 0..MaxPrompts
  /\ rows \in [Prompts -> {"absent", "open", "left"} \cup Ends]
  /\ notes \subseteq [cancel : 0..MaxPrompts, turn : 0..MaxPrompts, end : {"ended", "failed"}]

LEMMA ClosesAreTyped ==
  ASSUME TypeOK, NEW end \in Ends, CloseTurn(end), UNCHANGED notes
  PROVE  TimelineOK'
  BY Numbers DEF TypeOK, TimelineOK, CloseTurn

LEMMA JudgesAreTyped ==
  ASSUME TypeOK, NEW k \in 0..MaxPrompts, NEW end \in Ends, NEW cancel \in SUBSET (0..MaxPrompts),
         Judge(cancel, end, k), UNCHANGED <<open, rows>>
  PROVE  TimelineOK'
<1>1. \A c \in cancel, e \in {"ended", "failed"} : [cancel |-> c, turn |-> k, end |-> e]
        \in [cancel : 0..MaxPrompts, turn : 0..MaxPrompts, end : {"ended", "failed"}]
  OBVIOUS
<1>2. end # "cancelled" => end \in {"ended", "failed"}
  BY DEF Ends
<1> QED BY <1>1, <1>2 DEF TypeOK, TimelineOK, Judge

LEMMA UserIsTyped ==
  ASSUME ~Stalls, ~Hasty, TypeOK, TasksAgree, NEW u \in Users,
         Submit(u) \/ Refuse(u) \/ Cancel(u) \/ Leave(u) \/ SwitchAnswered(u) \/ UserGoesOn(u)
  PROVE  TypeOK'
<1>0. /\ user[u].for \in 0..MaxPrompts /\ sent \in 0..MaxPrompts /\ 0 \in 0..MaxPrompts
      /\ user[u] \in Tasks /\ Prompts \subseteq 0..MaxPrompts
  BY Numbers DEF TypeOK, Tasks
<1>1. user' \in [Users -> Tasks]
  <2>1. UserTakes(u)
    BY WalksAre, UserSubmits, UserSends, UserLeaves DEF UserGoesOn, UserTakes
  <2>2. Moves(u)
    BY <2>1 DEF UserTakes, Walks, Submits, Refuses, Awaits, Disarms, Flies, Enqueues, Unqueues,
                Unsends, UnsentEnds, Notes, Forgets, Idles, Goes
  <2> QED BY <2>2 DEF Moves
<1> USE DEF slots, table, timeline, wire
<1>2. CASE Refused(u) \/ Opening(u) \/ Discard(u)
  <2>1. TimelineOK'
    <3>1. CASE Refused(u)
      BY <3>1, ClosesAreTyped DEF Refused, Ends
    <3>2. CASE Opening(u)
      BY <1>0, <3>2 DEF Opening, OpenTurn, TypeOK, TimelineOK
    <3>3. CASE Discard(u)
      BY <1>0, <3>3 DEF Discard, TypeOK, TimelineOK
    <3> QED BY <1>2, <3>1, <3>2, <3>3
  <2>2. UNCHANGED <<turn, awaiting, armed, sent, pending, closed, result, cancels, reader, finisher, up, agent>>
    BY <1>2 DEF Refused, Opening, Discard
  <2> QED BY <1>1, <2>1, <2>2 DEF TypeOK, TimelineOK, Tasks
<1>3. CASE Submit(u) \/ EnqueueFails(u)
  <2>1. UNCHANGED <<turn, awaiting, armed, closed, result, open, rows, notes, cancels, reader,
                    finisher, up, agent>>
    BY <1>3 DEF Submit, EnqueueFails
  <2>2. sent' \in 0..MaxPrompts /\ pending' \subseteq Prompts
    <3>1. CASE Submit(u)
      <4>1. sent' = sent + 1 /\ sent < MaxPrompts /\ pending' = pending \cup {sent + 1} /\ pending \subseteq Prompts
        BY <3>1 DEF Submit, TypeOK
      <4>2. sent + 1 \in Prompts
        BY <1>0, <4>1, Numbers
      <4> QED BY <1>0, <4>1, <4>2
    <3>2. CASE EnqueueFails(u)
      <4>1. sent' = sent /\ pending' = pending \ {user[u].for}
        BY <3>2 DEF EnqueueFails
      <4>2. pending \subseteq Prompts
        BY DEF TypeOK
      <4> QED BY <1>0, <4>1, <4>2
    <3> QED BY <1>3, <3>1, <3>2
  <2> QED BY <1>1, <2>1, <2>2 DEF TypeOK, Tasks
<1>4. CASE Enqueue(u)
  <2>1. PICK a : a = [agent EXCEPT !.holds = @ \cup {user[u].for}]
    OBVIOUS
  <2>2. user[u].for \in Prompts
    <3>1. user[u].for = sent /\ sent # 0
      BY <1>4 DEF Enqueue, TasksAgree, MeansTheLast, Prompting
    <3> QED BY <1>0, <3>1, Numbers
  <2>3. QED
    <3>1. a \in [holds : SUBSET Prompts, said : [Prompts -> {"none"} \cup Ends]]
      BY <2>1, <2>2 DEF TypeOK
    <3>2. agent' \in {a, agent}
      BY <1>4, <2>1 DEF Enqueue
    <3>3. finisher' \in [Prompts -> {"none", "waiting", "failing", "closing", "done"}]
      BY <1>4 DEF Enqueue, TypeOK
    <3> QED BY <1>1, <1>4, <3>1, <3>2, <3>3 DEF Enqueue, TypeOK, Tasks
<1>5. CASE Refuse(u) \/ Fly(u) \/ UnsentFails(u) \/ Idling(u)
  <2>1. turn' \in {"idle", "inflight", "failed"}
    BY <1>5 DEF Refuse, Fly, UnsentFails, Idling
  <2>2. UNCHANGED <<awaiting, armed, sent, pending, closed, result, open, rows, notes, cancels, reader,
                    finisher, up, agent>>
    BY <1>5 DEF Refuse, Fly, UnsentFails, Idling
  <2> QED BY <1>1, <2>1, <2>2 DEF TypeOK, Tasks, Ends
<1>7. CASE Await(u) \/ Disarm(u) \/ Unsent(u) \/ Noted(u) \/ Forget(u)
  <2>1. /\ turn' \in {"idle", "cancelling", turn}
        /\ awaiting' \in {0, awaiting, user[u].for}
        /\ armed' \in {{}, armed, {user[u].for}}
    BY <1>7 DEF Await, Disarm, Disarmed, Unsent, Noted, Forget, ForgetAwaiting
  <2>2. UNCHANGED <<sent, pending, closed, result, open, rows, notes, cancels, reader, finisher, up, agent>>
    BY <1>7 DEF Await, Disarm, Unsent, Noted, Forget
  <2>3. /\ turn' \in {"idle", "inflight", "cancelling"} \cup Ends
        /\ awaiting' \in 0..MaxPrompts /\ armed' \subseteq 0..MaxPrompts
    BY <1>0, <2>1 DEF TypeOK
  <2> QED BY <1>1, <2>2, <2>3 DEF TypeOK, Tasks
<1>6. CASE Cancel(u) \/ Leave(u) \/ Notify(u) \/ Owing(u) \/ SwitchAnswered(u) \/ Switched(u) \/ NotSwitched(u)
  <2>1. cancels' \in 0..MaxCancels
    BY <1>6, TurnAssumption DEF Cancel, Leave, Notify, Owing, SwitchAnswered, Switched, NotSwitched, TypeOK
  <2>2. UNCHANGED <<turn, awaiting, armed, sent, pending, closed, result, open, rows, notes, reader,
                    finisher, up, agent>>
    BY <1>6 DEF Cancel, Leave, Notify, Owing, SwitchAnswered, Switched, NotSwitched
  <2> QED BY <1>1, <2>1, <2>2 DEF TypeOK, Tasks
<1> QED BY <1>2, <1>3, <1>4, <1>5, <1>6, <1>7 DEF UserGoesOn

Readers == [at : ReaderSteps, id : 0..MaxPrompts, end : Ends, cancel : SUBSET (0..MaxPrompts)]

LEMMA ReaderIsTyped ==
  ASSUME TypeOK, ReaderGoesOn \/ Disconnected
  PROVE  TypeOK'
<1>0. /\ reader \in Readers /\ sent \in 0..MaxPrompts
      /\ up \in Seq([id : Prompts, end : Ends])
      /\ 0 \in 0..MaxPrompts /\ Prompts \subseteq 0..MaxPrompts
  BY Numbers DEF TypeOK, Readers
<1>1. \A at \in ReaderSteps : [reader EXCEPT !.at = at] \in Readers
  BY <1>0 DEF Readers
<1>2. Listening \in Readers /\ [Listening EXCEPT !.at = "gone"] \in Readers
  BY <1>0 DEF Listening, Readers, ReaderSteps, Ends
<1> USE DEF slots, table, timeline, wire, tasks
<1>3. ASSUME NEW cut \in BOOLEAN, Receive(cut) PROVE TypeOK'
  <2>1. up # <<>>
    BY <1>3 DEF Receive
  <2>2. /\ Head(up) \in [id : Prompts, end : Ends]
        /\ Tail(up) \in Seq([id : Prompts, end : Ends])
    BY <1>0, <2>1, HeadIsOne
  <2>3. PICK k \in Prompts, at \in {"answer", "failing", "resolve"}, end \in Ends :
          reader' = [at |-> at, id |-> k, cancel |-> {}, end |-> end]
    BY <1>3, <2>2 DEF Receive, Ends
  <2>4. reader' \in Readers
    BY <1>0, <2>3 DEF Readers, ReaderSteps
  <2>5. awaiting' \in 0..MaxPrompts
    BY <1>0, <1>3 DEF Receive, TypeOK
  <2> QED BY <1>3, <2>2, <2>4, <2>5 DEF Receive, TypeOK, Readers
<1>4. CASE Resolve
  <2>1. PICK r : r = [reader EXCEPT !.at = "judge", !.cancel = armed]
    OBVIOUS
  <2>2. r \in Readers /\ armed' \subseteq 0..MaxPrompts /\ turn' \in Ends
    BY <1>0, <1>4, <2>1 DEF Resolve, Taken, Readers, ReaderSteps, TypeOK
  <2> QED BY <1>4, <2>1, <2>2 DEF Resolve, TypeOK, Readers
<1>5. CASE JudgeAnswer \/ JudgeEnd
  <2>1. TimelineOK'
    <3>1. reader.id \in 0..MaxPrompts /\ reader.end \in Ends /\ "failed" \in Ends
          /\ reader.cancel \in SUBSET (0..MaxPrompts)
      BY <1>0 DEF Readers, Ends
    <3> QED BY <1>5, <3>1, JudgesAreTyped DEF JudgeAnswer, JudgeEnd
  <2>2. reader' \in Readers
    BY <1>1, <1>5 DEF JudgeAnswer, JudgeEnd, ReaderStep, ReaderSteps
  <2>3. UNCHANGED <<turn, awaiting, armed, sent, pending, closed, result, user, cancels, finisher, up, agent>>
    BY <1>5 DEF JudgeAnswer, JudgeEnd
  <2> QED BY <2>1, <2>2, <2>3 DEF TypeOK, TimelineOK, Readers
<1>6. CASE Settled \/ TimelineEnds
  <2>1. TimelineOK'
    <3>1. reader.end \in Ends /\ "failed" \in Ends
      BY <1>0 DEF Readers, Ends
    <3> QED BY <1>6, <3>1, ClosesAreTyped DEF Settled, TimelineEnds
  <2>2. reader' \in Readers
    BY <1>1, <1>2, <1>6 DEF Settled, TimelineEnds, ReaderStep, ReaderSteps
  <2>3. UNCHANGED <<turn, awaiting, armed, sent, pending, closed, result, user, cancels, finisher, up, agent>>
    BY <1>6 DEF Settled, TimelineEnds
  <2> QED BY <2>1, <2>2, <2>3 DEF TypeOK, TimelineOK, Readers
<1>7. CASE CutFails \/ StopAwaiting
  <2>1. reader' \in Readers
    BY <1>1, <1>7 DEF CutFails, StopAwaiting, ReaderStep, ReaderSteps
  <2>2. turn' \in {"idle", "inflight", "cancelling"} \cup Ends /\ awaiting' \in 0..MaxPrompts
    BY <1>0, <1>7 DEF CutFails, StopAwaiting, TypeOK, Ends
  <2>3. UNCHANGED <<armed, sent, pending, closed, result, open, rows, notes, user, cancels, finisher, up, agent>>
    BY <1>7 DEF CutFails, StopAwaiting
  <2> QED BY <2>1, <2>2, <2>3 DEF TypeOK, Readers
<1>8. CASE Answer
  <2>1. result' \in [Prompts -> {"none", "ok", "error"}] /\ pending' \subseteq Prompts /\ reader' \in Readers
    BY <1>2, <1>8 DEF Answer, TypeOK
  <2>2. UNCHANGED <<turn, awaiting, armed, sent, closed, open, rows, notes, user, cancels, finisher, up, agent>>
    BY <1>8 DEF Answer
  <2> QED BY <2>1, <2>2 DEF TypeOK, Readers
<1>9. CASE Disconnected
  <2>1. /\ result' \in [Prompts -> {"none", "ok", "error"}] /\ pending' \subseteq Prompts
        /\ closed' \in BOOLEAN /\ reader' \in Readers
    BY <1>1, <1>9 DEF Disconnected, TypeOK, ReaderStep, ReaderSteps
  <2>2. UNCHANGED <<turn, awaiting, armed, sent, open, rows, notes, user, cancels, finisher, up, agent>>
    BY <1>9 DEF Disconnected
  <2> QED BY <2>1, <2>2 DEF TypeOK, Readers
<1>10. CASE TurnEnds
  <2>1. JudgedAtEnd \in SUBSET (0..MaxPrompts)
    BY DEF JudgedAtEnd, TypeOK
  <2>2. reader' \in Readers
    BY <1>0, <1>10, <2>1 DEF TurnEnds, Readers, ReaderSteps, Ends
  <2>3. turn' \in {"idle", "inflight", "cancelling"} \cup Ends /\ armed' \subseteq 0..MaxPrompts
    BY <1>10 DEF TurnEnds, EndTurn, TypeOK, Ends
  <2>4. UNCHANGED <<awaiting, sent, pending, closed, result, open, rows, notes, user, cancels, finisher, up, agent>>
    BY <1>10 DEF TurnEnds
  <2> QED BY <2>2, <2>3, <2>4 DEF TypeOK, Readers
<1> QED BY <1>3, <1>4, <1>5, <1>6, <1>7, <1>8, <1>9, <1>10 DEF ReaderGoesOn

LEMMA OthersAreTyped ==
  ASSUME TypeOK, NEW k \in Prompts,
         FinisherGoesOn(k) \/ \E end \in Ends : Replies(k, end)
  PROVE  TypeOK'
<1> USE DEF slots, table, timeline, wire, tasks
<1>1. CASE Finish(k) \/ FinishFails(k)
  <2>1. /\ finisher' \in [Prompts -> {"none", "waiting", "failing", "closing", "done"}]
        /\ turn' \in {"idle", "inflight", "cancelling"} \cup Ends /\ awaiting' \in 0..MaxPrompts
    BY <1>1, Numbers DEF Finish, FinishFails, TypeOK, Ends
  <2>2. UNCHANGED <<armed, sent, pending, closed, result, open, rows, notes, user, cancels, reader, up, agent>>
    BY <1>1 DEF Finish, FinishFails
  <2> QED BY <2>1, <2>2 DEF TypeOK
<1>2. CASE FinishCloses(k)
  <2>1. TimelineOK'
    BY <1>2, ClosesAreTyped DEF FinishCloses, Ends
  <2>2. finisher' \in [Prompts -> {"none", "waiting", "failing", "closing", "done"}]
    BY <1>2 DEF FinishCloses, TypeOK
  <2>3. UNCHANGED <<turn, awaiting, armed, sent, pending, closed, result, user, cancels, reader, up, agent>>
    BY <1>2 DEF FinishCloses
  <2> QED BY <2>1, <2>2, <2>3 DEF TypeOK, TimelineOK
<1>3. ASSUME NEW end \in Ends, Replies(k, end) PROVE TypeOK'
  <2>1. PICK said, a : said = [id |-> k, end |-> end] /\ a = [agent EXCEPT !.holds = @ \ {k}, !.said[k] = end]
    OBVIOUS
  <2>2. said \in [id : Prompts, end : Ends] /\ up' = Append(up, said) /\ agent' = a
    BY <1>3, <2>1 DEF Replies
  <2>3. a \in [holds : SUBSET Prompts, said : [Prompts -> {"none"} \cup Ends]]
    BY <2>1 DEF TypeOK
  <2>4. up' \in Seq([id : Prompts, end : Ends])
    BY <2>2 DEF TypeOK
  <2>5. UNCHANGED <<turn, awaiting, armed, sent, pending, closed, result, open, rows, notes, user,
                    cancels, reader, finisher>>
    BY <1>3 DEF Replies
  <2> QED BY <2>2, <2>3, <2>4, <2>5 DEF TypeOK
<1> QED BY <1>1, <1>2, <1>3 DEF FinisherGoesOn

LEMMA TypesKeep ==
  ASSUME ~Stalls, ~Hasty, TypeOK, TasksAgree, [Next]_vars
  PROVE  TypeOK'
<1>1. CASE UNCHANGED vars
  BY <1>1 DEF TypeOK, vars, slots, table, timeline, wire, tasks
<1> QED BY <1>1, UserIsTyped, ReaderIsTyped, OthersAreTyped DEF Next

(***************************************************************************)
(* Turns that run, and the teardown on one thread.                         *)
(***************************************************************************)
LEMMA UsersKeepRuns ==
  ASSUME TasksAgree, RunsAgree, NEW u \in Users, UserTakes(u)
  PROVE  RunsAgree'
<1>1. Moves(u) /\ UNCHANGED <<closed, reader>>
  BY DEF UserTakes, Walks, Submits, Refuses, Awaits, Disarms, Flies, Enqueues, Unqueues, Unsends,
         UnsentEnds, Notes, Forgets, Idles, Goes, table
<1>2. CASE Walks(u) \/ Submits(u) \/ Enqueues(u) \/ Unqueues(u) \/ Notes(u)
  <2>1. /\ user[u].at \notin {"unsent2", "forget2", "forget3", "disarm", "fly"}
        /\ user'[u].at \notin {"unsent2", "forget2", "forget3", "disarm", "fly"}
        /\ UNCHANGED awaiting /\ (Running' <=> Running)
    BY <1>2 DEF Walks, Submits, Enqueues, Unqueues, Notes, Goes, Running, slots
  <2>2. /\ Somebody({"unsent2", "forget2", "forget3"})' <=> Somebody({"unsent2", "forget2", "forget3"})
        /\ Somebody({"disarm", "fly"})' <=> Somebody({"disarm", "fly"})
    BY <1>1, <2>1, OthersAreWhereTheyWere
  <2> QED BY <1>1, <2>1, <2>2 DEF RunsAgree
<1>3. CASE Refuses(u) \/ UnsentEnds(u) \/ Idles(u)
  <2>1. /\ user[u].at \notin {"disarm", "fly"} /\ user'[u].at \notin {"disarm", "fly"}
        /\ UNCHANGED awaiting /\ ~Running'
    BY <1>3 DEF Refuses, UnsentEnds, Idles, Goes, Running
  <2>2. Somebody({"disarm", "fly"})' <=> Somebody({"disarm", "fly"})
    BY <1>1, <2>1, OthersAreWhereTheyWere
  <2> QED BY <1>1, <2>1, <2>2 DEF RunsAgree
<1>4. CASE Awaits(u)
  <2>1. awaiting' # 0
    BY <1>4 DEF Awaits, Goes, TasksAgree, MeansTheLast, Prompting
  <2> QED BY <2>1 DEF RunsAgree
<1>5. CASE Disarms(u) \/ Flies(u)
  <2>1. Somebody({"disarm", "fly"}) /\ UNCHANGED awaiting
    BY <1>5 DEF Disarms, Flies, Goes, Somebody
  <2> QED BY <1>1, <2>1 DEF RunsAgree
<1>6. CASE Unsends(u) \/ Forgets(u)
  <2>1. Alone(u) /\ user[u].at \notin {"disarm", "fly"} /\ user'[u].at \notin {"disarm", "fly"}
    BY <1>6 DEF Unsends, Forgets, Goes
  <2>2. ~Somebody({"disarm", "fly"})'
    BY <1>1, <2>1, NobodyElseNext DEF Switching
  <2>3. \/ user'[u].at \in {"unsent2", "forget2", "forget3"} \/ ~Running'
        \/ /\ user[u].at = "unsent1" /\ user'[u].at = "idle" /\ UNCHANGED <<awaiting, turn>>
    BY <1>6 DEF Unsends, Forgets, Goes, Running
  <2>4. CASE user[u].at = "unsent1" /\ user'[u].at = "idle" /\ UNCHANGED <<awaiting, turn>>
    <3>1. Somebody({"unsent2", "forget2", "forget3"})' <=> Somebody({"unsent2", "forget2", "forget3"})
      BY <1>1, <2>4, OthersAreWhereTheyWere
    <3> QED BY <1>1, <2>2, <2>4, <3>1 DEF RunsAgree, Running
  <2>5. CASE user'[u].at \in {"unsent2", "forget2", "forget3"} \/ ~Running'
    <3>1. ~Running' \/ Somebody({"unsent2", "forget2", "forget3"})'
      BY <2>5 DEF Somebody
    <3> QED BY <2>2, <3>1 DEF RunsAgree
  <2> QED BY <2>3, <2>4, <2>5
<1> QED BY <1>2, <1>3, <1>4, <1>5, <1>6 DEF UserTakes

LEMMA ReaderKeepsRuns ==
  ASSUME TypeOK, TasksAgree, WireAgrees, AwaitedAgrees, RunsAgree, ClosedAgrees, ReaderTakes
  PROVE  RunsAgree'
<1>1. UNCHANGED <<user, sent>> /\ \A places : Somebody(places)' <=> Somebody(places)
  BY DEF ReaderTakes, Stays, Somebody
<1>2. CASE \E k \in Prompts : Receives(k)
  <2>1. PICK k \in Prompts : Receives(k)
    BY <1>2
  <2>2. CASE awaiting # k
    BY <1>1, <2>1, <2>2 DEF Receives, RunsAgree, Running
  <2>3. CASE awaiting = k
    <3>1. k = sent /\ reader'.at \in {"resolve", "failing"}
      BY <2>1, <2>3, Numbers DEF Receives, AwaitedAgrees
    <3>2. ~NobodysYet(sent)
      <4>1. up \in Seq([id : Prompts, end : Ends]) /\ up # <<>> /\ up[1].id = k
        BY <2>1 DEF TypeOK, Receives
      <4> QED BY <3>1, <4>1 DEF NobodysYet
    <3>3. ~Somebody({"disarm", "fly"})
      BY <3>2 DEF Somebody, TasksAgree, MeansTheLast, WireAgrees, Prompting
    <3> QED BY <1>1, <3>1, <3>3 DEF RunsAgree
  <2> QED BY <2>2, <2>3
<1>3. CASE Resolves \/ Cuts
  <2>1. ~Running' /\ UNCHANGED <<awaiting, closed>>
    BY <1>3 DEF Resolves, Cuts, Running, Ends
  <2> QED BY <1>1, <2>1 DEF RunsAgree
<1>4. CASE Proceeds \/ HandsOver
  <2>1. reader.at \notin {"resolve", "failing"} /\ UNCHANGED <<turn, awaiting, closed>>
    BY <1>4 DEF Proceeds, HandsOver, ReaderGoes, slots
  <2> QED BY <1>1, <2>1 DEF RunsAgree, Running
<1>5. CASE Disconnects \/ StopsAwaiting \/ EndsTurn
  <2>1. closed'
    BY <1>5 DEF Disconnects, StopsAwaiting, EndsTurn, ReaderGoes, ClosedAgrees, Closing
  <2> QED BY <2>1 DEF RunsAgree
<1> QED BY <1>2, <1>3, <1>4, <1>5 DEF ReaderTakes

LEMMA RunsKeep ==
  ASSUME ~Stalls, ~Hasty, IInv, [Next]_vars
  PROVE  RunsAgree'
<1>1. ASSUME NEW k \in Prompts, FinisherTakes(k) \/ AgentTakes(k) PROVE RunsAgree'
  <2>1. UNCHANGED <<user, closed, reader>> /\ \A places : Somebody(places)' <=> Somebody(places)
    BY <1>1 DEF FinisherTakes, AgentTakes, Stays, Somebody
  <2>2. UNCHANGED <<turn, awaiting>> \/ closed
    BY <1>1, LetGo DEF FinisherTakes, AgentTakes, slots, IInv, ClosedAgrees
  <2> QED BY <2>1, <2>2 DEF IInv, RunsAgree, Running
<1>2. CASE UNCHANGED vars
  BY <1>2 DEF IInv, RunsAgree, Somebody, Running, vars, slots, table, tasks
<1> QED BY <1>1, <1>2, StepsAre, UsersKeepRuns, ReaderKeepsRuns DEF IInv

LEMMA TeardownKeeps ==
  ASSUME ~Stalls, ~Hasty, IInv, [Next]_vars
  PROVE  TeardownAgrees'
<1> SUFFICES ASSUME OneThread PROVE TeardownAgrees'
  BY DEF TeardownAgrees
<1>0. TeardownAgrees /\ ClosedAgrees
  BY DEF IInv
<1>1. ASSUME NEW u \in Users, UserTakes(u) PROVE TeardownAgrees'
  <2>1. Moves(u) /\ UNCHANGED <<closed, reader>>
    BY <1>1 DEF UserTakes, Walks, Submits, Refuses, Awaits, Disarms, Flies, Enqueues, Unqueues,
                Unsends, UnsentEnds, Notes, Forgets, Idles, Goes, table
  <2>2. closed => \A v \in Users : user[v].at \notin Prompting
    BY <1>0 DEF TeardownAgrees, Somebody
  <2>3. closed => /\ user'[u].at \notin Prompting
                  /\ awaiting' \in {0, awaiting} /\ armed' \in {{}, armed, {user[u].for}}
                  /\ ~Running => ~Running' /\ armed' \in {{}, armed}
    BY <1>1, <2>2 DEF UserTakes, Walks, Submits, Refuses, Awaits, Disarms, Flies, Enqueues, Unqueues,
                Unsends, UnsentEnds, Notes, Forgets, Idles, Goes, slots, Prompting, Running
  <2>4. closed => ~Somebody(Prompting)'
    BY <2>1, <2>2, <2>3 DEF Somebody, Moves
  <2> QED BY <1>0, <2>1, <2>3, <2>4 DEF TeardownAgrees, ClosedAgrees, Closing
<1>2. CASE ReaderTakes
  <2>1. Somebody(Prompting)' <=> Somebody(Prompting)
    BY <1>2 DEF ReaderTakes, Stays, Somebody
  <2>2. closed' => closed \/ Disconnects
    BY <1>2 DEF ReaderTakes, Receives, Resolves, Proceeds, Cuts, HandsOver, StopsAwaiting, EndsTurn
  <2>3. closed' => ~Somebody(Prompting)'
    BY <1>0, <2>1, <2>2 DEF TeardownAgrees, Disconnects
  <2>4. reader'.at \in {"end3", "judgeEnd", "end4", "gone"} => awaiting' = 0
    BY <1>0, <1>2 DEF ReaderTakes, Receives, Resolves, Proceeds, Cuts, HandsOver, Disconnects,
                      StopsAwaiting, EndsTurn, ReaderGoes, TeardownAgrees, slots
  <2>5. reader'.at \in {"judgeEnd", "end4", "gone"} => ~Running' /\ armed' = {}
    BY <1>0, <1>2 DEF ReaderTakes, Receives, Resolves, Proceeds, Cuts, HandsOver, Disconnects,
                      StopsAwaiting, EndsTurn, ReaderGoes, TeardownAgrees, slots, Running
  <2> QED BY <2>3, <2>4, <2>5 DEF TeardownAgrees
<1>3. CASE \E k \in Prompts : FinisherTakes(k) \/ AgentTakes(k)
  <2>1. UNCHANGED <<user, closed, reader, armed>> /\ awaiting' \in {0, awaiting} /\ (~Running => ~Running')
    BY <1>3 DEF FinisherTakes, AgentTakes, Stays, slots, Running
  <2> QED BY <1>0, <2>1 DEF TeardownAgrees, Somebody
<1>4. CASE UNCHANGED vars
  BY <1>0, <1>4 DEF TeardownAgrees, Somebody, Running, vars, slots, table, tasks
<1> QED BY <1>0, <1>1, <1>2, <1>3, <1>4, StepsAre DEF IInv

(***************************************************************************)
(* The theorems.                                                           *)
(***************************************************************************)
LEMMA InitIInv == Init => IInv
<1> SUFFICES ASSUME Init PROVE IInv
  OBVIOUS
<1>1. TypeOK
  <2>0. 0 \in 0..MaxPrompts /\ 0 \in 0..MaxCancels
    BY TurnAssumption
  <2>1. user \in [Users -> [at : UserSteps, for : 0..MaxPrompts, leaving : {"no"} \cup Leaves]]
    BY <2>0 DEF Init, Resting, UserSteps
  <2>2. reader \in [at : ReaderSteps, id : 0..MaxPrompts, end : Ends, cancel : SUBSET (0..MaxPrompts)]
    BY <2>0 DEF Init, Listening, ReaderSteps, Ends
  <2>3. up \in Seq([id : Prompts, end : Ends])
    BY DEF Init
  <2>4. agent \in [holds : SUBSET Prompts, said : [Prompts -> {"none"} \cup Ends]]
    BY DEF Init
  <2> QED BY <2>0, <2>1, <2>2, <2>3, <2>4 DEF Init, TypeOK
<1>2. \A places : Somebody(places) => "idle" \in places
  BY DEF Init, Somebody, Resting
<1>3. TasksAgree
  BY <1>2 DEF Init, TasksAgree, OneIsInside, Inside, AwaitPoints, MeansTheLast, SwitchersAreAlone,
              Resting, Prompting
<1>4. WireAgrees
  BY DEF Init, WireAgrees, NobodysYet, Resting, Prompting, Listening, Handling
<1>5. AwaitedAgrees /\ SettlingHolds /\ RunsAgree
  BY <1>2 DEF Init, AwaitedAgrees, SettlingHolds, RunsAgree, Listening, Handling, Running
<1>6. CancelsAgree /\ ClosedAgrees /\ TeardownAgrees
  BY <1>2 DEF Init, CancelsAgree, ClosedAgrees, TeardownAgrees, Listening, Closing, Running
<1> QED BY <1>1, <1>3, <1>4, <1>5, <1>6 DEF IInv

LEMMA NextKeeps ==
  ASSUME ~Stalls, ~Hasty, IInv, [Next]_vars
  PROVE  IInv'
<1>1. TypeOK /\ TasksAgree /\ WireAgrees
  BY DEF IInv
<1>2. TypeOK' /\ TasksAgree' /\ WireAgrees'
  BY <1>1, TypesKeep, TasksKeep, WireKeeps
<1> QED BY <1>2, AwaitedKeeps, SettlingKeeps, CancelsKeep, ClosedKeeps, RunsKeep, TeardownKeeps DEF IInv

\* The notes change only where the reader judges a cancel.
LEMMA NotesKeep ==
  ASSUME IInv, CancelJudgesItsTurn, [Next]_vars
  PROVE  CancelJudgesItsTurn'
<1>1. CASE JudgeAnswer \/ JudgeEnd
  <2>1. reader.cancel \subseteq {reader.id}
    BY <1>1 DEF IInv, CancelsAgree, JudgeAnswer, JudgeEnd
  <2>2. PICK end : Judge(reader.cancel, end, reader.id)
    BY <1>1 DEF JudgeAnswer, JudgeEnd
  <2>3. \A n \in notes' : n \in notes \/ n.cancel = n.turn
    BY <2>1, <2>2 DEF Judge
  <2> QED BY <2>3 DEF CancelJudgesItsTurn
<1>2. CASE UNCHANGED notes
  BY <1>2 DEF CancelJudgesItsTurn
<1>3. CASE ~JudgeAnswer /\ ~JudgeEnd
  <2> USE DEF timeline
  <2>1. ASSUME NEW u \in Users,
               Submit(u) \/ Refuse(u) \/ Cancel(u) \/ Leave(u) \/ SwitchAnswered(u) \/ UserGoesOn(u)
        PROVE  UNCHANGED notes
    <3>1. CASE Submit(u) \/ Refuse(u) \/ Cancel(u) \/ Leave(u) \/ SwitchAnswered(u)
      BY <3>1 DEF Submit, Refuse, Cancel, Leave, SwitchAnswered
    <3>2. CASE Refused(u) \/ Await(u) \/ Disarm(u) \/ Fly(u) \/ Opening(u) \/ Enqueue(u) \/ EnqueueFails(u)
      BY <3>2 DEF Refused, Await, Disarm, Fly, Opening, Enqueue, EnqueueFails
    <3>3. CASE Unsent(u) \/ UnsentFails(u) \/ Notify(u) \/ Noted(u) \/ Owing(u)
      BY <3>3 DEF Unsent, UnsentFails, Notify, Noted, Owing
    <3>4. CASE Forget(u) \/ Discard(u) \/ Switched(u) \/ NotSwitched(u) \/ Idling(u)
      BY <3>4 DEF Forget, Discard, Switched, NotSwitched, Idling
    <3> QED BY <2>1, <3>1, <3>2, <3>3, <3>4 DEF UserGoesOn
  <2>2. ASSUME ReaderGoesOn \/ Disconnected PROVE UNCHANGED notes
    <3>1. CASE Receive(TRUE) \/ Receive(FALSE)
      BY <3>1 DEF Receive
    <3>2. CASE Resolve \/ Settled \/ CutFails \/ Answer
      BY <3>2 DEF Resolve, Settled, CutFails, Answer
    <3>3. CASE StopAwaiting \/ TurnEnds \/ TimelineEnds \/ Disconnected
      BY <3>3 DEF StopAwaiting, TurnEnds, TimelineEnds, Disconnected
    <3> QED BY <1>3, <2>2, <3>1, <3>2, <3>3 DEF ReaderGoesOn
  <2>3. ASSUME NEW k \in Prompts, FinisherGoesOn(k) \/ \E end \in Ends : Replies(k, end)
        PROVE  UNCHANGED notes
    BY <2>3 DEF FinisherGoesOn, Finish, FinishFails, FinishCloses, Replies
  <2>4. UNCHANGED notes
    BY <2>1, <2>2, <2>3 DEF Next, vars
  <2> QED BY <1>2, <2>4
<1> QED BY <1>1, <1>3

\* The cancel a user sends judges the turn it was sent for or none, in whatever
\* order the turns' tasks, the reader and the teardown run, on one thread or on
\* many (`cancel`, turn.rs:222; `settle` and `disconnected`, inbound.rs).
THEOREM CancelsAreJudged ==
  ASSUME ~Stalls, ~Hasty
  PROVE  Spec => []CancelJudgesItsTurn
<1>1. Init => IInv /\ CancelJudgesItsTurn
  BY InitIInv DEF Init, CancelJudgesItsTurn
<1>2. IInv /\ CancelJudgesItsTurn /\ [Next]_vars => (IInv /\ CancelJudgesItsTurn)'
  BY NextKeeps, NotesKeep
<1> QED BY <1>1, <1>2, PTL DEF Spec

\* Between the steps of every task, and while the connection stands, a turn runs
\* exactly while its answer is awaited, and that answer is still to come: no
\* prompt is left running for ever and none ends before its answer
\* (`awaiting`, client/turn.rs).
THEOREM AwaitedToTheEnd ==
  ASSUME ~Stalls, ~Hasty
  PROVE  Spec => []AwaitedIsPending
<1>1. IInv => AwaitedIsPending
  BY DEF IInv, AwaitedAgrees, RunsAgree, AwaitedIsPending, Quiet, Somebody, ReaderInside
<1>2. IInv /\ [Next]_vars => IInv'
  BY NextKeeps
<1> QED BY InitIInv, <1>1, <1>2, PTL DEF Spec

\* On one thread, the command line's, that holds after the teardown as well: it
\* leaves no turn running and no answer awaited (`end_turn`, inbound.rs).
THEOREM AwaitedOnOneThread ==
  ASSUME ~Stalls, ~Hasty, OneThread
  PROVE  Spec => []AwaitedRuns
<1>1. IInv => AwaitedRuns
  BY DEF IInv, AwaitedAgrees, RunsAgree, ClosedAgrees, TeardownAgrees, AwaitedRuns, Quiet, Somebody,
         ReaderInside, Closing
<1>2. IInv /\ [Next]_vars => IInv'
  BY NextKeeps
<1> QED BY InitIInv, <1>1, <1>2, PTL DEF Spec

(***************************************************************************)
(* On one thread, where no session/new is refused: the timeline's turns.   *)
(***************************************************************************)
\* A task that leaves a session says how.
Leaving == {"owing", "forget1", "forget2", "forget3", "discard", "idling"} \cup Switching
LeaversSay == \A u \in Users : user[u].at \in Leaving => user[u].leaving \in {"new", "restore"}

\* Each prompt is answered once, and what the reader has is what was answered.
SaidAgrees ==
  /\ \A k \in agent.holds : finisher[k] # "none" /\ agent.said[k] = "none"
  /\ \A k \in Prompts : agent.said[k] # "none" => finisher[k] # "none"
  /\ \A i \in DOMAIN up : agent.said[up[i].id] = up[i].end
  /\ reader.at \in {"resolve", "judge", "close"} => agent.said[reader.id] = reader.end
  /\ reader.at \in {"failing", "closing"} => reader.end = "failed"

\* A prompt has no row until its task has opened its turn.
Starting == {"await", "disarm", "fly", "opening"}
RowsAgree ==
  \A k \in 1..sent : rows[k] = "absent" => k = sent /\ Somebody(Starting)

\* The open turn is the awaited one, but between the locks of whoever opens it,
\* ends it or leaves it; a task that leaves has closed it by when it says so.
Handled == {"resolve", "judge", "close", "failing", "closing"}
Between == {"disarm", "fly", "opening", "unsent2", "unsent3", "forget2", "forget3", "discard"}
OpenIsAwaited ==
  \/ open = awaiting
  \/ Somebody(Between)
  \/ \E u \in Users : user[u].at \in Switching /\ user[u].leaving = "new"
  \/ reader.at \in Handled \cup {"end3", "judgeEnd", "end4"}
TasksOpenRight(u) ==
  /\ user[u].at \in Starting \cup {"idling"} => open = 0
  /\ user[u].at \in {"disarm", "fly", "opening"} => awaiting = sent
  /\ user[u].at = "refused" => awaiting = 0
  /\ user[u].at \in Switching /\ user[u].leaving # "new" => open = 0
  /\ user[u].at = "notSwitched" /\ user[u].leaving = "new" => closed
ReaderOpensRight ==
  /\ reader.at \in Handled => open = reader.id /\ awaiting = 0
  /\ reader.at = "gone" => open = 0
OpenAgrees == OpenIsAwaited /\ (\A u \in Users : TasksOpenRight(u)) /\ ReaderOpensRight
NobodyFinishes == \A k \in Prompts : ~FinisherInside(k)

StoryInv ==
  /\ IInv /\ LeaversSay /\ SaidAgrees /\ RowsAgree /\ OpenAgrees /\ NobodyFinishes
  /\ RowsTellTheirOwn

\* On one thread a task runs alone.
LEMMA OneThreadRuns ==
  ASSUME OneThread, ~Stalls
  PROVE  /\ \A u \in Users : UserRuns(u) => Alone(u) /\ reader.at \in {"idle", "gone"}
         /\ ReaderRuns => \A u \in Users : user[u].at \in {"idle"} \cup Switching
         /\ \A k \in Prompts : FinisherRuns(k) =>
              /\ \A u \in Users : user[u].at \in {"idle"} \cup Switching
              /\ reader.at \in {"idle", "gone"}
  BY InsideIs DEF UserRuns, ReaderRuns, FinisherRuns, ReaderInside, Alone

\* So no task of a prompt fails it: the answer it awaits settles it, or the
\* teardown.
LEMMA FinishersKeep ==
  ASSUME OneThread, ~Stalls, ~Hasty, IInv, NobodyFinishes, [Next]_vars
  PROVE  NobodyFinishes' /\ \A k \in Prompts : FinisherGoesOn(k) => UNCHANGED <<open, rows, awaiting>>
<1>1. ASSUME NEW k \in Prompts, FinisherGoesOn(k)
      PROVE  UNCHANGED <<open, rows, awaiting>> /\ finisher' = [finisher EXCEPT ![k] = "done"]
  <2>1. Finish(k)
    BY <1>1 DEF FinisherGoesOn, NobodyFinishes, FinisherInside, FinishFails, FinishCloses
  <2>2. /\ \A u \in Users : user[u].at \in {"idle"} \cup Switching
        /\ reader.at \in {"idle", "gone"}
    BY <1>1, OneThreadRuns DEF FinisherGoesOn
  <2>3. k \notin pending /\ k # 0
    BY <2>1, Numbers DEF Finish
  <2>4. ~closed /\ awaiting # 0 => awaiting \in pending
    BY <2>2 DEF IInv, AwaitedAgrees, Somebody, Switching
  <2>5. closed => awaiting = 0
    BY <2>2 DEF IInv, ClosedAgrees, TeardownAgrees, Closing
  <2>6. ~Awaited(k)
    BY <2>3, <2>4, <2>5 DEF Awaited
  <2> QED BY <2>1, <2>6 DEF Finish, timeline
<1>2. \A k \in Prompts : FinisherGoesOn(k) => NobodyFinishes'
  BY <1>1 DEF NobodyFinishes, FinisherInside, IInv, TypeOK
<1>3. ASSUME NEW u \in Users, UserTakes(u) PROVE NobodyFinishes'
  BY <1>3 DEF UserTakes, Walks, Submits, Refuses, Awaits, Disarms, Flies, Enqueues, Unqueues,
              Unsends, UnsentEnds, Notes, Forgets, Idles, NobodyFinishes, FinisherInside, IInv, TypeOK
<1>4. ReaderTakes => NobodyFinishes'
  BY DEF ReaderTakes, Receives, Resolves, Proceeds, Cuts, HandsOver, Disconnects, StopsAwaiting,
         EndsTurn, NobodyFinishes, FinisherInside
<1>5. \A k \in Prompts : AgentTakes(k) => NobodyFinishes'
  BY DEF AgentTakes, NobodyFinishes, FinisherInside
<1>6. UNCHANGED vars => NobodyFinishes'
  BY DEF vars, tasks, NobodyFinishes, FinisherInside
<1>7. TypeOK
  BY DEF IInv
<1>8. \/ \E u \in Users : UserTakes(u)
      \/ ReaderTakes \/ (\E k \in Prompts : FinisherGoesOn(k) \/ AgentTakes(k)) \/ UNCHANGED vars
  <2>1. ASSUME NEW u \in Users,
               Submit(u) \/ Refuse(u) \/ Cancel(u) \/ Leave(u) \/ SwitchAnswered(u) \/ UserGoesOn(u)
        PROVE  UserTakes(u)
    BY <1>7, <2>1, WalksAre, UserSubmits, UserSends, UserLeaves DEF UserGoesOn, UserTakes
  <2> QED BY <1>7, <2>1, ReaderActs, OthersTake DEF Next
<1> QED BY <1>1, <1>2, <1>3, <1>4, <1>5, <1>6, <1>8

\* A task's record, and how it leaves where no session/new is refused.
LEMMA LeavingIs ==
  ASSUME "refused" \notin Leaves, TypeOK, NEW u \in Users
  PROVE  user[u] \in Tasks /\ user[u].leaving \in {"no", "new", "restore"}
<1>1. user[u] \in Tasks /\ user[u].leaving \in {"no"} \cup Leaves
  BY DEF TypeOK, Tasks
<1>2. \A how \in Leaves : how \in {"new", "restore"}
  BY TurnAssumption
<1> QED BY <1>1, <1>2

\* A task goes on leaving as it said it would, or begins to.
LEMMA LeaversGoOn ==
  ASSUME ~Stalls, ~Hasty, "refused" \notin Leaves, TypeOK, LeaversSay, NEW u \in Users,
         Submit(u) \/ Refuse(u) \/ Cancel(u) \/ Leave(u) \/ SwitchAnswered(u) \/ UserGoesOn(u)
  PROVE  /\ Moves(u)
         /\ user'[u].at \in Leaving => user'[u].leaving \in {"new", "restore"}
<1>0. Moves(u)
  <2>1. UserTakes(u)
    BY WalksAre, UserSubmits, UserSends, UserLeaves DEF UserGoesOn, UserTakes
  <2> QED BY <2>1 DEF UserTakes, Walks, Submits, Refuses, Awaits, Disarms, Flies, Enqueues, Unqueues,
                Unsends, UnsentEnds, Notes, Forgets, Idles, Goes
<1>1. CASE Submit(u) \/ Refuse(u) \/ Await(u) \/ Disarm(u) \/ Fly(u) \/ Enqueue(u) \/ EnqueueFails(u)
           \/ Unsent(u) \/ UnsentFails(u)
  BY <1>1, UserSubmits, UserSends
     DEF Submits, Refuses, Awaits, Disarms, Flies, Enqueues, Unqueues, Unsends, UnsentEnds, Goes,
         Leaving, Switching
<1>2. CASE Refused(u) \/ NotSwitched(u) \/ Idling(u)
  BY <1>2, RestIs DEF Refused, NotSwitched, Idling, Leaving, Switching
<1>3. CASE Opening(u) \/ Cancel(u)
  BY <1>3, StepIs DEF Opening, Cancel, UserSteps, Leaving, Switching
<1>4. CASE Owing(u) \/ Forget(u) \/ Discard(u) \/ SwitchAnswered(u) \/ Switched(u)
  <2>1. user[u].at \in Leaving
    BY <1>4 DEF Owing, Forget, Discard, SwitchAnswered, Switched, Leaving, Switching
  <2>2. PICK at \in UserSteps : Step(u, at)
    BY <1>4 DEF Owing, Forget, Discard, SwitchAnswered, Switched, UserSteps
  <2> QED BY <2>1, <2>2, StepIs DEF LeaversSay
<1>5. CASE Noted(u)
  <2>1. PICK at \in {"idle", "owing"} : Step(u, at) /\ (at = "owing" => user[u].leaving # "no")
    BY <1>5 DEF Noted
  <2> QED BY <2>1, StepIs, LeavingIs DEF UserSteps, Leaving, Switching
<1>6. CASE Notify(u)
  <2>1. CASE user' = [user EXCEPT ![u].at = "noted", ![u].for = sent]
    <3>1. user'[u].at = "noted"
      BY <2>1, LeavingIs DEF TypeOK
    <3> QED BY <1>0, <3>1 DEF Leaving, Switching
  <2>2. CASE user' = [user EXCEPT ![u].at = IF user[u].leaving = "no" THEN "idle" ELSE "owing"]
    <3>1. PICK at \in {"idle", "owing"} : Step(u, at) /\ (at = "owing" => user[u].leaving # "no")
      BY <2>2 DEF Step
    <3> QED BY <3>1, StepIs, LeavingIs DEF UserSteps, Leaving, Switching
  <2> QED BY <1>6, <2>1, <2>2 DEF Notify
<1>7. CASE Leave(u)
  <2>1. PICK how \in Leaves : user'[u].leaving = how
    BY <1>7 DEF Leave, TypeOK
  <2> QED BY <1>0, <2>1, TurnAssumption
<1> QED BY <1>0, <1>1, <1>2, <1>3, <1>4, <1>5, <1>6, <1>7 DEF UserGoesOn

\* So whoever is leaving a session says how, in every state.
LEMMA LeaversKeep ==
  ASSUME ~Stalls, ~Hasty, "refused" \notin Leaves, TypeOK, LeaversSay, [Next]_vars
  PROVE  LeaversSay'
<1>1. ASSUME NEW u \in Users,
             Submit(u) \/ Refuse(u) \/ Cancel(u) \/ Leave(u) \/ SwitchAnswered(u) \/ UserGoesOn(u)
      PROVE  LeaversSay'
  BY <1>1, LeaversGoOn DEF LeaversSay, Moves
<1>2. ReaderGoesOn \/ Disconnected => LeaversSay'
  BY ReaderActs DEF ReaderTakes, Stays, LeaversSay
<1>3. ASSUME NEW k \in Prompts, FinisherGoesOn(k) \/ \E end \in Ends : Replies(k, end) PROVE LeaversSay'
  BY <1>3, OthersTake DEF FinisherTakes, AgentTakes, Stays, LeaversSay
<1>4. UNCHANGED vars => LeaversSay'
  BY DEF vars, tasks, LeaversSay
<1> QED BY <1>1, <1>2, <1>3, <1>4 DEF Next

\* A prompt on its way out was not answered.
LEMMA UsersKeepSaid ==
  ASSUME ~Stalls, ~Hasty, IInv, SaidAgrees, NEW u \in Users,
         Submit(u) \/ Refuse(u) \/ Cancel(u) \/ Leave(u) \/ SwitchAnswered(u) \/ UserGoesOn(u)
  PROVE  SaidAgrees'
<1>0. TypeOK /\ agent \in [holds : SUBSET Prompts, said : [Prompts -> {"none"} \cup Ends]]
  BY DEF IInv, TypeOK
<1>1. CASE Enqueue(u)
  <2>1. /\ user[u].for \in Prompts /\ finisher[user[u].for] = "none"
        /\ UNCHANGED <<up, reader>> /\ finisher' = [finisher EXCEPT ![user[u].for] = "waiting"]
    <3>1. user[u].at = "enqueue" /\ user[u].for = sent /\ sent # 0 /\ sent \in 0..MaxPrompts
      BY <1>0, <1>1 DEF Enqueue, IInv, TasksAgree, MeansTheLast, Prompting, TypeOK
    <3>2. user[u].for \in Prompts /\ NobodysYet(user[u].for)
      BY <3>1, Numbers DEF IInv, WireAgrees, Prompting
    <3> QED BY <1>1, <3>2 DEF Enqueue, NobodysYet
  <2>2. agent.said[user[u].for] = "none"
    BY <2>1 DEF SaidAgrees
  <2>3. agent' = agent \/ agent' = [agent EXCEPT !.holds = @ \cup {user[u].for}]
    BY <1>1 DEF Enqueue
  <2>4. agent'.said = agent.said /\ agent'.holds \subseteq agent.holds \cup {user[u].for}
    BY <1>0, <2>3
  <2>5. \A k \in Prompts : finisher'[k] = IF k = user[u].for THEN "waiting" ELSE finisher[k]
    BY <1>0, <2>1 DEF TypeOK
  <2>6. agent'.holds \subseteq Prompts
    BY <1>0, <2>1, <2>4
  <2> QED BY <2>1, <2>2, <2>4, <2>5, <2>6 DEF SaidAgrees
<1>2. CASE ~Enqueue(u)
  <2>1. UNCHANGED <<agent, up, reader, finisher>>
    <3>1. Enqueues(u) => Enqueue(u) \/ UNCHANGED <<agent, up, reader, finisher>>
      BY <1>0, <1>2, WalksAre, UserSubmits, UserSends, UserLeaves
         DEF Enqueues, UserGoesOn, Walks, Submits, Refuses, Awaits, Disarms, Flies, Unqueues,
             Unsends, UnsentEnds, Notes, Forgets, Idles, wire
    <3>2. UserTakes(u)
      BY <1>0, WalksAre, UserSubmits, UserSends, UserLeaves DEF UserGoesOn, UserTakes
    <3> QED BY <1>2, <3>1, <3>2 DEF UserTakes, Walks, Submits, Refuses, Awaits, Disarms, Flies,
                  Unqueues, Unsends, UnsentEnds, Notes, Forgets, Idles, wire
  <2> QED BY <2>1 DEF SaidAgrees
<1> QED BY <1>1, <1>2

\* The reader takes an answer as it was given, and a cut one as failed.
LEMMA ReaderKeepsSaid ==
  ASSUME IInv, SaidAgrees, ReaderGoesOn \/ Disconnected
  PROVE  SaidAgrees'
<1>0. /\ reader \in Readers /\ up \in Seq([id : Prompts, end : Ends]) /\ UNCHANGED <<agent, finisher>>
  BY DEF IInv, TypeOK, Readers, ReaderGoesOn, Receive, Resolve, JudgeAnswer, Settled, CutFails, Answer,
         StopAwaiting, TurnEnds, JudgeEnd, TimelineEnds, Disconnected, tasks, wire
<1>1. ASSUME NEW cut \in BOOLEAN, Receive(cut) PROVE SaidAgrees'
  <2>1. up # <<>> /\ up' = Tail(up)
    BY <1>1 DEF Receive
  <2>2. /\ \A i \in DOMAIN up' : i + 1 \in DOMAIN up /\ up'[i] = up[i + 1]
        /\ 1 \in DOMAIN up /\ Head(up) = up[1]
    BY <1>0, <2>1
  <2>3. /\ reader'.id = Head(up).id
        /\ reader'.at \in {"resolve", "judge", "close"} => reader'.end = Head(up).end
        /\ reader'.at \in {"failing", "closing"} => reader'.end = "failed"
    BY <1>1 DEF Receive
  <2> QED BY <1>0, <2>2, <2>3 DEF SaidAgrees
<1>2. CASE Resolve \/ JudgeAnswer \/ Settled \/ CutFails \/ StopAwaiting \/ JudgeEnd \/ Disconnected
  <2>1. /\ up' = up /\ reader'.id = reader.id /\ reader'.end = reader.end
        /\ reader'.at \in {"resolve", "judge", "close"} => reader.at \in {"resolve", "judge", "close"}
        /\ reader'.at \in {"failing", "closing"} => reader.at \in {"failing", "closing"}
    BY <1>0, <1>2 DEF Resolve, JudgeAnswer, Settled, CutFails, StopAwaiting, JudgeEnd, Disconnected,
                      ReaderStep, Readers, wire
  <2> QED BY <1>0, <2>1 DEF SaidAgrees
<1>3. CASE Answer \/ TurnEnds \/ TimelineEnds
  <2>1. up' = up /\ reader'.at \in {"idle", "judgeEnd", "gone"}
    BY <1>3 DEF Answer, TurnEnds, TimelineEnds, Listening, wire
  <2> QED BY <1>0, <2>1 DEF SaidAgrees
<1> QED BY <1>1, <1>2, <1>3 DEF ReaderGoesOn

\* An element of a sequence is one of the set it is over.
LEMMA EachIsOne ==
  ASSUME NEW S, NEW s \in Seq(S), NEW i \in DOMAIN s
  PROVE  s[i] \in S
  OBVIOUS

\* The agent answers what it was sent, once; a prompt's task changes no answer.
LEMMA OthersKeepSaid ==
  ASSUME IInv, SaidAgrees, NEW k \in Prompts, FinisherGoesOn(k) \/ \E end \in Ends : Replies(k, end)
  PROVE  SaidAgrees'
<1>0. /\ agent \in [holds : SUBSET Prompts, said : [Prompts -> {"none"} \cup Ends]]
      /\ up \in Seq([id : Prompts, end : Ends])
      /\ finisher \in [Prompts -> {"none", "waiting", "failing", "closing", "done"}]
  BY DEF IInv, TypeOK
<1>u. ASSUME NEW i \in DOMAIN up PROVE up[i].id \in Prompts /\ up[i].end \in Ends
  <2>1. up \in Seq([id : Prompts, end : Ends])
    BY <1>0
  <2>2. up[i] \in [id : Prompts, end : Ends]
    BY <1>u, <2>1, EachIsOne
  <2> QED BY <2>2
<1>1. CASE FinisherGoesOn(k)
  <2>1. /\ UNCHANGED <<agent, up, reader>>
        /\ \A j \in Prompts : finisher[j] # "none" => finisher'[j] # "none"
    BY <1>0, <1>1 DEF FinisherGoesOn, Finish, FinishFails, FinishCloses, wire
  <2> QED BY <1>0, <2>1 DEF SaidAgrees
<1>2. ASSUME NEW end \in Ends, Replies(k, end) PROVE SaidAgrees'
  <2>1. /\ k \in agent.holds /\ UNCHANGED <<finisher, reader>>
        /\ agent'.holds = agent.holds \ {k}
        /\ \A j \in Prompts : agent'.said[j] = IF j = k THEN end ELSE agent.said[j]
    BY <1>0, <1>2 DEF Replies, tasks
  <2>2. PICK said : said = [id |-> k, end |-> end]
    OBVIOUS
  <2>3. up' = Append(up, said) /\ said.id = k /\ said.end = end /\ end # "none"
    BY <1>2, <2>2 DEF Replies, Ends
  <2>4. \A i \in DOMAIN up' : \/ up'[i].id = k /\ up'[i].end = end
                              \/ i \in DOMAIN up /\ up'[i] = up[i] /\ up[i].id \in Prompts /\ up[i].end \in Ends
    <3>1. said \in [id : Prompts, end : Ends]
      BY <2>2
    <3>2. \A i \in DOMAIN up' : up'[i] = said \/ (i \in DOMAIN up /\ up'[i] = up[i])
      BY <1>0, <2>3, <3>1
    <3> QED BY <1>u, <2>3, <3>2
  <2>5. agent.said[k] = "none" /\ finisher[k] # "none"
    BY <2>1 DEF SaidAgrees
  <2>6. \A i \in DOMAIN up : up[i].id # k
    BY <1>u, <2>5 DEF SaidAgrees, Ends
  <2>7. reader.at \in {"resolve", "judge", "close"} => reader.id # k /\ reader.id \in Prompts
    <3>1. reader.end \in Ends
      BY DEF IInv, TypeOK
    <3>2. reader.at \in {"resolve", "judge", "close"} => reader.id \in Prompts
      <4>1. reader.id \in 0..MaxPrompts
        BY DEF IInv, TypeOK
      <4> QED BY <4>1, Numbers DEF IInv, AwaitedAgrees, Handling
    <3> QED BY <2>5, <3>1, <3>2 DEF SaidAgrees, Ends
  <2>8. agent'.holds \subseteq Prompts
    BY <1>0, <2>1
  <2>a. \A j \in agent'.holds : finisher'[j] # "none" /\ agent'.said[j] = "none"
    BY <2>1, <2>8 DEF SaidAgrees
  <2>b. \A j \in Prompts : agent'.said[j] # "none" => finisher'[j] # "none"
    BY <2>1, <2>5 DEF SaidAgrees
  <2>c. \A i \in DOMAIN up' : agent'.said[up'[i].id] = up'[i].end
    BY <2>1, <2>4, <2>6 DEF SaidAgrees
  <2>d. reader'.at \in {"resolve", "judge", "close"} => agent'.said[reader'.id] = reader'.end
    BY <2>1, <2>7 DEF SaidAgrees
  <2>e. reader'.at \in {"failing", "closing"} => reader'.end = "failed"
    BY <2>1 DEF SaidAgrees
  <2> QED BY <2>a, <2>b, <2>c, <2>d, <2>e DEF SaidAgrees
<1> QED BY <1>1, <1>2

\* So what was answered stays what the wire and the reader have.
LEMMA SaidKeeps ==
  ASSUME ~Stalls, ~Hasty, IInv, SaidAgrees, [Next]_vars
  PROVE  SaidAgrees'
<1>1. UNCHANGED vars => SaidAgrees'
  BY DEF vars, wire, tasks, SaidAgrees
<1> QED BY <1>1, UsersKeepSaid, ReaderKeepsSaid, OthersKeepSaid DEF Next

\* A step that leaves the open turn and the awaited answer as they were.
LEMMA OpenStays ==
  ASSUME OpenAgrees, NEW u \in Users, Moves(u), UNCHANGED <<open, awaiting, sent, closed, reader>>,
         user[u].at \in Between => user'[u].at \in Between,
         \A places \in {Starting \cup {"idling"}, {"disarm", "fly", "opening"}} :
           user'[u].at \in places => user[u].at \in places,
         user'[u].at # "refused",
         user'[u].at \in Switching => user[u].at \in Switching /\ user'[u].leaving = user[u].leaving,
         user[u].at \in Switching /\ user[u].leaving = "new" =>
           user'[u].at \in Switching /\ user'[u].leaving = "new",
         user'[u].at = "notSwitched" /\ user'[u].leaving = "new" => closed
  PROVE  OpenAgrees'
<1>1. OpenIsAwaited'
  BY DEF OpenAgrees, OpenIsAwaited, Somebody, Moves
<1>2. TasksOpenRight(u)'
  BY DEF OpenAgrees, TasksOpenRight
<1>3. \A v \in Users \ {u} : TasksOpenRight(v)'
  BY DEF OpenAgrees, TasksOpenRight, Moves
<1> QED BY <1>1, <1>2, <1>3 DEF OpenAgrees, ReaderOpensRight

\* One that closes the open turn, or begins or ends the wait for an answer.
LEMMA OpenMoves ==
  ASSUME OpenAgrees, NEW u \in Users, Alone(u), Moves(u), reader.at \in {"idle", "gone"},
         UNCHANGED <<closed, reader>>, open' \in {0, open}, TasksOpenRight(u)', OpenIsAwaited'
  PROVE  OpenAgrees'
<1>1. \A v \in Users \ {u} : TasksOpenRight(v)'
  BY DEF OpenAgrees, TasksOpenRight, Moves, Alone, Switching, Starting
<1>2. ReaderOpensRight'
  BY DEF OpenAgrees, ReaderOpensRight, Handled
<1> QED BY <1>1, <1>2 DEF OpenAgrees

\* What a task finds that begins a turn or refuses one: none is open or awaited.
LEMMA NothingIsOpen ==
  ASSUME OneThread, ~Stalls, IInv, OpenAgrees, NEW u \in Users, UserRuns(u), user[u].at = "idle", ~Running
  PROVE  awaiting = 0 /\ (~Somebody(Switching) => open = 0)
<1>1. Alone(u) /\ reader.at \in {"idle", "gone"}
  BY OneThreadRuns
<1>2. \A places : Somebody(places) => places \cap ({"idle"} \cup Switching) # {}
  BY <1>1 DEF Somebody, Alone
<1>3. awaiting = 0
  <2>1. CASE closed
    BY <1>1, <2>1 DEF IInv, ClosedAgrees, TeardownAgrees, Closing
  <2>2. CASE ~closed
    BY <1>2, <2>2 DEF IInv, AwaitedAgrees, Switching
  <2> QED BY <2>1, <2>2
<1>4. ~Somebody(Between)
  BY <1>2 DEF Between, Switching
<1> QED BY <1>1, <1>3, <1>4 DEF OpenAgrees, OpenIsAwaited, Handled, Somebody

\* Starting a turn: a task that begins one finds none open, and opens none yet.
LEMMA StartsKeepOpen ==
  ASSUME OneThread, ~Stalls, ~Hasty, IInv, OpenAgrees, NEW u \in Users,
         Submit(u) \/ Refuse(u) \/ Refused(u) \/ Await(u) \/ Disarm(u) \/ Fly(u)
  PROVE  OpenAgrees'
<1>0. TypeOK
  BY DEF IInv
<1>1. /\ Alone(u) /\ Moves(u) /\ reader.at \in {"idle", "gone"} /\ UserRuns(u)
      /\ UNCHANGED <<closed, reader>>
  BY <1>0, OneThreadRuns, UserSubmits, RestIs
     DEF Submit, Refuse, Refused, Await, Disarm, Fly, Submits, Refuses, Awaits, Disarms, Flies, Goes, slots,
         table, timeline
<1>2. CASE Submit(u)
  <2>1. /\ user'[u].at = "await" /\ UNCHANGED <<open, awaiting>> /\ ~Somebody(Switching)
        /\ user[u].at = "idle" /\ ~Running
    BY <1>0, <1>2, UserSubmits DEF Submit, Submits, timeline, slots
  <2>2. open = 0 /\ awaiting = 0
    BY <1>1, <2>1, NothingIsOpen
  <2>3. TasksOpenRight(u)' /\ OpenIsAwaited'
    BY <2>1, <2>2 DEF TasksOpenRight, OpenIsAwaited, Switching
  <2> QED BY <1>1, <2>1, <2>3, OpenMoves
<1>3. CASE Refuse(u)
  <2>1. /\ user'[u].at = "refused" /\ UNCHANGED <<open, awaiting>> /\ user[u].at = "idle" /\ ~Running
    BY <1>0, <1>3, UserSubmits DEF Refuse, Refuses, Goes, timeline
  <2>2. awaiting = 0
    BY <1>1, <2>1, NothingIsOpen
  <2>3. TasksOpenRight(u)'
    BY <2>1, <2>2 DEF TasksOpenRight, Switching, Starting
  <2>4. OpenIsAwaited'
    BY <1>1, <2>1 DEF OpenAgrees, OpenIsAwaited, Somebody, Moves, Between, Switching
  <2> QED BY <1>1, <2>1, <2>3, <2>4, OpenMoves
<1>4. CASE Refused(u)
  <2>1. open' = 0 /\ awaiting' = awaiting /\ user'[u].at = "idle" /\ user[u].at \in {"refused", "unsent3"}
    BY <1>0, <1>4, RestIs DEF Refused, CloseTurn, slots
  <2>2. awaiting = 0
    BY <2>1 DEF OpenAgrees, TasksOpenRight, IInv, AwaitedAgrees, Somebody, Forgotten
  <2>3. TasksOpenRight(u)' /\ OpenIsAwaited'
    BY <2>1, <2>2 DEF TasksOpenRight, OpenIsAwaited, Switching, Starting
  <2> QED BY <1>1, <2>1, <2>3, OpenMoves
<1>5. CASE Await(u)
  <2>1. /\ user[u].at = "await" /\ user'[u].at = "disarm" /\ UNCHANGED <<open, sent>>
        /\ awaiting' = user[u].for
    BY <1>0, <1>5, UserSubmits DEF Await, Awaits, Goes, timeline, table
  <2>2. open = 0 /\ awaiting' = sent
    BY <2>1 DEF OpenAgrees, TasksOpenRight, Starting, IInv, TasksAgree, MeansTheLast, Prompting
  <2>3. TasksOpenRight(u)' /\ OpenIsAwaited'
    BY <2>1, <2>2 DEF TasksOpenRight, OpenIsAwaited, Switching, Somebody, Between
  <2> QED BY <1>1, <2>1, <2>3, OpenMoves
<1>6. CASE Disarm(u) \/ Fly(u)
  <2>1. /\ UNCHANGED <<open, awaiting, sent>>
        /\ user[u].at \in {"disarm", "fly"} /\ user'[u].at \in {"fly", "opening"}
    BY <1>0, <1>6, UserSubmits DEF Disarm, Fly, Disarms, Flies, Goes, timeline, table
  <2> QED BY <1>1, <2>1, OpenStays DEF Between, Starting, Switching
<1> QED BY <1>2, <1>3, <1>4, <1>5, <1>6

\* Opening the turn in the timeline: none is open, and the awaited answer is its own.
LEMMA OpeningKeepsOpen ==
  ASSUME OneThread, ~Stalls, ~Hasty, IInv, OpenAgrees, NEW u \in Users, Opening(u)
  PROVE  OpenAgrees' /\ open = 0 /\ open' = sent /\ user[u].for = sent /\ rows' = [rows EXCEPT ![sent] = "open"]
<1>0. TypeOK
  BY DEF IInv
<1>1. /\ Alone(u) /\ Moves(u) /\ reader.at \in {"idle", "gone"}
      /\ user[u].at = "opening" /\ user'[u].at = "enqueue"
      /\ UNCHANGED <<awaiting, sent, closed, reader>>
  BY <1>0, OneThreadRuns, StepIs DEF Opening, UserSteps, slots, table
<1>2. open = 0 /\ awaiting = sent
  BY <1>1 DEF OpenAgrees, TasksOpenRight, Starting
<1>3. user[u].for = sent
  BY <1>1 DEF IInv, TasksAgree, MeansTheLast, Prompting
<1>4. open' = sent /\ rows' = [rows EXCEPT ![sent] = "open"]
  BY <1>2, <1>3 DEF Opening, OpenTurn
<1>5. OpenIsAwaited' /\ TasksOpenRight(u)'
  BY <1>1, <1>2, <1>4 DEF OpenIsAwaited, TasksOpenRight, Starting, Switching
<1>6. Somebody(Prompting)
  BY <1>1 DEF Somebody, Prompting
<1>7. \A v \in Users \ {u} : TasksOpenRight(v)'
  <2>1. \A v \in Users \ {u} : user'[v].at = "idle"
    BY <1>1, <1>6 DEF IInv, TasksAgree, SwitchersAreAlone, Somebody, Alone, Moves
  <2> QED BY <2>1 DEF TasksOpenRight, Starting, Switching
<1>8. reader.at # "gone"
  BY <1>6 DEF IInv, TeardownAgrees, ClosedAgrees, Closing
<1>9. ReaderOpensRight'
  BY <1>1, <1>8 DEF ReaderOpensRight, Handled
<1> QED BY <1>2, <1>3, <1>4, <1>5, <1>7, <1>9 DEF OpenAgrees

\* Sent or not: an unsent prompt stops being awaited and then its turn is closed.
LEMMA SendsKeepOpen ==
  ASSUME OneThread, ~Stalls, ~Hasty, IInv, OpenAgrees, NEW u \in Users,
         Enqueue(u) \/ EnqueueFails(u) \/ Unsent(u) \/ UnsentFails(u)
  PROVE  OpenAgrees'
<1>0. TypeOK
  BY DEF IInv
<1>1. /\ Alone(u) /\ Moves(u) /\ reader.at \in {"idle", "gone"}
      /\ UNCHANGED <<open, sent, closed, reader>>
  BY <1>0, OneThreadRuns, UserSends
     DEF Enqueue, EnqueueFails, Unsent, UnsentFails, Enqueues, Unqueues, Unsends, UnsentEnds, Goes,
         table, timeline
<1>2. CASE Unsent(u) /\ awaiting' # awaiting
  <2>1. user'[u].at = "unsent2" /\ awaiting' = 0
    BY <1>0, <1>2, UserSends DEF Unsends, Goes
  <2>2. TasksOpenRight(u)' /\ OpenIsAwaited'
    BY <2>1 DEF TasksOpenRight, OpenIsAwaited, Switching, Starting, Somebody, Between
  <2> QED BY <1>1, <2>2, OpenMoves
<1>3. CASE ~(Unsent(u) /\ awaiting' # awaiting)
  <2>1. awaiting' = awaiting
    BY <1>3 DEF Enqueue, EnqueueFails, Unsent, UnsentFails, slots
  <2>2. /\ user[u].at \in {"enqueue", "unsent1", "unsent2"} /\ user'[u].at \in {"idle", "unsent1", "unsent2", "unsent3"}
        /\ user[u].at = "unsent2" => user'[u].at = "unsent3"
    BY <1>0, UserSends DEF Enqueue, EnqueueFails, Unsent, UnsentFails, Enqueues, Unqueues, Unsends, UnsentEnds, Goes
  <2> QED BY <1>1, <2>1, <2>2, OpenStays DEF Between, Starting, Switching
<1> QED BY <1>2, <1>3

\* A cancel, and the first steps of leaving, touch neither the turn nor its row.
LEMMA CancelsKeepOpen ==
  ASSUME OneThread, ~Stalls, ~Hasty, IInv, OpenAgrees, NEW u \in Users,
         Cancel(u) \/ Leave(u) \/ Notify(u) \/ Noted(u) \/ Owing(u)
  PROVE  OpenAgrees'
<1>0. TypeOK
  BY DEF IInv
<1>1. UNCHANGED <<open, awaiting, sent, closed, reader>>
  BY DEF Cancel, Leave, Notify, Noted, Owing, slots, table, timeline
<1>2. /\ Moves(u) /\ user[u].at \in {"idle", "notify", "noted", "owing"}
      /\ user'[u].at \in {"idle", "notify", "noted", "owing", "forget1"}
  <2>1. CASE Noted(u)
    BY <1>0, <2>1, UserLeaves DEF Notes
  <2>2. CASE ~Noted(u)
    <3>1. Walks(u) /\ user[u].at \in {"idle", "notify", "owing"}
      BY <1>0, <2>2, WalksAre DEF Cancel, Leave, Notify, Owing
    <3> QED BY <3>1 DEF Walks
  <2> QED BY <2>1, <2>2
<1> QED BY <1>1, <1>2, OpenStays DEF Between, Starting, Switching

\* Leaving: the wait is given up first, and the view discarded by the end of it.
LEMMA LeaversKeepOpen ==
  ASSUME OneThread, ~Stalls, ~Hasty, "refused" \notin Leaves, IInv, LeaversSay, OpenAgrees, NEW u \in Users,
         Forget(u) \/ Discard(u) \/ Switched(u) \/ NotSwitched(u) \/ Idling(u)
  PROVE  OpenAgrees'
<1>0. TypeOK /\ user[u].at \in Leaving /\ user[u].leaving \in {"new", "restore"}
  <2>1. user[u].at \in Leaving
    BY DEF Forget, Discard, Switched, NotSwitched, Idling, Leaving, Switching
  <2> QED BY <2>1 DEF IInv, LeaversSay
<1>1. /\ Alone(u) /\ reader.at \in {"idle", "gone"} /\ UserRuns(u)
      /\ UNCHANGED <<sent, closed, reader>>
  BY OneThreadRuns DEF Forget, Discard, Switched, NotSwitched, Idling, table
<1>2. user[u].at \in Forgotten => awaiting = 0
  BY DEF IInv, AwaitedAgrees, Somebody
<1>3. CASE Forget(u)
  <2>1. PICK at : /\ Step(u, at) /\ at \in UserSteps
                  /\ \/ at \in {"forget2", "forget3"}
                     \/ at = "discard" /\ user[u].leaving = "restore"
                     \/ at = "switching" /\ user[u].leaving = "new"
    BY <1>0, <1>3 DEF Forget, UserSteps
  <2>2. Moves(u) /\ user'[u].at = at /\ user'[u].leaving = user[u].leaving /\ open' = open
    BY <1>0, <1>3, <2>1, StepIs DEF Forget, timeline
  <2>3. TasksOpenRight(u)'
    BY <2>1, <2>2 DEF TasksOpenRight, Switching, Starting
  <2>4. OpenIsAwaited'
    BY <2>1, <2>2 DEF OpenIsAwaited, Somebody, Between, Switching
  <2> QED BY <1>1, <2>2, <2>3, <2>4, OpenMoves
<1>4. CASE Discard(u)
  <2>1. PICK at \in {"switching", "idling"} : Step(u, at) /\ (at = "switching" => user[u].leaving = "restore")
    BY <1>4 DEF Discard
  <2>2. Moves(u) /\ user'[u].at = at /\ user'[u].leaving = user[u].leaving
    BY <1>0, <2>1, StepIs DEF UserSteps
  <2>3. open' = 0 /\ awaiting' = awaiting /\ awaiting = 0
    BY <1>2, <1>4 DEF Discard, slots, Forgotten
  <2>4. TasksOpenRight(u)' /\ OpenIsAwaited'
    BY <2>1, <2>2, <2>3 DEF TasksOpenRight, OpenIsAwaited, Switching, Starting
  <2> QED BY <1>1, <2>2, <2>3, <2>4, OpenMoves
<1>5. CASE Switched(u) /\ user[u].leaving = "new"
  <2>1. Moves(u) /\ user'[u].at = "discard" /\ UNCHANGED <<open, awaiting>>
    BY <1>0, <1>5, StepIs DEF Switched, UserSteps, slots, timeline
  <2>2. TasksOpenRight(u)' /\ OpenIsAwaited'
    BY <2>1 DEF TasksOpenRight, OpenIsAwaited, Switching, Starting, Somebody, Between
  <2> QED BY <1>1, <2>1, <2>2, OpenMoves
<1>6. CASE (Switched(u) /\ user[u].leaving # "new") \/ NotSwitched(u) \/ Idling(u)
  <2>1. /\ Moves(u) /\ user'[u].at \in {"idling", "idle"} /\ UNCHANGED <<open, awaiting>>
        /\ user[u].at \in {"switched", "notSwitched", "idling"}
        /\ user[u].at = "switched" => user[u].leaving # "new"
    <3>1. CASE Switched(u)
      BY <1>0, <1>6, <3>1, StepIs DEF Switched, UserSteps, slots, timeline, NotSwitched, Idling
    <3>2. CASE NotSwitched(u) \/ Idling(u)
      BY <1>0, <3>2, RestIs DEF NotSwitched, Idling, slots, timeline
    <3> QED BY <1>6, <3>1, <3>2
  <2>2. awaiting = 0
    BY <1>2, <2>1 DEF Forgotten, Switching
  <2>3. open = 0
    <3>1. CASE user[u].at = "notSwitched" /\ user[u].leaving = "new"
      BY <1>1, <3>1 DEF OpenAgrees, TasksOpenRight, ReaderOpensRight, IInv, ClosedAgrees, Closing
    <3> QED BY <2>1, <3>1 DEF OpenAgrees, TasksOpenRight, Switching
  <2>4. TasksOpenRight(u)' /\ OpenIsAwaited'
    BY <2>1, <2>2, <2>3 DEF TasksOpenRight, OpenIsAwaited, Switching, Starting
  <2> QED BY <1>1, <2>1, <2>4, OpenMoves
<1> QED BY <1>3, <1>4, <1>5, <1>6

\* The answer to the switch finds the view as its task left it.
LEMMA SwitchKeepsOpen ==
  ASSUME "refused" \notin Leaves, IInv, LeaversSay, OpenAgrees, NEW u \in Users, SwitchAnswered(u)
  PROVE  OpenAgrees'
<1>1. PICK at \in {"switched", "notSwitched"} : /\ Step(u, at)
                                                /\ at = "notSwitched" /\ user[u].leaving = "new" => closed
  BY DEF SwitchAnswered
<1>2. /\ Moves(u) /\ user'[u].at = at /\ user'[u].leaving = user[u].leaving /\ user[u].at = "switching"
      /\ UNCHANGED <<open, awaiting, sent, closed, reader>>
  BY <1>1, StepIs DEF IInv, UserSteps, SwitchAnswered, slots, table, timeline
<1> QED BY <1>1, <1>2, OpenStays DEF Between, Starting, Switching

\* Nobody is between two locks where the reader runs: it takes the answer of the
\* turn that is open, and closes that one.
LEMMA ReaderKeepsOpen ==
  ASSUME OneThread, ~Stalls, IInv, OpenAgrees, ReaderGoesOn \/ Disconnected
  PROVE  OpenAgrees'
<1>0. /\ ReaderRuns /\ UNCHANGED <<user, sent>> /\ (closed => closed')
      /\ reader \in Readers
  BY DEF ReaderGoesOn, Receive, Resolve, JudgeAnswer, Settled, CutFails, Answer, StopAwaiting, TurnEnds,
         JudgeEnd, TimelineEnds, Disconnected, tasks, table, IInv, TypeOK, Readers
<1>1. \A u \in Users : user[u].at \in {"idle"} \cup Switching
  BY <1>0, OneThreadRuns
<1>2. open' \in {0, open} => \A u \in Users : TasksOpenRight(u)'
  BY <1>0, <1>1 DEF OpenAgrees, TasksOpenRight, Switching, Starting
<1>s. ~Somebody(Between)
  BY <1>1 DEF Somebody, Between, Switching
<1>3. ASSUME NEW cut \in BOOLEAN, Receive(cut) PROVE OpenAgrees'
  <2>1. UNCHANGED open /\ reader.at = "idle"
    BY <1>3 DEF Receive, timeline
  <2>2. CASE Awaited(Head(up).id)
    <3>1. /\ awaiting = Head(up).id /\ awaiting' = 0 /\ reader'.id = Head(up).id
          /\ reader'.at \in {"failing", "resolve"}
      BY <1>3, <2>2 DEF Receive, Awaited
    <3>2. awaiting # 0
      <4>1. up # <<>> /\ up \in Seq([id : Prompts, end : Ends])
        BY <1>3 DEF Receive, IInv, TypeOK
      <4>2. Head(up) \in [id : Prompts, end : Ends]
        BY <4>1, HeadIsOne
      <4> QED BY <3>1, <4>2, Numbers
    <3>3. open = awaiting
      <4>1. ~Somebody(Forgotten)
        BY <3>2 DEF IInv, AwaitedAgrees
      <4> QED BY <1>s, <2>1, <4>1 DEF OpenAgrees, OpenIsAwaited, Handled, Somebody, Forgotten
    <3> QED BY <1>2, <2>1, <3>1, <3>3 DEF OpenAgrees, OpenIsAwaited, ReaderOpensRight, Handled
  <2>3. CASE ~Awaited(Head(up).id)
    <3>1. awaiting' = awaiting /\ reader'.at = "answer"
      BY <1>3, <2>3 DEF Receive
    <3> QED BY <1>0, <1>2, <1>s, <2>1, <3>1 DEF OpenAgrees, OpenIsAwaited, ReaderOpensRight, Handled
  <2> QED BY <2>2, <2>3
<1>4. CASE Resolve \/ JudgeAnswer \/ CutFails
  <2>1. /\ UNCHANGED <<open, awaiting>> /\ reader.at \in Handled /\ reader'.at \in Handled
        /\ reader'.id = reader.id
    BY <1>0, <1>4 DEF Resolve, JudgeAnswer, CutFails, ReaderStep, Readers, Handled, slots, timeline
  <2> QED BY <1>2, <2>1 DEF OpenAgrees, OpenIsAwaited, ReaderOpensRight, Handled
<1>5. CASE Settled \/ TimelineEnds
  <2>1. /\ open' = 0 /\ awaiting' = awaiting /\ reader.at \in {"close", "closing", "end4"}
        /\ reader'.at \in {"answer", "gone"}
    BY <1>0, <1>5 DEF Settled, TimelineEnds, CloseTurn, ReaderStep, Readers, slots, Listening
  <2>2. awaiting = 0
    BY <2>1 DEF OpenAgrees, ReaderOpensRight, Handled, IInv, TeardownAgrees
  <2> QED BY <1>2, <2>1, <2>2 DEF OpenAgrees, OpenIsAwaited, ReaderOpensRight, Handled
<1>6. CASE Answer \/ Disconnected
  <2>1. /\ UNCHANGED <<open, awaiting>> /\ reader.at \in {"answer", "idle"} /\ reader'.at \in {"idle", "end2"}
    BY <1>0, <1>6 DEF Answer, Disconnected, ReaderStep, Readers, slots, timeline, Listening
  <2> QED BY <1>0, <1>2, <1>s, <2>1 DEF OpenAgrees, OpenIsAwaited, ReaderOpensRight, Handled
<1>7. CASE StopAwaiting \/ TurnEnds \/ JudgeEnd
  <2>1. open' = open /\ reader'.at \in {"end3", "judgeEnd", "end4"}
    BY <1>0, <1>7 DEF StopAwaiting, TurnEnds, JudgeEnd, ReaderStep, Readers, timeline
  <2> QED BY <1>2, <2>1 DEF OpenAgrees, OpenIsAwaited, ReaderOpensRight, Handled
<1> QED BY <1>3, <1>4, <1>5, <1>6, <1>7 DEF ReaderGoesOn

\* So the open turn is the awaited one, but between those locks.
LEMMA OpenKeeps ==
  ASSUME OneThread, ~Stalls, ~Hasty, "refused" \notin Leaves, IInv, LeaversSay, OpenAgrees, NobodyFinishes,
         [Next]_vars
  PROVE  OpenAgrees'
<1>1. ASSUME NEW u \in Users,
             Submit(u) \/ Refuse(u) \/ Cancel(u) \/ Leave(u) \/ SwitchAnswered(u) \/ UserGoesOn(u)
      PROVE  OpenAgrees'
  BY <1>1, StartsKeepOpen, OpeningKeepsOpen, SendsKeepOpen, CancelsKeepOpen, LeaversKeepOpen, SwitchKeepsOpen
     DEF UserGoesOn
<1>2. UNCHANGED <<open, awaiting, sent, user, reader, closed>> => OpenAgrees'
  BY DEF OpenAgrees, OpenIsAwaited, TasksOpenRight, ReaderOpensRight, Somebody
<1>3. ASSUME NEW k \in Prompts, FinisherGoesOn(k) PROVE OpenAgrees'
  <2>1. UNCHANGED <<open, awaiting>>
    BY <1>3, FinishersKeep
  <2>2. UNCHANGED <<sent, user, reader, closed>>
    BY <1>3 DEF FinisherGoesOn, Finish, FinishFails, FinishCloses, table
  <2> QED BY <1>2, <2>1, <2>2
<1>4. ASSUME NEW k \in Prompts, NEW end \in Ends, Replies(k, end) PROVE OpenAgrees'
  BY <1>2, <1>4 DEF Replies, slots, table, timeline, tasks
<1>5. UNCHANGED vars => OpenAgrees'
  BY <1>2 DEF vars, slots, table, timeline, tasks
<1> QED BY <1>1, <1>3, <1>4, <1>5, ReaderKeepsOpen DEF Next

(***************************************************************************)
(* Each prompt's row.                                                      *)
(***************************************************************************)
\* How a step changes the rows.
RowsStep ==
  \/ UNCHANGED rows
  \/ \E u \in Users : Opening(u)
  \/ \E k \in Prompts : rows' = [rows EXCEPT ![k] = "failed"]
  \/ rows' = [k \in Prompts |-> IF rows[k] = "absent" THEN "absent" ELSE "left"]
  \/ Settled

\* A failed close marks the open turn's row, and no other.
LEMMA ClosesFailed ==
  ASSUME TypeOK, CloseTurn("failed")
  PROVE  UNCHANGED rows \/ \E k \in Prompts : rows' = [rows EXCEPT ![k] = "failed"]
<1>1. rows \in [Prompts -> {"absent", "open", "left"} \cup Ends] /\ open \in 0..MaxPrompts
  BY DEF TypeOK
<1>2. CASE open \in Prompts
  <2>1. rows' = [rows EXCEPT ![open] = "failed"]
    BY <1>1 DEF CloseTurn
  <2> QED BY <1>2, <2>1
<1>3. CASE open \notin Prompts
  BY <1>1, <1>3 DEF CloseTurn
<1> QED BY <1>2, <1>3

\* Every step changes the rows in one of those ways.
LEMMA RowsMove ==
  ASSUME OneThread, ~Stalls, ~Hasty, IInv, NobodyFinishes, [Next]_vars
  PROVE  RowsStep
<1>0. TypeOK
  BY DEF IInv
<1> USE DEF RowsStep, timeline
<1>1. ASSUME NEW u \in Users,
             Submit(u) \/ Refuse(u) \/ Cancel(u) \/ Leave(u) \/ SwitchAnswered(u) \/ UserGoesOn(u)
      PROVE  RowsStep
  <2>1. CASE Refused(u)
    BY <1>0, <2>1, ClosesFailed DEF Refused
  <2>2. CASE Discard(u)
    BY <2>2 DEF Discard
  <2>3. CASE Submit(u) \/ Refuse(u) \/ Cancel(u) \/ Leave(u) \/ SwitchAnswered(u) \/ Switched(u)
             \/ NotSwitched(u) \/ Idling(u) \/ Forget(u)
    BY <2>3 DEF Submit, Refuse, Cancel, Leave, SwitchAnswered, Switched, NotSwitched, Idling, Forget
  <2>4. CASE Await(u) \/ Disarm(u) \/ Fly(u) \/ Enqueue(u) \/ EnqueueFails(u) \/ Unsent(u) \/ UnsentFails(u)
             \/ Notify(u) \/ Noted(u) \/ Owing(u)
    BY <2>4 DEF Await, Disarm, Fly, Enqueue, EnqueueFails, Unsent, UnsentFails, Notify, Noted, Owing
  <2> QED BY <1>1, <2>1, <2>2, <2>3, <2>4 DEF UserGoesOn
<1>2. ASSUME ReaderGoesOn \/ Disconnected PROVE RowsStep
  <2>1. CASE TimelineEnds
    BY <1>0, <2>1, ClosesFailed DEF TimelineEnds
  <2>2. CASE ~TimelineEnds
    BY <1>2, <2>2 DEF ReaderGoesOn, Receive, Resolve, JudgeAnswer, CutFails, Answer, StopAwaiting, TurnEnds,
           JudgeEnd, Disconnected
  <2> QED BY <2>1, <2>2
<1>3. ASSUME NEW k \in Prompts, FinisherGoesOn(k) \/ \E end \in Ends : Replies(k, end) PROVE RowsStep
  BY <1>3, FinishersKeep DEF Replies
<1>4. UNCHANGED vars => RowsStep
  BY DEF vars
<1> QED BY <1>1, <1>2, <1>3, <1>4 DEF Next

\* A prompt being started stays so until its turn is opened.
LEMMA StartersGoOn ==
  ASSUME ~Stalls, ~Hasty, TypeOK, [Next]_vars
  PROVE  /\ Somebody(Starting) => Somebody(Starting)' \/ \E u \in Users : Opening(u)
         /\ UNCHANGED sent \/ (\E u \in Users : Submits(u) /\ sent' = sent + 1 /\ UNCHANGED rows)
<1>1. ASSUME NEW u \in Users,
             Submit(u) \/ Refuse(u) \/ Cancel(u) \/ Leave(u) \/ SwitchAnswered(u) \/ UserGoesOn(u)
      PROVE  /\ user[u].at \in Starting => user'[u].at \in Starting \/ Opening(u)
             /\ Moves(u)
             /\ UNCHANGED sent \/ (Submits(u) /\ sent' = sent + 1 /\ UNCHANGED rows)
  <2>1. CASE Submit(u) \/ Refuse(u) \/ Await(u) \/ Disarm(u) \/ Fly(u)
    BY <2>1, UserSubmits DEF Submit, Submits, Refuses, Awaits, Disarms, Flies, Goes, Starting, timeline
  <2>2. CASE Enqueue(u) \/ EnqueueFails(u) \/ Unsent(u) \/ UnsentFails(u)
    BY <2>2, UserSends DEF Enqueues, Unqueues, Unsends, UnsentEnds, Goes, Starting
  <2>3. CASE Noted(u) \/ Forget(u) \/ Idling(u)
    BY <2>3, UserLeaves DEF Notes, Forgets, Idles, Goes, Starting
  <2>4. CASE \/ Refused(u) \/ Cancel(u) \/ Notify(u) \/ Leave(u) \/ Owing(u)
             \/ Discard(u) \/ SwitchAnswered(u) \/ Switched(u) \/ NotSwitched(u)
    <3>1. Walks(u) /\ user[u].at \notin Starting
      BY <2>4, WalksAre DEF Refused, Cancel, Notify, Leave, Owing, Discard, SwitchAnswered, Switched,
                            NotSwitched, Starting
    <3> QED BY <3>1 DEF Walks, table
  <2>5. CASE Opening(u)
    BY <2>5, WalksAre DEF Walks, table
  <2> QED BY <1>1, <2>1, <2>2, <2>3, <2>4, <2>5 DEF UserGoesOn
<1>2. \A u \in Users : Submit(u) \/ Refuse(u) \/ Cancel(u) \/ Leave(u) \/ SwitchAnswered(u) \/ UserGoesOn(u) =>
        /\ Somebody(Starting) => Somebody(Starting)' \/ \E v \in Users : Opening(v)
        /\ UNCHANGED sent \/ (\E v \in Users : Submits(v) /\ sent' = sent + 1 /\ UNCHANGED rows)
  BY <1>1 DEF Somebody, Moves
<1>3. UNCHANGED <<user, sent>> => (Somebody(Starting) => Somebody(Starting)')
  BY DEF Somebody
<1>4. ReaderGoesOn \/ Disconnected => UNCHANGED <<user, sent>>
  BY ReaderActs DEF ReaderTakes, Stays
<1>5. \A k \in Prompts : FinisherGoesOn(k) \/ (\E end \in Ends : Replies(k, end)) => UNCHANGED <<user, sent>>
  BY OthersTake DEF FinisherTakes, AgentTakes, Stays
<1>6. UNCHANGED vars => UNCHANGED <<user, sent>>
  BY DEF vars, tasks, table
<1> QED BY <1>2, <1>3, <1>4, <1>5, <1>6 DEF Next

\* So every prompt past its start has a row.
LEMMA RowsKeep ==
  ASSUME OneThread, ~Stalls, ~Hasty, IInv, OpenAgrees, NobodyFinishes, RowsAgree, [Next]_vars
  PROVE  RowsAgree'
<1>0. /\ TypeOK /\ sent \in 0..MaxPrompts /\ reader.end \in Ends
      /\ rows \in [Prompts -> {"absent", "open", "left"} \cup Ends]
  BY DEF IInv, TypeOK
<1>1. CASE \E u \in Users : Opening(u)
  <2>1. PICK u \in Users : Opening(u)
    BY <1>1
  <2>2. rows' = [rows EXCEPT ![sent] = "open"] /\ sent' = sent
    BY <2>1, OpeningKeepsOpen DEF Opening, table
  <2>3. \A k \in 1..sent : k \in Prompts
    BY <1>0, Numbers
  <2> QED BY <1>0, <2>2, <2>3 DEF RowsAgree
<1>2. CASE \E u \in Users : Submits(u) /\ sent' = sent + 1 /\ UNCHANGED rows
  <2>1. PICK u \in Users : Submits(u) /\ sent' = sent + 1 /\ UNCHANGED rows
    BY <1>2
  <2>2. Somebody(Starting)' /\ ~Somebody(Starting)
    BY <2>1 DEF Submits, Alone, Somebody, Starting, Switching
  <2>3. \A k \in 1..sent' : k \in 1..sent \/ k = sent'
    BY <1>0, <2>1, Numbers
  <2> QED BY <2>1, <2>2, <2>3 DEF RowsAgree
<1>3. ASSUME ~\E u \in Users : Opening(u), UNCHANGED sent PROVE RowsAgree'
  <2>1. Somebody(Starting) => Somebody(Starting)'
    BY <1>0, <1>3, StartersGoOn
  <2>2. \A k \in Prompts : rows'[k] = "absent" => rows[k] = "absent"
    BY <1>0, <1>3, RowsMove DEF RowsStep, Settled, CloseTurn, Ends
  <2>3. \A k \in 1..sent : k \in Prompts
    BY <1>0, Numbers
  <2> QED BY <1>3, <2>1, <2>2, <2>3 DEF RowsAgree
<1> QED BY <1>0, <1>1, <1>2, <1>3, StartersGoOn

\* A row is given an end only by the answer to its prompt.
LEMMA RowsTell ==
  ASSUME OneThread, ~Stalls, ~Hasty, IInv, SaidAgrees, OpenAgrees, NobodyFinishes, RowsTellTheirOwn, [Next]_vars
  PROVE  RowsTellTheirOwn'
<1>0. /\ TypeOK /\ rows \in [Prompts -> {"absent", "open", "left"} \cup Ends]
      /\ agent \in [holds : SUBSET Prompts, said : [Prompts -> {"none"} \cup Ends]]
  BY DEF IInv, TypeOK
<1>1. \A k \in Prompts : rows'[k] \in {"ended", "cancelled"} =>
        \/ rows'[k] = rows[k]
        \/ rows'[k] = agent.said[k] /\ UNCHANGED agent
  <2>1. ASSUME NEW u \in Users, Opening(u), NEW k \in Prompts, rows'[k] \in {"ended", "cancelled"}
        PROVE  rows'[k] = rows[k]
    <3>1. rows' = [rows EXCEPT ![sent] = "open"]
      BY <2>1, OpeningKeepsOpen
    <3> QED BY <1>0, <2>1, <3>1
  <2>2. ASSUME Settled, NEW k \in Prompts, rows'[k] \in {"ended", "cancelled"}
        PROVE  rows'[k] = rows[k] \/ (rows'[k] = agent.said[k] /\ UNCHANGED agent)
    <3>1. rows'[k] = (IF k = open THEN reader.end ELSE rows[k]) /\ UNCHANGED agent
          /\ reader.at \in {"close", "closing"}
      BY <1>0, <2>2 DEF Settled, CloseTurn, wire
    <3>2. open = reader.id
      BY <3>1 DEF OpenAgrees, ReaderOpensRight, Handled
    <3>3. k = open => reader.at = "close" /\ agent.said[k] = reader.end
      BY <2>2, <3>1, <3>2 DEF SaidAgrees
    <3> QED BY <3>1, <3>3
  <2>3. ASSUME NEW j \in Prompts, rows' = [rows EXCEPT ![j] = "failed"], NEW k \in Prompts,
               rows'[k] \in {"ended", "cancelled"}
        PROVE  rows'[k] = rows[k]
    BY <1>0, <2>3
  <2> QED BY <1>0, <2>1, <2>2, <2>3, RowsMove DEF RowsStep
<1>2. \A k \in Prompts : agent.said[k] # "none" => agent'.said[k] = agent.said[k]
  <2>1. ASSUME NEW j \in Prompts, NEW end \in Ends, Replies(j, end)
        PROVE  \A k \in Prompts : agent.said[k] # "none" => agent'.said[k] = agent.said[k]
    <3>1. j \in agent.holds /\ agent.said[j] = "none"
      BY <2>1 DEF Replies, SaidAgrees
    <3> QED BY <1>0, <2>1, <3>1 DEF Replies
  <2>2. ASSUME NEW u \in Users, Enqueue(u) PROVE agent'.said = agent.said
    BY <1>0, <2>2 DEF Enqueue
  <2>3. ASSUME ~\E j \in Prompts, end \in Ends : Replies(j, end), ~\E u \in Users : Enqueue(u)
        PROVE  UNCHANGED agent
    <3>1. ASSUME NEW u \in Users,
               Submit(u) \/ Refuse(u) \/ Cancel(u) \/ Leave(u) \/ SwitchAnswered(u) \/ UserGoesOn(u)
          PROVE  UNCHANGED agent
      <4>1. CASE Submit(u) \/ Refuse(u) \/ Cancel(u) \/ Leave(u) \/ SwitchAnswered(u) \/ Switched(u)
                 \/ NotSwitched(u) \/ Idling(u) \/ Forget(u) \/ Refused(u) \/ Discard(u) \/ Opening(u)
        BY <4>1 DEF Submit, Refuse, Cancel, Leave, SwitchAnswered, Switched, NotSwitched, Idling, Forget,
                    Refused, Discard, Opening, wire
      <4>2. CASE Await(u) \/ Disarm(u) \/ Fly(u) \/ EnqueueFails(u) \/ Unsent(u) \/ UnsentFails(u)
                 \/ Notify(u) \/ Noted(u) \/ Owing(u)
        BY <4>2 DEF Await, Disarm, Fly, EnqueueFails, Unsent, UnsentFails, Notify, Noted, Owing, wire
      <4> QED BY <2>3, <3>1, <4>1, <4>2 DEF UserGoesOn
    <3>2. ReaderGoesOn \/ Disconnected => UNCHANGED agent
      BY DEF ReaderGoesOn, Receive, Resolve, JudgeAnswer, Settled, CutFails, Answer, StopAwaiting, TurnEnds,
             JudgeEnd, TimelineEnds, Disconnected, wire
    <3>3. \A k \in Prompts : FinisherGoesOn(k) => UNCHANGED agent
      BY DEF FinisherGoesOn, Finish, FinishFails, FinishCloses, wire
    <3> QED BY <2>3, <3>1, <3>2, <3>3 DEF Next, vars, wire
  <2> QED BY <2>1, <2>2, <2>3
<1>3. ASSUME NEW k \in Prompts, rows'[k] \in {"ended", "cancelled"} PROVE agent'.said[k] = rows'[k]
  <2>1. CASE rows'[k] = rows[k]
    BY <1>2, <1>3, <2>1 DEF RowsTellTheirOwn
  <2> QED BY <1>1, <1>3, <2>1
<1> QED BY <1>3 DEF RowsTellTheirOwn

(***************************************************************************)
(* The story.                                                              *)
(***************************************************************************)
\* It holds where the tasks start,
LEMMA InitStory == Init => StoryInv
<1> SUFFICES ASSUME Init PROVE StoryInv
  OBVIOUS
<1>1. IInv
  BY InitIInv
<1>2. \A u \in Users : user[u].at = "idle"
  BY DEF Init, Resting
<1>3. LeaversSay
  BY <1>2 DEF LeaversSay, Leaving, Switching
<1>4. SaidAgrees
  BY DEF Init, SaidAgrees, Listening
<1>5. OpenAgrees
  BY <1>2 DEF Init, OpenAgrees, OpenIsAwaited, TasksOpenRight, ReaderOpensRight, Starting, Switching, Handled,
              Listening
<1>6. RowsAgree /\ RowsTellTheirOwn
  BY DEF Init, RowsAgree, RowsTellTheirOwn
<1>7. NobodyFinishes
  BY DEF Init, NobodyFinishes, FinisherInside
<1> QED BY <1>1, <1>3, <1>4, <1>5, <1>6, <1>7 DEF StoryInv

\* and every step keeps it.
LEMMA NextKeepsStory ==
  ASSUME OneThread, ~Stalls, ~Hasty, "refused" \notin Leaves, StoryInv, [Next]_vars
  PROVE  StoryInv'
<1>1. /\ IInv /\ TypeOK /\ LeaversSay /\ SaidAgrees /\ RowsAgree /\ OpenAgrees /\ NobodyFinishes
      /\ RowsTellTheirOwn
  BY DEF StoryInv, IInv
<1>2. IInv' /\ LeaversSay' /\ SaidAgrees'
  BY <1>1, NextKeeps, LeaversKeep, SaidKeeps
<1>3. OpenAgrees' /\ NobodyFinishes'
  BY <1>1, OpenKeeps, FinishersKeep
<1>4. RowsAgree' /\ RowsTellTheirOwn'
  BY <1>1, RowsKeep, RowsTell
<1> QED BY <1>2, <1>3, <1>4 DEF StoryInv

\* On one thread, the command line's, and where no session/new is refused: turn,
\* timeline and connection tell one story whenever no task is between two locks.
\* Every prompt sent has a row of its own, the open one is the one awaited, no row
\* tells another prompt's outcome, and the teardown leaves nothing running,
\* awaited, armed or open (`submit_prompt` and `settle`, turn.rs; `end_turn`,
\* inbound.rs; `open_turn` and `close_turn`, timeline.rs).
THEOREM OneStoryHolds ==
  ASSUME OneThread, ~Stalls, ~Hasty, "refused" \notin Leaves
  PROVE  Spec => []OneStory
<1>1. StoryInv => OneStory
  <2> SUFFICES ASSUME StoryInv PROVE OneStory
    OBVIOUS
  <2>1. TypeOK /\ RowsTellTheirOwn
    BY DEF StoryInv, IInv
  <2>2. ASSUME Quiet PROVE open = awaiting /\ \A k \in 1..sent : rows[k] # "absent"
    <3>1. \A u \in Users : user[u].at = "idle"
      BY <2>2 DEF Quiet
    <3>2. reader.at \in {"idle", "gone"}
      BY <2>2 DEF Quiet, ReaderInside
    <3>3. open = awaiting
      BY <3>1, <3>2 DEF StoryInv, OpenAgrees, OpenIsAwaited, Somebody, Between, Switching, Handled
    <3>4. \A k \in 1..sent : rows[k] # "absent"
      BY <3>1 DEF StoryInv, RowsAgree, Somebody, Starting
    <3> QED BY <3>3, <3>4
  <2>3. EndedWithConnection
    BY DEF StoryInv, OpenAgrees, ReaderOpensRight, IInv, TeardownAgrees, EndedWithConnection
  <2> QED BY <2>1, <2>2, <2>3 DEF OneStory, EveryPromptHasARow
<1>2. StoryInv /\ [Next]_vars => StoryInv'
  BY NextKeepsStory
<1> QED BY InitStory, <1>1, <1>2, PTL DEF Spec
=============================================================================
