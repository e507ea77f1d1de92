----------------------------- MODULE CliProofs ------------------------------
(***************************************************************************)
(* What holds of every run of the command line (Cli), for any number of    *)
(* prompts, requests and signals (crates/cli/src/run.rs).                  *)
(***************************************************************************)
EXTENDS Cli, TLAPS

(***************************************************************************)
(* The invariant.                                                          *)
(***************************************************************************)
\* The shapes `TypeOK` leaves open.
ShapesAreRight ==
  /\ ending \in [how : Endings, lost : BOOLEAN]
  /\ asks \in [Asks -> [kind : Kinds, stands : {"unmade", "waits", "answered", "over"}]]
  /\ policyCancels \in Nat

\* An agent that runs is one a connection holds, or one being stopped.
AgentIsHeld ==
  /\ at = "start" => agent = "none" /\ ~Connected /\ reply = "none"
  /\ status = "idle" => agent = "none"
  /\ agent = "runs" => Connected \/ at = "stopping"
  /\ Connected => at \in {"settle", "stop"} \cup Calls
  /\ status = "disconnected" => at \in {"stopping", "report", "over"}

\* What was driven when: turns are reported in order and only the last of them
\* may be open or have failed, the first to do so ending the run.
TurnsAreInOrder ==
  /\ Driving <=> ending.how = "none"
  /\ at \in {"start", "initialize", "session"} => turns = <<>> /\ turn = "idle"
  /\ at = "prompt" => /\ turns # <<>> /\ turns[Len(turns)] = "open" /\ turn # "idle"
                      /\ reply # "none" => turn = "ended"
  /\ \A k \in DOMAIN turns :
       /\ turns[k] = "open" => k = Len(turns) /\ (at = "prompt" \/ ending.how \in {"timeout", "signal"})
       /\ turns[k] \in {"error", "lost"} => ending.how = "prompt"
  /\ ending.how = "completed" => Len(turns) = prompts /\ turn \in {"idle", "ended"}

\* A turn the policy cancels is one turn, and shows: it still cancels, or was
\* answered as cancelled, or is annotated, or the run did not complete.
CancelsShow ==
  /\ policyCancels <= Len(turns) /\ (turn = "inflight" => policyCancels < Len(turns))
  /\ policyCancels > 0 =>
       \/ notes \/ turn = "cancelling" \/ (at = "prompt" /\ reply = "cancelled")
       \/ \E k \in DOMAIN turns : turns[k] = "cancelled"
       \/ ending.how \notin {"none", "completed"}

\* The code is the one the report was written for, or a second signal's.
CodeIsKept ==
  /\ code # "none" => at = "over"
  /\ at = "over" => \/ code = ExitCode(ending, exported, notes) /\ exported \in Written
                    \/ code = "128+" /\ signals > 0

\* Who never started answers nothing, and once the reader let it go it says so.
NeverIsSaid ==
  /\ agent = "never" => reply \in {"none", "lost"} /\ (status = "lost" => "SpawnFailed" \in why)
  /\ agent = "never" /\ ending.how = "initialize" =>
       /\ ending.lost
       /\ at # "settle" => status = "lost" \/ hurried \/ signals > 0
       /\ at = "over" => hurried \/ signals > 0

IInv ==
  /\ TypeOK /\ ShapesAreRight /\ AgentIsHeld /\ TurnsAreInOrder /\ CancelsShow
  /\ CodeIsKept /\ NeverIsSaid

(***************************************************************************)
(* What the longer steps come to.                                          *)
(***************************************************************************)
NextPrompt(done) ==
  /\ Len(done) < prompts /\ turns' = Append(done, "open") /\ turn' = "inflight"
  /\ at' = "prompt" /\ UNCHANGED <<ending, task>>
Completes(done) ==
  /\ ~(Len(done) < prompts) /\ turns' = done /\ UNCHANGED turn /\ Ended("completed", FALSE)
Fails ==
  /\ reply \in {"error", "lost"} /\ UNCHANGED turn /\ Ended(at, reply = "lost")
  /\ turns' = IF at = "prompt" THEN [turns EXCEPT ![Len(turns)] = reply] ELSE turns
Opens ==
  /\ at = "initialize" /\ at' = "session" /\ UNCHANGED <<turns, turn, ending, task>>

LEMMA ReturnIs ==
  ASSUME TypeOK, Return
  PROVE  /\ at \in Calls /\ reply # "none" /\ reply' = "none"
         /\ UNCHANGED <<given, exported, code, agent, status, why, notes, asks, stirred, signals, hurried>>
         /\ \/ /\ at = "prompt" /\ reply \in Stops
               /\ \/ NextPrompt([turns EXCEPT ![Len(turns)] = reply])
                  \/ Completes([turns EXCEPT ![Len(turns)] = reply])
            \/ Fails
            \/ Opens /\ reply \in Stops
            \/ at = "session" /\ reply \in Stops /\ (NextPrompt(turns) \/ Completes(turns))
<1>1. reply \in Stops \/ reply \in {"error", "lost"}
  BY DEF TypeOK, Return, Replies, Stops
<1>2. CASE at = "prompt" /\ reply \in Stops
  BY <1>2 DEF Return, More, NextPrompt, Completes, Calls
<1>3. CASE reply \in {"error", "lost"}
  BY <1>3 DEF Return, Fails, Calls, Stops
<1>4. CASE at = "initialize" /\ reply \in Stops
  BY <1>4 DEF Return, Opens, Calls, Stops
<1>5. CASE at = "session" /\ reply \in Stops
  BY <1>5 DEF Return, Proceed, More, NextPrompt, Completes, Calls, Stops
<1> QED BY <1>1, <1>2, <1>3, <1>4, <1>5 DEF Return, Calls

LEMMA EndedIs ==
  ASSUME NEW how, NEW lost \in BOOLEAN, Ended(how, lost)
  PROVE  /\ ending' = [how |-> how, lost |-> lost] /\ ending'.how = how /\ ending'.lost = lost
         /\ at' = IF lost THEN "settle" ELSE "stop"
         /\ answering' = "aborted" /\ todo' = {} /\ asked' = {} /\ policyCancels' = policyCancels
  BY DEF Ended, Lost

LEMMA EndedTypes ==
  ASSUME NEW how \in Endings, NEW lost \in BOOLEAN, Ended(how, lost)
  PROVE  ending' \in [how : Endings, lost : BOOLEAN] /\ at' \in {"settle", "stop"}
  BY DEF Ended

\* The turn that ends last is the last of the turns reported on.
LEMMA LastTurn ==
  ASSUME TypeOK, turns # <<>>, NEW reply_ \in Replies
  PROVE  LET done == [turns EXCEPT ![Len(turns)] = reply_]
         IN /\ done \in Seq({"open"} \cup Replies) /\ Len(done) = Len(turns)
            /\ Len(turns) \in Nat \ {0} /\ Len(turns) \in DOMAIN turns /\ DOMAIN done = DOMAIN turns
            /\ done[Len(turns)] = reply_
            /\ \A k \in DOMAIN turns : k # Len(turns) => done[k] = turns[k]
  BY DEF TypeOK

LEMMA NewTurn ==
  ASSUME NEW done \in Seq({"open"} \cup Replies), NEW more, more = Append(done, "open")
  PROVE  /\ more \in Seq({"open"} \cup Replies) /\ Len(more) = Len(done) + 1 /\ Len(done) \in Nat
         /\ more # <<>> /\ more[Len(more)] = "open" /\ DOMAIN more = 1..(Len(done) + 1)
         /\ DOMAIN done = 1..Len(done)
         /\ \A k \in DOMAIN done : more[k] = done[k]
  OBVIOUS

(***************************************************************************)
(* Who moves what.                                                         *)
(***************************************************************************)
Ends == TimesOut \/ Interrupted
Reads ==
  \/ \E how \in Replies \ {"lost"} : Answered(how)
  \/ Breaks \/ SendFails \/ Observes
Responds == \E r \in Asks : Respond(r)

\* Only the run itself, what cuts it short and the second signal change where it
\* is and what it reports; the command line never changes.
LEMMA RunMoves ==
  ASSUME [Next]_vars
  PROVE  /\ UNCHANGED given
         /\ Run \/ Ends \/ Hurry \/ UNCHANGED <<at, report>>
<1>1. CASE Run
  BY <1>1 DEF Run, Start, Return, Settled, Stop, Disconnect, Report, given
<1>2. CASE Ends \/ Hurry
  BY <1>2 DEF Ends, TimesOut, Interrupted, Hurry, given
<1>3. CASE Answering
  BY <1>3 DEF Answering, Look, Respond, Sleep, Wake, given, report
<1>4. CASE Reads \/ Exits \/ Stopped \/ UNCHANGED vars
  BY <1>4 DEF Reads, Answered, Breaks, SendFails, Observes, Exits, Stopped, vars, given, report
<1>5. CASE \E r \in Asks, kind \in Kinds : Asked(r, kind)
  BY <1>5 DEF Asked, given, report
<1> QED BY <1>1, <1>2, <1>3, <1>4, <1>5 DEF Next, Ends, Reads, vars, given, report

\* Only these touch the agent's process and what became of the connection.
LEMMA AgentMoves ==
  ASSUME [Next]_vars
  PROVE  \/ Start \/ Stop \/ Disconnect \/ Hurry \/ Exits \/ Observes \/ Stopped
         \/ UNCHANGED <<agent, status, why>>
<1>1. CASE Run \/ Ends
  BY <1>1 DEF Run, Ends, Return, Settled, Report, TimesOut, Interrupted, core
<1>2. CASE Answering \/ UNCHANGED vars
  BY <1>2 DEF Answering, Look, Respond, Sleep, Wake, core, vars
<1>3. CASE Reads
  BY <1>3 DEF Reads, Answered, Breaks, SendFails
<1>4. CASE \E r \in Asks, kind \in Kinds : Asked(r, kind)
  BY <1>4 DEF Asked
<1> QED BY <1>1, <1>2, <1>3, <1>4 DEF Next, Ends, Reads, vars, core

\* Only these touch the turn, what is annotated and the answer awaited.
LEMMA TurnMoves ==
  ASSUME [Next]_vars
  PROVE  \/ Return \/ Stop \/ Hurry \/ Responds \/ Reads
         \/ UNCHANGED <<turn, notes, reply>>
<1>1. CASE Run \/ Ends
  BY <1>1 DEF Run, Ends, Start, Settled, Disconnect, Report, TimesOut, Interrupted, core
<1>2. CASE Answering \/ UNCHANGED vars
  BY <1>2 DEF Answering, Responds, Look, Sleep, Wake, core, vars
<1>3. CASE Exits \/ Stopped
  BY <1>3 DEF Exits, Stopped
<1>4. CASE \E r \in Asks, kind \in Kinds : Asked(r, kind)
  BY <1>4 DEF Asked
<1> QED BY <1>1, <1>2, <1>3, <1>4 DEF Next, Ends, Reads, vars, core

\* Only these touch what the answering task keeps.
LEMMA TaskMoves ==
  ASSUME [Next]_vars
  PROVE  \/ Ends \/ Start \/ Return \/ Look \/ Responds \/ Sleep \/ Wake
         \/ UNCHANGED task
<1>1. CASE Run \/ Hurry
  BY <1>1 DEF Run, Hurry, Settled, Stop, Disconnect, Report
<1>2. CASE Reads \/ Exits \/ Stopped \/ UNCHANGED vars
  BY <1>2 DEF Reads, Answered, Breaks, SendFails, Observes, Exits, Stopped, vars
<1>3. CASE \E r \in Asks, kind \in Kinds : Asked(r, kind)
  BY <1>3 DEF Asked
<1> QED BY <1>1, <1>2, <1>3 DEF Next, Ends, Reads, Answering, Responds, vars

LEMMA CountsMove ==
  ASSUME [Next]_vars
  PROVE  \/ Interrupted \/ Hurry \/ Settled \/ Disconnect
         \/ UNCHANGED <<signals, hurried>>
<1>1. CASE Run \/ Ends
  BY <1>1 DEF Run, Ends, Start, Return, Stop, Report, TimesOut
<1>2. CASE Answering \/ Reads \/ Exits \/ Stopped \/ UNCHANGED vars
  BY <1>2 DEF Answering, Look, Respond, Sleep, Wake, Reads, Answered, Breaks, SendFails, Observes, Exits, Stopped, vars
<1>3. CASE \E r \in Asks, kind \in Kinds : Asked(r, kind)
  BY <1>3 DEF Asked
<1> QED BY <1>1, <1>2, <1>3 DEF Next, Ends, Reads, vars

(***************************************************************************)
(* Types, a part at a time.                                                *)
(***************************************************************************)
RunTypes ==
  /\ prompts \in 0..MaxPrompts /\ timeout \in BOOLEAN
  /\ at \in {"start", "settle", "stop", "stopping", "report", "over"} \cup Calls
  /\ turns \in Seq({"open"} \cup Replies) /\ Len(turns) <= prompts
  /\ ending \in [how : Endings, lost : BOOLEAN]
  /\ exported \in {"no", "yes", "failed"} /\ code \in {"none", "0", "1", "2", "3", "4", "128+"}
AgentTypes ==
  /\ agent \in {"none", "runs", "never", "gone"}
  /\ status \in {"idle", "connected", "lost", "disconnected"}
  /\ why \subseteq {"SpawnFailed", "AgentExited", "Stopped"}
TurnTypes ==
  /\ turn \in {"idle", "inflight", "cancelling", "ended"} /\ notes \in BOOLEAN
  /\ reply \in {"none"} \cup Replies
AskTypes ==
  /\ stirred \in BOOLEAN
  /\ asks \in [Asks -> [kind : Kinds, stands : {"unmade", "waits", "answered", "over"}]]
TaskTypes ==
  /\ answering \in {"look", "ask", "wait", "aborted"}
  /\ todo \subseteq Asks /\ asked \subseteq Asks
  /\ policyCancels \in 0..MaxPrompts
CountTypes == signals \in 0..MaxSignals /\ hurried \in BOOLEAN

LEMMA PartsOfTypes ==
  TypeOK /\ ShapesAreRight =>
    RunTypes /\ AgentTypes /\ TurnTypes /\ AskTypes /\ TaskTypes /\ CountTypes
  BY DEF TypeOK, ShapesAreRight, RunTypes, AgentTypes, TurnTypes, AskTypes, TaskTypes, CountTypes

LEMMA PartsTogether ==
  ASSUME RunTypes', AgentTypes', TurnTypes', AskTypes', TaskTypes', CountTypes'
  PROVE  TypeOK' /\ ShapesAreRight'
<1>1. ending'.how \in Endings /\ ending'.lost \in BOOLEAN
  BY DEF RunTypes
<1>2. \A r \in Asks : /\ asks'[r].kind \in Kinds
                      /\ asks'[r].stands \in {"unmade", "waits", "answered", "over"}
  BY DEF AskTypes
<1>3. policyCancels' \in Nat
  BY CliAssumption DEF TaskTypes
<1> QED BY <1>1, <1>2, <1>3 DEF TypeOK, ShapesAreRight, RunTypes, AgentTypes, TurnTypes, AskTypes, TaskTypes, CountTypes

LEMMA RunTypesKeep ==
  ASSUME IInv, [Next]_vars
  PROVE  RunTypes'
<1>t. TypeOK /\ RunTypes /\ TurnTypes
  BY PartsOfTypes DEF IInv
<1> USE DEF RunTypes, Calls, Endings, given, report
<1>1. CASE Ends
  <2>1. PICK how \in {"timeout", "signal"} : Ended(how, FALSE) /\ UNCHANGED <<given, turns, exported, code>>
    BY <1>1 DEF Ends, TimesOut, Interrupted
  <2> QED BY <2>1, <1>t, EndedTypes
<1>2. CASE Hurry
  BY <1>2, <1>t DEF Hurry
<1>3. CASE Start
  <2>1. CASE Ended("cwd", FALSE)
    BY <2>1, <1>3, <1>t, EndedTypes DEF Start
  <2>2. CASE ~Ended("cwd", FALSE)
    BY <2>2, <1>3, <1>t DEF Start, task
  <2> QED BY <2>1, <2>2
<1>4. CASE Return
  <2>1. UNCHANGED <<given, exported, code>> /\ at \in Calls /\ reply \in Replies
    BY <1>4, <1>t, ReturnIs DEF TurnTypes
  <2>2. CASE at = "prompt" /\ reply \in Stops
    <3>1. PICK done : done = [turns EXCEPT ![Len(turns)] = reply]
      OBVIOUS
    <3>2. NextPrompt(done) \/ Completes(done)
      BY <2>2, <3>1, <1>4, <1>t, ReturnIs DEF Stops, Fails, Opens
    <3>3. done \in Seq({"open"} \cup Replies) /\ Len(done) = Len(turns)
      BY <3>1, <2>2, <2>1, <1>t, LastTurn DEF IInv, TurnsAreInOrder
    <3>4. CASE NextPrompt(done)
      BY <3>4, <3>3, <2>1, <1>t, NewTurn, CliAssumption DEF NextPrompt
    <3>5. CASE Completes(done)
      BY <3>5, <3>3, <2>1, <1>t, EndedTypes DEF Completes
    <3> QED BY <3>2, <3>4, <3>5
  <2>3. CASE Fails
    <3>1. turns' \in Seq({"open"} \cup Replies) /\ Len(turns') = Len(turns)
      BY <2>3, <2>1, <1>t, LastTurn DEF Fails, IInv, TurnsAreInOrder
    <3>2. (reply = "lost") \in BOOLEAN
      OBVIOUS
    <3> QED BY <3>1, <3>2, <2>3, <2>1, <1>t, EndedTypes DEF Fails
  <2>4. CASE Opens
    BY <2>4, <2>1, <1>t DEF Opens
  <2>5. CASE NextPrompt(turns)
    BY <2>5, <2>1, <1>t, NewTurn, CliAssumption DEF NextPrompt
  <2>6. CASE Completes(turns)
    BY <2>6, <2>1, <1>t, EndedTypes DEF Completes
  <2> QED BY <2>2, <2>3, <2>4, <2>5, <2>6, <1>4, <1>t, ReturnIs
<1>5. CASE Settled \/ Stop \/ Disconnect
  BY <1>5, <1>t DEF Settled, Stop, Disconnect
<1>6. CASE Report
  <2>1. ending' \in [how : Endings, lost : BOOLEAN]
    BY <1>6, <1>t DEF Report
  <2>2. exported' \in {"no", "yes", "failed"}
    BY <1>6, <1>t DEF Report, Written
  <2>3. code' \in {"none", "0", "1", "2", "3", "4", "128+"}
    BY <1>6, <1>t DEF Report, ExitCode
  <2> QED BY <2>1, <2>2, <2>3, <1>6, <1>t DEF Report
<1>7. CASE UNCHANGED <<given, at, report>>
  BY <1>7, <1>t
<1> QED BY <1>1, <1>2, <1>3, <1>4, <1>5, <1>6, <1>7, RunMoves DEF Run

LEMMA AgentTypesKeep ==
  ASSUME IInv, [Next]_vars
  PROVE  AgentTypes'
<1>t. AgentTypes
  BY PartsOfTypes DEF IInv
<1> USE DEF AgentTypes
<1>1. CASE Start
  BY <1>1, <1>t, CliAssumption DEF Start
<1>2. CASE Stop \/ Disconnect \/ Hurry \/ Stopped
  BY <1>2, <1>t DEF Stop, Disconnect, Hurry, Stopped, Kills
<1>3. CASE Exits \/ Observes
  BY <1>3, <1>t DEF Exits, Observes
<1>4. CASE UNCHANGED <<agent, status, why>>
  BY <1>4, <1>t
<1> QED BY <1>1, <1>2, <1>3, <1>4, AgentMoves

LEMMA TurnTypesKeep ==
  ASSUME IInv, [Next]_vars
  PROVE  TurnTypes'
<1>t. TurnTypes
  BY PartsOfTypes DEF IInv
<1> USE DEF TurnTypes
<1>1. CASE Return
  BY <1>1, <1>t, ReturnIs DEF IInv, NextPrompt, Completes, Fails, Opens
<1>2. CASE Stop \/ Hurry
  BY <1>2, <1>t DEF Stop, Hurry, Teardown
<1>3. CASE Responds
  BY <1>3, <1>t DEF Responds, Respond
<1>4. CASE Reads
  BY <1>4, <1>t DEF Reads, Answered, Breaks, SendFails, Observes, Teardown, Replies
<1>5. CASE UNCHANGED <<turn, notes, reply>>
  BY <1>5, <1>t
<1> QED BY <1>1, <1>2, <1>3, <1>4, <1>5, TurnMoves

LEMMA AskTypesKeep ==
  ASSUME IInv, [Next]_vars
  PROVE  AskTypes'
<1>t. AskTypes
  BY PartsOfTypes DEF IInv
<1> USE DEF AskTypes
<1>1. CASE Stop \/ Hurry \/ Observes
  <2>1. Teardown \/ UNCHANGED <<asks, stirred>>
    BY <1>1 DEF Stop, Hurry, Observes
  <2>2. CASE Teardown
    <3>1. asks' = [r \in Asks |-> IF asks[r].stands = "waits" THEN [asks[r] EXCEPT !.stands = "over"]
                                  ELSE asks[r]]
          /\ stirred' = TRUE
      BY <2>2 DEF Teardown
    <3> QED BY <3>1, <1>t
  <2>3. CASE UNCHANGED <<asks, stirred>>
    BY <2>3, <1>t
  <2> QED BY <2>1, <2>2, <2>3
<1>2. ASSUME NEW r \in Asks, Respond(r) PROVE AskTypes'
  <2>1. CASE UNCHANGED <<asks, stirred>>
    BY <2>1, <1>t
  <2>2. CASE asks' = [q \in Asks |-> IF q \in Waiting THEN [asks[q] EXCEPT !.stands = "answered"] ELSE asks[q]]
    BY <2>2, <1>2, <1>t DEF Respond
  <2>3. CASE asks' = [asks EXCEPT ![r].stands = IF @ = "waits" THEN "answered" ELSE @]
    BY <2>3, <1>2, <1>t DEF Respond
  <2> QED BY <2>1, <2>2, <2>3, <1>2 DEF Respond
<1>3. CASE Reads /\ ~Observes
  <2>1. \/ UNCHANGED asks
        \/ asks' = [q \in Asks |-> IF q \in Waiting THEN [asks[q] EXCEPT !.stands = "over"] ELSE asks[q]]
    BY <1>3 DEF Reads, Answered, Breaks, SendFails
  <2>2. stirred' \in BOOLEAN
    BY <1>3, <1>t DEF Reads, Answered, Breaks, SendFails
  <2> QED BY <2>1, <2>2, <1>t
<1>4. ASSUME NEW r \in Asks, NEW kind \in Kinds, Asked(r, kind) PROVE AskTypes'
  BY <1>4, <1>t DEF Asked
<1>5. CASE Ends \/ (Run /\ ~Stop)
  BY <1>5, <1>t DEF Ends, TimesOut, Interrupted, Run, Start, Return, Settled, Disconnect, Report, core
<1>6. CASE Look \/ Sleep \/ Wake \/ Exits \/ Stopped \/ UNCHANGED vars
  BY <1>6, <1>t DEF Look, Sleep, Wake, Exits, Stopped, core, vars
<1> QED BY <1>1, <1>2, <1>3, <1>4, <1>5, <1>6 DEF Next, Ends, Reads, Run, Answering, vars

LEMMA TaskTypesKeep ==
  ASSUME IInv, [Next]_vars
  PROVE  TaskTypes'
<1>t. TaskTypes /\ RunTypes
  BY PartsOfTypes DEF IInv
<1> USE DEF TaskTypes
<1>1. CASE Ends \/ Start \/ Return
  <2>1. UNCHANGED task \/ (answering' = "aborted" /\ todo' = {} /\ asked' = {} /\ policyCancels' = policyCancels)
    BY <1>1 DEF Ends, TimesOut, Interrupted, Start, Return, Proceed, Ended
  <2> QED BY <2>1, <1>t DEF task
<1>2. CASE Look \/ Sleep \/ Wake
  BY <1>2, <1>t DEF Look, Sleep, Wake, Waiting
<1>3. ASSUME NEW r \in Asks, Respond(r) PROVE TaskTypes'
  <2>1. policyCancels' = policyCancels \/ (turn = "inflight" /\ policyCancels' = policyCancels + 1)
    BY <1>3 DEF Respond
  <2>2. turn = "inflight" => policyCancels < Len(turns)
    BY DEF IInv, CancelsShow
  <2>3. policyCancels' \in 0..MaxPrompts
    BY <2>1, <2>2, <1>t, CliAssumption DEF RunTypes
  <2>4. answering' = answering /\ todo' = todo \ {r} /\ asked' = asked
    BY <1>3 DEF Respond
  <2> QED BY <2>3, <2>4, <1>t
<1>4. CASE UNCHANGED task
  BY <1>4, <1>t DEF task
<1> QED BY <1>1, <1>2, <1>3, <1>4, TaskMoves DEF Responds

LEMMA CountTypesKeep ==
  ASSUME IInv, [Next]_vars
  PROVE  CountTypes'
<1>t. CountTypes /\ RunTypes
  BY PartsOfTypes DEF IInv
<1> USE CliAssumption DEF CountTypes
<1>1. CASE Interrupted \/ Hurry
  <2>1. signals < MaxSignals /\ signals' = signals + 1 /\ hurried' = hurried
    BY <1>1 DEF Interrupted, Hurry
  <2> QED BY <2>1, <1>t
<1>2. CASE Settled \/ Disconnect
  BY <1>2, <1>t DEF Settled, Disconnect
<1>3. CASE UNCHANGED <<signals, hurried>>
  BY <1>3, <1>t
<1> QED BY <1>1, <1>2, <1>3, CountsMove

LEMMA TypesKeep ==
  ASSUME IInv, [Next]_vars
  PROVE  TypeOK' /\ ShapesAreRight'
  BY RunTypesKeep, AgentTypesKeep, TurnTypesKeep, AskTypesKeep, TaskTypesKeep, CountTypesKeep, PartsTogether

(***************************************************************************)
(* Agent and connection.                                                   *)
(***************************************************************************)
LEMMA AgentKeeps ==
  ASSUME IInv, [Next]_vars
  PROVE  AgentIsHeld'
<1>i. AgentIsHeld /\ RunTypes /\ AgentTypes /\ (Driving <=> ending.how = "none")
  BY PartsOfTypes DEF IInv, TurnsAreInOrder
<1> USE DEF AgentIsHeld, Connected, Calls, Driving
<1>1. CASE Start
  <2>1. \/ at' = "stop" /\ agent' = agent /\ status' = status
        \/ at' = "initialize" /\ agent' # "none" /\ status' = "connected"
    <3>1. CASE Ended("cwd", FALSE)
      BY <3>1, <1>1, CliAssumption, EndedIs DEF Start
    <3>2. CASE ~Ended("cwd", FALSE)
      BY <3>2, <1>1, CliAssumption DEF Start
    <3> QED BY <3>1, <3>2
  <2> QED BY <2>1, <1>1, <1>i DEF Start
<1>2. CASE Stop \/ Disconnect \/ Hurry
  BY <1>2, <1>i DEF Stop, Disconnect, Hurry, Kills
<1>3. CASE Exits \/ Stopped
  BY <1>3, <1>i DEF Exits, Stopped, report
<1>4. CASE Observes
  BY <1>4, <1>i DEF Observes, report
<1>5. CASE UNCHANGED <<agent, status, why>>
  <2>1. CASE Ends
    BY <2>1, <1>5, <1>i DEF Ends, TimesOut, Interrupted, Ended, Lost
  <2>2. CASE Return
    BY <2>2, <1>5, <1>i DEF Return, Proceed, Ended, Lost
  <2>3. CASE Settled \/ Report
    BY <2>3, <1>5, <1>i DEF Settled, Report
  <2>4. CASE UNCHANGED <<at, report>>
    <3>1. reply' = reply \/ at # "start"
      BY <2>4, <1>5, <1>i, TurnMoves DEF Return, Stop, Hurry, Responds, Respond, Reads, Answered, Breaks, SendFails, Observes
    <3> QED BY <3>1, <2>4, <1>5, <1>i
  <2> QED BY <2>1, <2>2, <2>3, <2>4, <1>1, <1>2, RunMoves DEF Run
<1> QED BY <1>1, <1>2, <1>3, <1>4, <1>5, AgentMoves

(***************************************************************************)
(* Turns reported on.                                                      *)
(***************************************************************************)
\* What of a list of turns that all ended well may follow.
Closed(done) == \A k \in DOMAIN done : done[k] \notin {"open", "error", "lost"}

LEMMA ClosedMakesRoom ==
  ASSUME NEW done \in Seq({"open"} \cup Replies), Closed(done), NEW more, more = Append(done, "open")
  PROVE  /\ more # <<>> /\ more[Len(more)] = "open"
         /\ \A k \in DOMAIN more : /\ more[k] = "open" => k = Len(more)
                                   /\ more[k] \notin {"error", "lost"}
  BY NewTurn DEF Closed

\* The last turn open, everything before it ended well: answered, all did.
LEMMA ClosingTheLast ==
  ASSUME IInv, at = "prompt", reply \in Replies
  PROVE  LET done == [turns EXCEPT ![Len(turns)] = reply]
         IN /\ done \in Seq({"open"} \cup Replies) /\ Len(done) = Len(turns)
            /\ DOMAIN done = DOMAIN turns
            /\ reply \in Stops => Closed(done)
            /\ \A k \in DOMAIN done : done[k] # "open"
<1>1. turns # <<>> /\ \A k \in DOMAIN turns : /\ turns[k] = "open" => k = Len(turns)
                                              /\ turns[k] \notin {"error", "lost"}
  BY DEF IInv, TurnsAreInOrder, Driving, Calls
<1>2. PICK done : done = [turns EXCEPT ![Len(turns)] = reply]
  OBVIOUS
<1>3. /\ done \in Seq({"open"} \cup Replies) /\ Len(done) = Len(turns)
      /\ DOMAIN done = DOMAIN turns /\ done[Len(turns)] = reply
      /\ \A k \in DOMAIN turns : k # Len(turns) => done[k] = turns[k]
  BY <1>1, <1>2, LastTurn DEF IInv
<1>4. reply # "open" /\ (reply \in Stops => reply \notin {"error", "lost"})
  BY DEF Replies, Stops
<1>5. \A k \in DOMAIN done : done[k] # "open"
  BY <1>1, <1>3, <1>4
<1>6. reply \in Stops => Closed(done)
  BY <1>1, <1>3, <1>4 DEF Closed
<1> QED BY <1>2, <1>3, <1>5, <1>6

LEMMA ReturnKeepsTurns ==
  ASSUME IInv, Return
  PROVE  TurnsAreInOrder'
<1>i. TypeOK /\ RunTypes /\ TurnsAreInOrder
  BY PartsOfTypes DEF IInv
<1>0. at \in Calls /\ ending.how = "none" /\ reply \in Replies /\ reply' = "none" /\ prompts' = prompts
  BY <1>i, ReturnIs DEF TypeOK, TurnsAreInOrder, Driving, Calls, given
<1> DEFINE done == [turns EXCEPT ![Len(turns)] = reply]
<1>1. ASSUME NEW d \in Seq({"open"} \cup Replies), Closed(d), NextPrompt(d)
      PROVE  TurnsAreInOrder'
  <2>1. \A k \in DOMAIN turns' : /\ turns'[k] = "open" => k = Len(turns')
                                 /\ turns'[k] \notin {"error", "lost"}
    BY <1>1, ClosedMakesRoom DEF NextPrompt
  <2>2. turns' # <<>> /\ turns'[Len(turns')] = "open"
    BY <1>1, ClosedMakesRoom DEF NextPrompt
  <2>3. at' = "prompt" /\ turn' = "inflight" /\ ending' = ending
    BY <1>1 DEF NextPrompt
  <2> QED BY <2>1, <2>2, <2>3, <1>0 DEF TurnsAreInOrder, Driving, Calls
<1>2. ASSUME NEW d \in Seq({"open"} \cup Replies), Closed(d), Completes(d), Len(d) <= prompts,
             turn \in {"idle", "ended"}
      PROVE  TurnsAreInOrder'
  <2>0. turns' = d /\ turn' = turn /\ ~(Len(d) < prompts) /\ Ended("completed", FALSE)
    BY <1>2 DEF Completes
  <2>3. Len(d) = prompts
    BY <2>0, <1>2, <1>i, CliAssumption DEF RunTypes
  <2>1. turns' = d /\ turn' = turn /\ ending'.how = "completed" /\ at' = "stop" /\ Len(d) = prompts
    BY <2>0, <2>3, EndedIs
  <2> QED BY <2>1, <1>2, <1>0 DEF TurnsAreInOrder, Driving, Calls, Closed
<1>3. CASE at = "prompt" /\ reply \in Stops
  <2>1. PICK d : d = done
    OBVIOUS
  <2>2. /\ d \in Seq({"open"} \cup Replies) /\ Closed(d) /\ Len(d) = Len(turns)
    BY <2>1, <1>3, <1>0, ClosingTheLast
  <2>3. NextPrompt(d) \/ Completes(d)
    BY <2>1, <1>3, <1>i, ReturnIs DEF Stops, Fails, Opens
  <2>4. turn = "ended" /\ Len(d) <= prompts
    BY <2>2, <1>3, <1>i DEF TurnsAreInOrder, RunTypes, Stops
  <2> QED BY <2>2, <2>3, <2>4, <1>1, <1>2
<1>4. CASE at = "session" /\ reply \in Stops
  <2>1. turns = <<>> /\ turn = "idle" /\ Closed(turns)
    BY <1>4, <1>i DEF TurnsAreInOrder, Closed
  <2>2. NextPrompt(turns) \/ Completes(turns)
    BY <1>4, <1>i, ReturnIs DEF Stops, Fails, Opens
  <2> QED BY <2>1, <2>2, <1>1, <1>2, <1>i DEF RunTypes
<1>5. CASE Opens
  BY <1>5, <1>i, <1>0 DEF Opens, TurnsAreInOrder, Driving, Calls
<1>6. CASE Fails
  <2>1. ending'.how = at /\ at' \in {"settle", "stop"} /\ turn' = turn
    BY <1>6, EndedIs DEF Fails
  <2>2. \A k \in DOMAIN turns' : /\ turns'[k] # "open"
                                 /\ turns'[k] \in {"error", "lost"} => at = "prompt"
    <3>1. CASE at = "prompt"
      BY <3>1, <1>6, <1>0, ClosingTheLast DEF Fails
    <3>2. CASE at # "prompt"
      BY <3>2, <1>6, <1>0, <1>i DEF Fails, TurnsAreInOrder, Calls
    <3> QED BY <3>1, <3>2
  <2> QED BY <2>1, <2>2, <1>0 DEF TurnsAreInOrder, Driving, Calls
<1> QED BY <1>3, <1>4, <1>5, <1>6, <1>i, ReturnIs

LEMMA TurnsKeep ==
  ASSUME IInv, [Next]_vars
  PROVE  TurnsAreInOrder'
<1>i. TypeOK /\ RunTypes /\ TurnTypes /\ TurnsAreInOrder
  BY PartsOfTypes DEF IInv
<1> USE DEF TurnsAreInOrder, Driving, Calls
<1>1. CASE Ends
  <2>1. PICK how \in {"timeout", "signal"} : Ended(how, FALSE) /\ UNCHANGED <<given, turns, core>> /\ Driving
    BY <1>1 DEF Ends, TimesOut, Interrupted
  <2>2. ending'.how = how /\ at' = "stop" /\ UNCHANGED <<turns, turn>>
    BY <2>1, EndedIs DEF core
  <2> QED BY <2>1, <2>2, <1>i
<1>2. CASE Start
  <2>1. UNCHANGED <<turns, turn, reply, prompts>> /\ at = "start"
    BY <1>2 DEF Start, given
  <2>2. Ended("cwd", FALSE) \/ (at' = "initialize" /\ ending' = ending)
    BY <1>2 DEF Start
  <2>3. Ended("cwd", FALSE) => at' = "stop" /\ ending'.how = "cwd"
    BY EndedIs
  <2> QED BY <2>1, <2>2, <2>3, <1>i
<1>3. CASE Settled \/ Stop \/ Disconnect \/ Hurry
  <2>1. UNCHANGED <<turns, ending, prompts>> /\ at \notin Calls \cup {"start"} /\ at' \notin Calls \cup {"start"}
    BY <1>3 DEF Settled, Stop, Disconnect, Hurry, given, report
  <2>2. turn' = turn \/ turn' = IF turn \in {"inflight", "cancelling"} THEN "ended" ELSE turn
    BY <1>3 DEF Settled, Stop, Disconnect, Hurry, Teardown, core
  <2> QED BY <2>1, <2>2, <1>i
<1>4. CASE Report
  <2>1. ending'.how = ending.how \/ (ending.how = "initialize" /\ ending'.how = "spawn")
    BY <1>4, <1>i DEF Report, RunTypes
  <2>2. UNCHANGED <<turns, turn, prompts>> /\ at = "report" /\ at' = "over"
    BY <1>4 DEF Report, core, given
  <2> QED BY <2>1, <2>2, <1>i
<1>5. CASE Responds /\ UNCHANGED <<at, report>>
  BY <1>5, <1>i, RunMoves DEF Responds, Respond, report, given
<1>6. CASE Reads /\ UNCHANGED <<at, report>>
  <2>1. UNCHANGED <<at, turns, ending, prompts>>
    BY <1>6, RunMoves DEF report, given
  <2>2. CASE \E how \in Replies \ {"lost"} : Answered(how)
    BY <2>1, <2>2, <1>i DEF Answered
  <2>3. CASE SendFails \/ Observes
    BY <2>1, <2>3, <1>i DEF SendFails, Observes, Teardown, TurnTypes
  <2>4. CASE Breaks
    BY <2>1, <2>4, <1>i DEF Breaks
  <2> QED BY <2>2, <2>3, <2>4, <1>6 DEF Reads
<1>7. CASE UNCHANGED <<at, report, turn, reply>>
  BY <1>7, <1>i, RunMoves DEF report, given
<1>8. Return \/ Stop \/ Hurry \/ Responds \/ Reads \/ UNCHANGED <<turn, notes, reply>>
  BY TurnMoves
<1> QED BY <1>1, <1>2, <1>3, <1>4, <1>5, <1>6, <1>7, <1>8, RunMoves, ReturnKeepsTurns DEF Run

(***************************************************************************)
(* Turns cancelled by the policy.                                          *)
(***************************************************************************)
LEMMA OnlyRespondsCancel ==
  ASSUME [Next]_vars
  PROVE  Responds \/ policyCancels' = policyCancels
<1>1. CASE Ends \/ Start
  BY <1>1 DEF Ends, TimesOut, Interrupted, Start, Ended, task
<1>2. CASE Return
  BY <1>2 DEF Return, Proceed, Ended, task
<1>3. CASE Look \/ Sleep \/ Wake \/ UNCHANGED task
  BY <1>3 DEF Look, Sleep, Wake, task
<1> QED BY <1>1, <1>2, <1>3, TaskMoves

CancelShows ==
  policyCancels > 0 =>
    \/ notes \/ turn = "cancelling" \/ (at = "prompt" /\ reply = "cancelled")
    \/ \E k \in DOMAIN turns : turns[k] = "cancelled"
    \/ ending.how \notin {"none", "completed"}
CancelsCount == policyCancels <= Len(turns) /\ (turn = "inflight" => policyCancels < Len(turns))

LEMMA ReturnKeepsCancels ==
  ASSUME IInv, Return
  PROVE  CancelsCount' /\ CancelShows'
<1>i. /\ TypeOK /\ RunTypes /\ TaskTypes /\ TurnsAreInOrder /\ CancelsCount /\ CancelShows
      /\ policyCancels \in Nat /\ Len(turns) \in Nat
  BY PartsOfTypes DEF IInv, CancelsShow, CancelsCount, CancelShows, ShapesAreRight, RunTypes
<1>0. /\ at \in Calls /\ ending.how = "none" /\ reply \in Replies
      /\ notes' = notes /\ policyCancels' = policyCancels
  BY <1>i, ReturnIs, OnlyRespondsCancel DEF TypeOK, TurnsAreInOrder, Driving, Calls, Next, Run, Return, Proceed, Ended, task
<1> DEFINE done == [turns EXCEPT ![Len(turns)] = reply]
<1>1. ASSUME NEW d \in Seq({"open"} \cup Replies), NextPrompt(d) \/ (Completes(d) /\ turn \in {"idle", "ended"}),
             Len(d) = Len(turns), policyCancels > 0 => notes \/ \E k \in DOMAIN d : d[k] = "cancelled"
      PROVE  CancelsCount' /\ CancelShows'
  <2>1. CASE NextPrompt(d)
    <3>1. /\ Len(turns') = Len(turns) + 1
          /\ \A k \in DOMAIN d : k \in DOMAIN turns' /\ turns'[k] = d[k]
      BY <2>1, <1>1, NewTurn DEF NextPrompt
    <3>2. CancelsCount'
      BY <3>1, <1>i, <1>0 DEF CancelsCount
    <3>3. CancelShows'
      BY <3>1, <1>1, <1>0 DEF CancelShows
    <3> QED BY <3>2, <3>3
  <2>2. CASE Completes(d) /\ turn \in {"idle", "ended"}
    <3>1. turns' = d /\ turn' = turn
      BY <2>2 DEF Completes
    <3> QED BY <3>1, <2>2, <1>1, <1>i, <1>0 DEF CancelsCount, CancelShows
  <2> QED BY <1>1, <2>1, <2>2
<1>2. CASE at = "prompt" /\ reply \in Stops
  <2>1. PICK d : d = done
    OBVIOUS
  <2>2. /\ d \in Seq({"open"} \cup Replies) /\ Len(d) = Len(turns) /\ DOMAIN d = DOMAIN turns
    BY <2>1, <1>2, <1>0, ClosingTheLast
  <2>3. NextPrompt(d) \/ Completes(d)
    BY <2>1, <1>2, <1>i, ReturnIs DEF Stops, Fails, Opens
  <2>4. turn = "ended" /\ turns # <<>> /\ turns[Len(turns)] = "open"
    BY <1>2, <1>i DEF TurnsAreInOrder, Stops
  <2>5. /\ Len(turns) \in DOMAIN d /\ d[Len(turns)] = reply
        /\ \A k \in DOMAIN turns : turns[k] = "cancelled" => d[k] = "cancelled"
    BY <2>1, <2>4, <1>i, <1>0, LastTurn
  <2>6. policyCancels > 0 => notes \/ \E k \in DOMAIN d : d[k] = "cancelled"
    BY <2>2, <2>4, <2>5, <1>i, <1>0 DEF CancelShows
  <2> QED BY <2>2, <2>3, <2>4, <2>6, <1>1
<1>3. CASE at = "session" /\ reply \in Stops
  <2>1. turns = <<>> /\ turn = "idle" /\ ~(policyCancels > 0)
    BY <1>3, <1>i DEF TurnsAreInOrder, CancelsCount
  <2>2. NextPrompt(turns) \/ Completes(turns)
    BY <1>3, <1>i, ReturnIs DEF Stops, Fails, Opens
  <2> QED BY <2>1, <2>2, <1>1, <1>i DEF RunTypes
<1>4. CASE Opens
  BY <1>4, <1>i, <1>0 DEF Opens, CancelsCount, CancelShows
<1>5. CASE Fails
  <2>1. ending'.how = at /\ at \notin {"none", "completed"} /\ turn' = turn
    BY <1>5, <1>0, EndedIs DEF Fails, Calls
  <2>2. Len(turns') = Len(turns)
    BY <1>5, <1>0, ClosingTheLast DEF Fails
  <2> QED BY <2>1, <2>2, <1>i, <1>0 DEF CancelsCount, CancelShows
<1> QED BY <1>2, <1>3, <1>4, <1>5, <1>i, ReturnIs

LEMMA CancelsKeep ==
  ASSUME IInv, [Next]_vars
  PROVE  CancelsShow'
<1>i. /\ TypeOK /\ RunTypes /\ TurnTypes /\ TurnsAreInOrder /\ CancelsCount /\ CancelShows
      /\ policyCancels \in Nat /\ Len(turns) \in Nat
  BY PartsOfTypes DEF IInv, CancelsShow, CancelsCount, CancelShows, ShapesAreRight, RunTypes
<1>1. CASE Ends
  <2>1. PICK how \in {"timeout", "signal"} : Ended(how, FALSE) /\ UNCHANGED <<turns, core>>
    BY <1>1 DEF Ends, TimesOut, Interrupted
  <2>2. ending'.how = how /\ policyCancels' = policyCancels /\ UNCHANGED <<turns, turn>>
    BY <2>1, EndedIs DEF core
  <2> QED BY <2>1, <2>2, <1>i DEF CancelsCount, CancelShows, CancelsShow
<1>2. CASE Start
  <2>1. ~(policyCancels > 0) /\ policyCancels' = policyCancels /\ UNCHANGED <<turns, turn>>
    BY <1>2, <1>i DEF Start, TurnsAreInOrder, CancelsCount, Ended, task
  <2> QED BY <2>1, <1>i DEF CancelsCount, CancelsShow
<1>3. CASE Settled \/ Stop \/ Disconnect \/ Hurry
  <2>1. UNCHANGED <<turns, ending, policyCancels>> /\ at \notin Calls /\ reply' = reply
    BY <1>3 DEF Settled, Stop, Disconnect, Hurry, report, task, Calls, core
  <2>2. \/ turn' = turn /\ notes' = notes
        \/ turn' \notin {"inflight", "cancelling"} /\ (notes \/ turn = "cancelling" => notes')
    BY <1>3, <1>i DEF Settled, Stop, Disconnect, Hurry, Teardown, core, TurnTypes
  <2> QED BY <2>1, <2>2, <1>i DEF CancelsCount, CancelShows, CancelsShow, Calls
<1>4. CASE Report
  <2>1. ending'.how = ending.how \/ ending'.how = "spawn"
    BY <1>4, <1>i DEF Report, RunTypes
  <2>2. UNCHANGED <<turns, turn, notes, reply, policyCancels>> /\ at = "report"
    BY <1>4 DEF Report, core, task
  <2> QED BY <2>1, <2>2, <1>i DEF CancelsCount, CancelShows, CancelsShow
<1>5. CASE Responds
  <2>1. UNCHANGED <<at, turns, ending, notes, reply>>
    BY <1>5 DEF Responds, Respond, report
  <2>2. \/ turn' = turn /\ policyCancels' = policyCancels
        \/ turn' = "cancelling" /\ policyCancels' = IF turn = "inflight" THEN policyCancels + 1 ELSE policyCancels
    BY <1>5 DEF Responds, Respond
  <2> QED BY <2>1, <2>2, <1>i DEF CancelsCount, CancelShows, CancelsShow
<1>6. CASE Reads
  <2>1. UNCHANGED <<at, turns, ending, policyCancels>>
    BY <1>6 DEF Reads, Answered, Breaks, SendFails, Observes, report, task
  <2>2. \/ turn' = turn /\ (notes => notes') /\ (at = "prompt" => reply' = reply)
        \/ /\ turn' \notin {"inflight", "cancelling"} /\ (notes => notes')
           /\ turn = "cancelling" => notes' \/ (at = "prompt" /\ reply' = "cancelled")
           /\ reply' = reply \/ reply = "none"
    BY <1>6, <1>i DEF Reads, Answered, Breaks, SendFails, Observes, Teardown, TurnTypes, TurnsAreInOrder
  <2> QED BY <2>1, <2>2, <1>i DEF CancelsCount, CancelShows, CancelsShow
<1>7. CASE UNCHANGED <<at, report, turn, notes, reply, policyCancels>>
  BY <1>7, <1>i DEF report, CancelsCount, CancelShows, CancelsShow
<1>8. CASE Return
  BY <1>8, ReturnKeepsCancels DEF CancelsCount, CancelShows, CancelsShow
<1> QED BY <1>1, <1>2, <1>3, <1>4, <1>5, <1>6, <1>7, <1>8, RunMoves, TurnMoves, OnlyRespondsCancel DEF Run

(***************************************************************************)
(* The code, and the agent that never started.                             *)
(***************************************************************************)
\* Once the run is over nothing it reports changes any more.
LEMMA OverIsOver ==
  ASSUME IInv, [Next]_vars, at = "over"
  PROVE  UNCHANGED <<at, report, notes, signals, hurried>>
<1>i. AgentIsHeld
  BY DEF IInv
<1>1. ~Run /\ ~Ends /\ ~Hurry
  BY DEF Run, Start, Return, Settled, Stop, Disconnect, Report, Ends, TimesOut, Interrupted, Hurry, Driving, Calls
<1>2. UNCHANGED <<at, report>>
  BY <1>1, RunMoves
<1>3. UNCHANGED <<signals, hurried>>
  BY <1>1, CountsMove DEF Ends, Run
<1>4. ~Connected
  BY <1>i DEF AgentIsHeld, Calls
<1>5. notes' = notes
  BY <1>1, <1>4, TurnMoves DEF Run, Responds, Respond, Reads, Answered, Breaks, SendFails, Observes, Calls
<1> QED BY <1>2, <1>3, <1>5

LEMMA CodeKeeps ==
  ASSUME IInv, [Next]_vars
  PROVE  CodeIsKept'
<1>i. TypeOK /\ RunTypes /\ CountTypes /\ CodeIsKept
  BY PartsOfTypes DEF IInv
<1>1. CASE at = "over"
  <2>1. UNCHANGED <<at, turns, ending, exported, code, notes, signals>>
    BY <1>1, OverIsOver DEF report
  <2> QED BY <2>1, <1>1, <1>i DEF CodeIsKept, ExitCode, Written
<1>2. CASE Report
  <2>1. at' = "over" /\ turns' = turns /\ notes' = notes /\ exported' \in Written
        /\ code' = ExitCode(ending', exported', notes)
    BY <1>2 DEF Report, core, Annotated
  <2> QED BY <2>1 DEF CodeIsKept, ExitCode, Written
<1>3. CASE Hurry
  <2>1. at' = "over" /\ code' = "128+" /\ signals' > 0
    BY <1>3, <1>i DEF Hurry, CountTypes
  <2> QED BY <2>1 DEF CodeIsKept
<1>4. CASE at # "over" /\ at' # "over" /\ code' = code
  BY <1>4, <1>i DEF CodeIsKept
<1>5. ASSUME at # "over", ~Report, ~Hurry
      PROVE  at' # "over" /\ code' = code
  <2>1. CASE Ends
    <3>1. PICK how \in {"timeout", "signal"} : Ended(how, FALSE) /\ code' = code
      BY <2>1 DEF Ends, TimesOut, Interrupted
    <3> QED BY <3>1, EndedIs
  <2>2. CASE Start
    <3>1. code' = code /\ (Ended("cwd", FALSE) \/ at' = "initialize")
      BY <2>2 DEF Start
    <3> QED BY <3>1, EndedIs
  <2>3. CASE Return
    <3>1. code' = code
      BY <2>3 DEF Return
    <3>2. at' \in {"settle", "stop", "prompt", "session"}
      BY <2>3, <1>i, ReturnIs, EndedTypes DEF NextPrompt, Completes, Fails, Opens, Endings, Calls
    <3> QED BY <3>1, <3>2
  <2>4. CASE Settled \/ Stop \/ Disconnect
    BY <2>4 DEF Settled, Stop, Disconnect, report
  <2>5. CASE UNCHANGED <<at, report>>
    BY <2>5, <1>5 DEF report
  <2> QED BY <2>1, <2>2, <2>3, <2>4, <2>5, <1>5, RunMoves DEF Run
<1> QED BY <1>1, <1>2, <1>3, <1>4, <1>5

NeverAnswers ==
  agent = "never" => reply \in {"none", "lost"} /\ (status = "lost" => "SpawnFailed" \in why)
NeverIsBlamed ==
  agent = "never" /\ ending.how = "initialize" =>
    /\ ending.lost
    /\ at # "settle" => status = "lost" \/ hurried \/ signals > 0
    /\ at = "over" => hurried \/ signals > 0

LEMMA NeverAnswersKeeps ==
  ASSUME IInv, [Next]_vars
  PROVE  NeverAnswers'
<1>i. TypeOK /\ RunTypes /\ AgentTypes /\ AgentIsHeld /\ NeverAnswers
  BY PartsOfTypes DEF IInv, NeverIsSaid, NeverAnswers
<1> USE DEF NeverAnswers
<1>1. reply' \in {reply, "none", "lost"} \/ agent = "runs"
  BY TurnMoves DEF Return, Stop, Hurry, Responds, Respond, Reads, Answered, Breaks, SendFails, Observes
<1>2. CASE Start
  BY <1>2, <1>i DEF Start, AgentIsHeld
<1>3. CASE Stop \/ Disconnect \/ Hurry
  BY <1>3, <1>i DEF Stop, Disconnect, Hurry, Kills
<1>4. CASE Exits \/ Stopped
  BY <1>4, <1>i DEF Exits, Stopped
<1>5. CASE Observes
  BY <1>5, <1>i DEF Observes
<1>6. CASE UNCHANGED <<agent, status, why>>
  BY <1>6, <1>1, <1>i
<1> QED BY <1>2, <1>3, <1>4, <1>5, <1>6, AgentMoves

LEMMA NeverIsBlamedKeeps ==
  ASSUME IInv, [Next]_vars
  PROVE  NeverIsBlamed'
<1>i. /\ TypeOK /\ RunTypes /\ AgentTypes /\ CountTypes /\ AgentIsHeld /\ NeverAnswers /\ NeverIsBlamed
      /\ TurnsAreInOrder
  BY PartsOfTypes DEF IInv, NeverIsSaid, NeverAnswers, NeverIsBlamed
<1> USE DEF NeverIsBlamed
<1>1. CASE Ends
  <2>1. PICK how \in {"timeout", "signal"} : Ended(how, FALSE)
    BY <1>1 DEF Ends, TimesOut, Interrupted
  <2> QED BY <2>1, EndedIs
<1>2. CASE Start
  <2>1. Ended("cwd", FALSE) \/ ending' = ending
    BY <1>2 DEF Start
  <2>2. ending.how = "none" /\ (Ended("cwd", FALSE) => ending'.how = "cwd")
    BY <1>2, <1>i, EndedIs DEF Start, TurnsAreInOrder, Driving
  <2> QED BY <2>1, <2>2
<1>3. CASE Return
  <2>1. ending.how = "none" /\ agent' = agent /\ reply # "none"
    BY <1>3, <1>i, ReturnIs DEF TurnsAreInOrder, Driving
  <2>2. ending'.how # "initialize" \/ (Fails /\ ending'.lost = (reply = "lost") /\ at' = IF reply = "lost" THEN "settle" ELSE "stop")
    <3>1. CASE Fails
      <4>1. (reply = "lost") \in BOOLEAN /\ Ended(at, reply = "lost")
        BY <3>1 DEF Fails
      <4> QED BY <3>1, <4>1, EndedIs
    <3>2. CASE ~Fails
      <4>1. Ended("completed", FALSE) \/ ending' = ending
        BY <3>2, <1>3, <1>i, ReturnIs DEF NextPrompt, Completes, Opens
      <4>2. Ended("completed", FALSE) => ending'.how = "completed"
        BY EndedIs
      <4> QED BY <4>1, <4>2, <2>1
    <3> QED BY <3>1, <3>2
  <2> QED BY <2>1, <2>2, <1>i DEF NeverAnswers
<1>4. CASE Settled
  <2>1. /\ UNCHANGED <<agent, status, ending, signals>> /\ at = "settle" /\ at' = "stop"
        /\ hurried' = (hurried \/ Connected)
    BY <1>4 DEF Settled, report, core
  <2>2. agent = "never" => status \in {"connected", "lost"}
    BY <2>1, <1>i DEF AgentIsHeld, AgentTypes
  <2> QED BY <2>1, <2>2, <1>i DEF Connected
<1>5. CASE Stop
  <2>1. /\ UNCHANGED <<agent, ending, signals, hurried>> /\ at = "stop" /\ at' # "over"
        /\ status = "lost" => status' = "lost"
    BY <1>5 DEF Stop, report, Connected
  <2> QED BY <2>1, <1>i
<1>6. CASE Disconnect \/ Hurry
  BY <1>6, <1>i DEF Disconnect, Hurry, report, Kills, CountTypes
<1>7. CASE Report
  BY <1>7, <1>i DEF Report, core, NeverAnswers, RunTypes
<1>8. CASE UNCHANGED <<at, report>>
  <2>0. ~Interrupted /\ ~Hurry /\ ~Settled /\ ~Disconnect
    BY <1>8, EndedIs DEF Interrupted, Hurry, Settled, Disconnect, Driving, Calls
  <2>1. signals' = signals /\ hurried' = hurried /\ ending' = ending /\ at' = at
    BY <2>0, <1>8, CountsMove DEF report
  <2>2. agent' = "never" => agent = "never"
    BY <1>8, <1>i, AgentMoves DEF Start, Stop, Disconnect, Hurry, Exits, Observes, Stopped, Kills, Calls
  <2>3. status = "lost" => status' = "lost"
    BY <1>8, <1>i, AgentMoves DEF Start, Stop, Disconnect, Hurry, Exits, Observes, Stopped, Kills, Connected
  <2> QED BY <2>1, <2>2, <2>3, <1>i
<1> QED BY <1>1, <1>2, <1>3, <1>4, <1>5, <1>6, <1>7, <1>8, RunMoves DEF Run

(***************************************************************************)
(* The theorems.                                                           *)
(***************************************************************************)
LEMMA InitIInv == Init => IInv
<1> SUFFICES ASSUME Init PROVE IInv
  OBVIOUS
<1>1. TypeOK /\ ShapesAreRight
  <2>1. asks \in [Asks -> [kind : Kinds, stands : {"unmade", "waits", "answered", "over"}]]
    BY DEF Init, Kinds
  <2>2. turns \in Seq({"open"} \cup Replies) /\ Len(turns) = 0
    BY DEF Init
  <2>3. ending \in [how : Endings, lost : BOOLEAN]
    BY DEF Init, Endings
  <2>4. /\ prompts \in 0..MaxPrompts /\ Len(turns) <= prompts
        /\ policyCancels \in 0..MaxPrompts /\ policyCancels \in Nat /\ signals \in 0..MaxSignals
    BY <2>2, CliAssumption DEF Init
  <2> QED BY <2>1, <2>2, <2>3, <2>4 DEF Init, TypeOK, ShapesAreRight
<1>2. AgentIsHeld /\ CodeIsKept /\ NeverIsSaid
  BY DEF Init, AgentIsHeld, CodeIsKept, NeverIsSaid, Connected, Calls
<1>3. TurnsAreInOrder
  BY DEF Init, TurnsAreInOrder, Driving, Calls
<1>4. CancelsShow
  BY DEF Init, CancelsShow
<1> QED BY <1>1, <1>2, <1>3, <1>4 DEF IInv

LEMMA NextKeeps == IInv /\ [Next]_vars => IInv'
  BY TypesKeep, AgentKeeps, TurnsKeep, CancelsKeep, CodeKeeps, NeverAnswersKeeps, NeverIsBlamedKeeps
  DEF IInv, NeverIsSaid, NeverAnswers, NeverIsBlamed

LEMMA Inductive == Spec => []IInv
  BY InitIInv, NextKeeps, PTL DEF Spec

\* Whatever ended the run, and however it was hurried, no agent outlives it
\* (run.rs `stop`, and the guard on the signals around it).
THEOREM NobodyIsLeft == Spec => []NoAgentLeft
<1>1. IInv => NoAgentLeft
  BY DEF IInv, AgentIsHeld, NoAgentLeft, Calls
<1> QED BY <1>1, Inductive, PTL

\* The exit code, the summary and the report say what happened: 0 only after
\* every prompt was answered with end_turn, nothing was annotated, no turn was
\* cancelled for want of an option and the file is written; and an agent that
\* never started is told from one that did not answer (run.rs `exit_code`,
\* report.rs `outcome`).
THEOREM RightlyBlamed == Spec => []BlameIsRight
<1>1. ASSUME IInv PROVE ZeroMeansClean
  <2>1. SUFFICES ASSUME code = "0"
                 PROVE  /\ Len(turns) = prompts /\ \A k \in DOMAIN turns : turns[k] = "end_turn"
                        /\ ~notes /\ policyCancels = 0
                        /\ exported = IF Export THEN "yes" ELSE "no"
    BY DEF ZeroMeansClean
  <2>2. at = "over" /\ code = ExitCode(ending, exported, notes) /\ exported \in Written
    BY <2>1, <1>1 DEF IInv, CodeIsKept
  <2>3. /\ ending.how = "completed" /\ exported # "failed" /\ ~notes
        /\ \A k \in DOMAIN turns : turns[k] = "end_turn"
    BY <2>1, <2>2 DEF ExitCode
  <2>4. exported = IF Export THEN "yes" ELSE "no"
    BY <2>2, <2>3 DEF Written
  <2>5. Len(turns) = prompts /\ turn # "cancelling"
    BY <2>3, <1>1 DEF IInv, TurnsAreInOrder
  <2>6. ~(policyCancels > 0) /\ policyCancels \in Nat
    BY <2>2, <2>3, <2>5, <1>1 DEF IInv, CancelsShow, ShapesAreRight
  <2> QED BY <2>3, <2>4, <2>5, <2>6
<1>2. ASSUME IInv PROVE SummaryAgrees
  <2>1. SUFFICES ASSUME at = "over", signals > 0 => ending.how = "signal"
                 PROVE  /\ Outcome = Word(code)
                        /\ \A k \in DOMAIN turns : Told(k) = "did not end" =>
                             k = Len(turns) /\ ending.how \in {"timeout", "signal"}
    BY DEF SummaryAgrees
  <2>2. code = ExitCode(ending, exported, notes)
    BY <2>1, <1>2 DEF IInv, CodeIsKept, ExitCode
  <2>3. \/ code = "128+" /\ Outcome = "interrupted"
        \/ code = "3" /\ Outcome = "timeout"
        \/ code = "1" /\ Outcome = "failed"
        \/ code = "2" /\ Outcome = "conformance"
        \/ code = "4" /\ Outcome = "stopped"
        \/ code = "0" /\ Outcome = "ok"
    <3>1. CASE ending.how \in {"signal", "timeout"}
      BY <2>2, <3>1 DEF Outcome, ExitCode
    <3>2. CASE ending.how \notin {"signal", "timeout"} /\ (ending.how # "completed" \/ exported = "failed")
      BY <2>2, <3>2 DEF Outcome, ExitCode
    <3>3. CASE ending.how = "completed" /\ exported # "failed" /\ notes
      BY <2>2, <3>3 DEF Outcome, ExitCode
    <3>4. CASE ending.how = "completed" /\ exported # "failed" /\ ~notes
      BY <2>2, <3>4 DEF Outcome, ExitCode
    <3> QED BY <3>1, <3>2, <3>3, <3>4
  <2>4. Outcome = Word(code)
    BY <2>3 DEF Word
  <2>5. ASSUME NEW k \in DOMAIN turns, Told(k) = "did not end"
        PROVE  k = Len(turns) /\ ending.how \in {"timeout", "signal"}
    <3>1. turns[k] = "open"
      BY <2>5 DEF Told, Stops
    <3> QED BY <3>1, <2>1, <1>2 DEF IInv, TurnsAreInOrder
  <2> QED BY <2>4, <2>5
<1>3. ASSUME IInv PROVE SpawnIsBlamed
  BY <1>3 DEF IInv, NeverIsSaid, SpawnIsBlamed
<1>4. IInv => BlameIsRight
  BY <1>1, <1>2, <1>3 DEF IInv, BlameIsRight, ReportIsTrue
<1> QED BY <1>4, Inductive, PTL
=============================================================================
