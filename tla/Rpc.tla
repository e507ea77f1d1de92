--------------------------------- MODULE Rpc ---------------------------------
(***************************************************************************)
(* The client's half of a JSON-RPC conversation (crates/core/src/rpc.rs):  *)
(* ids out, answers back.  Concurrent callers register a call, queue its   *)
(* frame and wait; the reader hands answers to them; the teardown closes   *)
(* the conversation.  Each lock of `Calls` and each hand-over to the       *)
(* outgoing queue is one step, so all the interleavings between them are   *)
(* here.  A frame is the id it carries, 0 for a notification or a reply.   *)
(***************************************************************************)
EXTENDS Naturals, Sequences

CONSTANTS
  Callers,       \* the tasks that make calls
  MaxId,         \* bound: how many ids the conversation hands out
  Capacity,      \* FRAME_CAPACITY of the outgoing queue
  MaxAnswers     \* bound: answers on their way at one time

ASSUME RpcAssumption ==
  /\ MaxId \in Nat
  /\ Capacity \in Nat \ {0}
  /\ MaxAnswers \in Nat

Ids == 1..MaxId

\* `send`, `enqueue` then `wait` (a prompt), and `send_unawaited` (by hand).
Styles == {"call", "prompt", "hand"}

VARIABLES
  nextId, pending, closed,       \* struct Calls
  handSent, captured,            \* the pending calls so marked
  orphans,                       \* ids whose caller stopped waiting
  answer,                        \* id -> the oneshot between reader and caller
  pc, style, own, outcome,       \* each caller: where it is, its call, its end
  outgoing, taking,              \* the frame queue; whether its receiver lives
  shutdown,                      \* the transport's shutdown token
  incoming                       \* answers on their way

calls == <<nextId, pending, closed, handSent, captured, answer>>
callers == <<pc, style, own, outcome, orphans>>
queue == <<outgoing, taking>>
vars == <<calls, callers, queue, shutdown, incoming>>

\* An answer on its way, `cut` when the transport kept only its start.
Replies == [id : Ids, cut : BOOLEAN]
Answers == {"unused", "empty", "answered", "failed", "dropped"}
Outcomes == {"none", "answered", "failed", "disconnected", "busy", "tooLarge",
             "sent", "abandoned"}

TypeOK ==
  /\ nextId \in 0..MaxId
  /\ pending \subseteq Ids /\ handSent \subseteq Ids /\ captured \subseteq Ids
  /\ closed \in BOOLEAN /\ taking \in BOOLEAN /\ shutdown \in BOOLEAN
  /\ answer \in [Ids -> Answers]
  /\ pc \in [Callers -> {"idle", "prepared", "queued", "waiting"}]
  /\ style \in [Callers -> Styles]
  /\ own \in [Callers -> 0..MaxId]
  /\ outcome \in [Callers -> Outcomes]
  /\ outgoing \in Seq(0..MaxId) /\ Len(outgoing) <= Capacity
  /\ incoming \in Seq(Replies)
  /\ orphans \subseteq Ids

Init ==
  /\ nextId = 0 /\ pending = {} /\ closed = FALSE
  /\ handSent = {} /\ captured = {}
  /\ answer = [i \in Ids |-> "unused"]
  /\ pc = [c \in Callers |-> "idle"]
  /\ style = [c \in Callers |-> "call"]
  /\ own = [c \in Callers |-> 0]
  /\ outcome = [c \in Callers |-> "none"]
  /\ outgoing = <<>> /\ taking = TRUE
  /\ shutdown = FALSE
  /\ incoming = <<>> /\ orphans = {}

(***************************************************************************)
(* The table of pending calls.  The definitions named "...Variant" are     *)
(* plausible slips of the one after them; no specification uses them.      *)
(***************************************************************************)
\* Takes entries out of the table; `how` is what their oneshots are left with.
RemoveVariant(ids, how) ==
  /\ answer' = [i \in Ids |-> IF i \in ids \cap pending THEN how ELSE answer[i]]
  /\ UNCHANGED <<pending, handSent, captured>>
CapturedOnlyVariant(ids, how) ==
  /\ pending' = pending \ ids
  /\ handSent' = handSent \ ids
  /\ captured' = captured \ ids
  /\ answer' = [i \in Ids |-> IF i \in ids \cap captured THEN how ELSE answer[i]]
Remove(ids, how) ==
  /\ pending' = pending \ ids
  /\ handSent' = handSent \ ids
  /\ captured' = captured \ ids
  /\ answer' = [i \in Ids |-> IF i \in ids \cap pending THEN how ELSE answer[i]]

Finish(c, how) ==
  /\ pc' = [pc EXCEPT ![c] = "idle"]
  /\ own' = [own EXCEPT ![c] = 0]
  /\ style' = [style EXCEPT ![c] = "call"]
  /\ outcome' = [outcome EXCEPT ![c] = how]

(***************************************************************************)
(* Making a call.                                                          *)
(***************************************************************************)
\* A call registered after the end would wait for an answer nobody gives.
Admits == ~closed

\* The id handed out is recorded as handed out.
Spend(id) == nextId' = id

\* `prepare_bounded` and `prepare_by_hand`: the id and the place for its answer
\* under one lock, before the frame can go out.
Prepare(c, s) ==
  LET id == nextId + 1 IN
  /\ pc[c] = "idle" /\ Admits /\ id \in Ids
  /\ Spend(id)
  /\ pending' = pending \cup {id}
  /\ handSent' = IF s = "hand" THEN handSent \cup {id} ELSE handSent
  /\ answer' = [answer EXCEPT ![id] = "empty"]
  /\ pc' = [pc EXCEPT ![c] = "prepared"]
  /\ style' = [style EXCEPT ![c] = s]
  /\ own' = [own EXCEPT ![c] = id]
  /\ outcome' = [outcome EXCEPT ![c] = "none"]
  /\ UNCHANGED <<closed, captured, orphans, queue, shutdown, incoming>>

\* Refused before an id is spent: a closed conversation, a prompt too large.
Refuse(c) ==
  /\ pc[c] = "idle"
  /\ outcome' = [outcome EXCEPT ![c] =
                   IF closed THEN "disconnected" ELSE "tooLarge"]
  /\ UNCHANGED <<calls, pc, style, own, orphans, queue, shutdown, incoming>>

HasRoom == Len(outgoing) < Capacity

\* The frame reaches the transport's queue: `send_captured` once there is
\* room, `try_send` at once.
Queue(c) ==
  /\ pc[c] = "prepared" /\ taking /\ HasRoom
  /\ outgoing' = Append(outgoing, own[c])
  /\ pc' = [pc EXCEPT ![c] = "queued"]
  /\ UNCHANGED <<calls, style, own, outcome, orphans, taking, shutdown, incoming>>

Forget(id) == Remove({id}, "dropped")

\* The send failed: the call is forgotten, and its caller told why.
Unsent(c, how) ==
  /\ Forget(own[c])
  /\ Finish(c, how)
  /\ UNCHANGED <<nextId, closed, orphans, queue, shutdown, incoming>>

Busy(c) ==
  /\ pc[c] = "prepared" /\ style[c] = "prompt" /\ taking /\ ~HasRoom
  /\ Unsent(c, "busy")

SendFails(c) ==
  /\ pc[c] = "prepared" /\ ~taking
  /\ Unsent(c, "disconnected")

\* `captured`: where the trace put the frame, unless the answer came first.
MarkVariant(id) == captured' = captured \cup {id}
Mark(id) == captured' = captured \cup ({id} \cap pending)

Captured(c) ==
  /\ pc[c] = "queued"
  /\ Mark(own[c])
  /\ IF style[c] = "hand"
     THEN Finish(c, "sent")
     ELSE /\ pc' = [pc EXCEPT ![c] = "waiting"]
          /\ UNCHANGED <<style, own, outcome>>
  /\ UNCHANGED <<nextId, pending, closed, handSent, answer, orphans, queue, shutdown, incoming>>

\* The oneshot resolves; a dropped sender is the connection going away.
Receive(c) ==
  /\ pc[c] = "waiting" /\ answer[own[c]] # "empty"
  /\ Finish(c, IF answer[own[c]] = "dropped" THEN "disconnected" ELSE answer[own[c]])
  /\ UNCHANGED <<calls, orphans, queue, shutdown, incoming>>

\* The future is dropped while it awaits room or the answer.  The entry stays.
Abandon(c) ==
  /\ \/ pc[c] = "prepared" /\ style[c] # "prompt" /\ taking /\ ~HasRoom
     \/ pc[c] = "waiting"
  /\ Finish(c, "abandoned")
  /\ orphans' = orphans \cup {own[c]}
  /\ UNCHANGED <<calls, queue, shutdown, incoming>>

(***************************************************************************)
(* The reader, and the teardown.                                           *)
(***************************************************************************)
\* `answer`, and `fail` for an answer the transport cut for its length.  False
\* -- nothing changes -- when no call waits under the id.
Deliver ==
  /\ incoming # <<>>
  /\ incoming' = Tail(incoming)
  /\ LET m == Head(incoming)
     IN  Remove({m.id}, IF m.cut THEN "failed" ELSE "answered")
  /\ UNCHANGED <<nextId, closed, callers, queue, shutdown>>

\* `close`: the transport is told first, so no caller is left blocked on it.
CloseTransport ==
  /\ ~shutdown
  /\ shutdown' = TRUE
  /\ UNCHANGED <<calls, callers, queue, incoming>>

\* Then every call still waiting is let go, and no other admitted.
LettingGoVariant == handSent
LettingGo == pending

CloseCalls ==
  /\ shutdown /\ ~closed
  /\ closed' = TRUE
  /\ Remove(LettingGo, "dropped")
  /\ UNCHANGED <<nextId, callers, queue, shutdown, incoming>>

(***************************************************************************)
(* The surroundings: notifications and replies sharing the queue, the      *)
(* transport at its other end, and an agent that may answer anything.      *)
(***************************************************************************)
Notify ==
  /\ taking /\ HasRoom
  /\ outgoing' = Append(outgoing, 0)
  /\ UNCHANGED <<calls, callers, taking, shutdown, incoming>>

Take ==
  /\ outgoing # <<>>
  /\ outgoing' = Tail(outgoing)
  /\ UNCHANGED <<calls, callers, taking, shutdown, incoming>>

\* The receiver closes and drains, or is dropped with what it held.
StopTaking ==
  /\ taking
  /\ taking' = FALSE
  /\ outgoing' \in {outgoing, <<>>}
  /\ UNCHANGED <<calls, callers, shutdown, incoming>>

AgentAnswers ==
  /\ Len(incoming) < MaxAnswers
  /\ \E m \in Replies : incoming' = Append(incoming, m)
  /\ UNCHANGED <<calls, callers, queue, shutdown>>

Next ==
  \/ \E c \in Callers :
       \/ \E s \in Styles : Prepare(c, s)
       \/ Refuse(c) \/ Queue(c) \/ Busy(c) \/ SendFails(c)
       \/ Captured(c) \/ Receive(c) \/ Abandon(c)
  \/ Deliver \/ CloseTransport \/ CloseCalls
  \/ Notify \/ Take \/ StopTaking \/ AgentAnswers

Spec == Init /\ [][Next]_vars

\* A caller runs while it can; a teardown begun is finished (its two steps are
\* one synchronous function); a transport told to shut down stops taking.
Fairness ==
  /\ \A c \in Callers : WF_vars(Queue(c) \/ SendFails(c) \/ Captured(c) \/ Receive(c))
  /\ WF_vars(CloseCalls)
  /\ WF_vars(shutdown /\ StopTaking)

FairSpec == Spec /\ Fairness

(***************************************************************************)
(* Properties.                                                             *)
(***************************************************************************)
\* No lost wake-up: whoever waits on a silent oneshot is still in the table,
\* where the answer or the teardown will find it.
WaitersAreRegistered ==
  \A c \in Callers :
    pc[c] \in {"prepared", "queued", "waiting"} /\ answer[own[c]] = "empty"
      => own[c] \in pending

\* Once the conversation is closed no call is pending, whatever raced it.
ClosedHoldsNothing == closed => pending = {}

\* Two callers never wait under the same id, so no answer goes astray.
OwnIdsDiffer ==
  \A c, d \in Callers :
    c # d /\ pc[c] # "idle" /\ pc[d] # "idle" => own[c] # own[d]

\* What is remembered about a call goes when the call does: a late `captured`
\* cannot bring one back.
MarksAreOfPending == captured \subseteq pending /\ handSent \subseteq pending

\* The list of pending calls is honest: what it shows has a caller in progress,
\* was sent by hand, or lost its caller while waiting.
PendingIsOwned ==
  \A i \in pending :
    i \in handSent \cup orphans \/ \E c \in Callers : pc[c] # "idle" /\ own[c] = i

\* The table tells the truth about the calls, in every way at once: what it
\* holds is somebody's, under an id of its own, and nothing of a call that is
\* over, or of a conversation that is (rpc.rs `Call`, `close`).
TableIsHonest ==
  TypeOK /\ ClosedHoldsNothing /\ OwnIdsDiffer /\ MarksAreOfPending /\ PendingIsOwned

\* Nothing hangs on a closed conversation: every call in progress comes back.
NothingHangs == \A c \in Callers : closed /\ pc[c] # "idle" ~> pc[c] = "idle"

(***************************************************************************)
(* The contract this implements.                                           *)
(***************************************************************************)
Status == [i \in Ids |->
             IF i > nextId THEN "unused"
             ELSE IF i \in pending THEN "open"
             ELSE answer[i]]

Abstract == INSTANCE CallContract WITH call <- Status, over <- closed

KeepsContract == Abstract!Contract
=============================================================================
