-------------------------------- MODULE Wire --------------------------------
(***************************************************************************)
(* What the Console needs of the connection beyond the frames (wire.rs,    *)
(* raw.rs, console.rs `ClearTrace`): the calls waiting, as the window last *)
(* read them, giving one up, sending a frame by hand, and the trace's      *)
(* Clear, confirmed within six seconds.                                    *)
(***************************************************************************)
EXTENDS Naturals, Sequences, FiniteSets

CONSTANTS
  MaxConnections,  \* bound: agents launched
  MaxCalls,        \* bound: calls made on all of them
  MaxPresses       \* bound: what the reader presses

Drafts == [method : {"", "m"}, params : {"none", "object", "scalar", "broken"},
           notification : BOOLEAN]
Blank == [method |-> "", params |-> "none", notification |-> FALSE]
NoNote == [of |-> "none"]

VARIABLES
  connected, connection, viewing,
  nextId, waiting,       \* core: the call ids of this connection, and those unanswered
  frames, dropped,       \* the trace: what crossed since the last Clear, and before it
  dispatching,           \* answers recorded that the reader has not handed on yet
  due,                   \* Wire: the trace or the status moved and was not read since
  pending,               \* Wire.pending, the calls as last read
  draft, composing,
  sending, sent,         \* Wire::send: a draft on its way, and what became of the last
  asked, cancelling, cancelled,  \* Wire::cancel, and the calls asked to end
  armed, arming, timers, ended,     \* ClearTrace
  presses                \* bound

core == <<connected, connection, nextId, waiting, dispatching>>
trace == <<frames, dropped>>
sendState == <<draft, composing, sending, sent>>
cancelState == <<asked, cancelling, cancelled>>
clearing == <<armed, arming, timers, ended>>
vars == <<core, viewing, trace, due, pending, sendState, cancelState, clearing, presses>>

Call(id, ordinal) == [id |-> id, connection |-> connection, captured |-> ordinal]
Captured == dropped + Len(frames)

TypeOK ==
  /\ connected \in BOOLEAN /\ viewing \in BOOLEAN /\ due \in BOOLEAN /\ composing \in BOOLEAN
  /\ connection \in 0..MaxConnections /\ nextId \in 0..MaxCalls
  /\ draft \in Drafts /\ sending \subseteq Drafts
  /\ \A call \in waiting \cup pending : call.id \in 1..MaxCalls
  /\ armed \in BOOLEAN /\ timers \subseteq 1..arming /\ ended \subseteq 1..arming

Init ==
  /\ connected = FALSE /\ connection = 0 /\ viewing = FALSE
  /\ nextId = 0 /\ waiting = {} /\ dispatching = {}
  /\ frames = <<>> /\ dropped = 0
  /\ due = FALSE /\ pending = {}
  /\ draft = Blank /\ composing = FALSE /\ sending = {} /\ sent = NoNote
  /\ asked = {} /\ cancelling = {} /\ cancelled = NoNote
  /\ armed = FALSE /\ arming = 0 /\ timers = {} /\ ended = {}
  /\ presses = 0

-----------------------------------------------------------------------------
Live == connected /\ ~viewing
Presses == presses < MaxPresses /\ presses' = presses + 1

\* A status is one more reason to read the calls again.
Connect ==
  /\ ~connected /\ connection < MaxConnections
  /\ connected' = TRUE /\ connection' = connection + 1
  /\ nextId' = 0 /\ waiting' = {} /\ dispatching' = {}
  /\ due' = TRUE
  /\ UNCHANGED <<viewing, trace, pending, sendState, cancelState, clearing, presses>>

Lose ==
  /\ connected /\ connected' = FALSE
  /\ waiting' = {} /\ dispatching' = {} /\ due' = TRUE
  /\ UNCHANGED <<connection, nextId, viewing, trace, pending, sendState, cancelState,
                 clearing, presses>>

Records(f) == frames' = Append(frames, f) /\ UNCHANGED dropped

\* The typed layer makes a call: it is waiting, and its frame captured.
MakesCall(hand) ==
  /\ nextId < MaxCalls
  /\ nextId' = nextId + 1
  /\ waiting' = waiting \cup {Call(nextId + 1, Captured)}
  /\ Records([connection |-> connection, id |-> nextId + 1, hand |-> hand, kind |-> "call"])
  /\ due' = TRUE

Calls ==
  /\ connected /\ Captured < 2 * MaxCalls
  /\ MakesCall(FALSE)
  /\ UNCHANGED <<connected, connection, dispatching, viewing, pending, sendState, cancelState,
                 clearing, presses>>

\* The reader records an answer before it hands it on.
AnswerCrosses ==
  \E call \in waiting :
    /\ connected /\ Captured < 2 * MaxCalls /\ call \notin dispatching
    /\ dispatching' = dispatching \cup {call}
    /\ Records([connection |-> connection, id |-> call.id, hand |-> FALSE, kind |-> "result"])
    /\ due' = TRUE
    /\ UNCHANGED <<connected, connection, nextId, waiting, viewing, pending, sendState,
                   cancelState, clearing, presses>>

Dispatch ==
  \E call \in dispatching :
    /\ dispatching' = dispatching \ {call} /\ waiting' = waiting \ {call}
    /\ UNCHANGED <<connected, connection, nextId, viewing, trace, due, pending, sendState,
                   cancelState, clearing, presses>>

\* Fifty milliseconds after the trace moved, which is after the reader handed
\* on what it recorded; and whenever the status changed.
Refresh ==
  /\ due /\ dispatching = {}
  /\ due' = FALSE /\ pending' = waiting
  /\ UNCHANGED <<core, viewing, trace, sendState, cancelState, clearing, presses>>

\* A file is opened in place of the live trace, or closed.
View ==
  /\ Presses /\ viewing' = ~viewing
  /\ UNCHANGED <<core, trace, due, pending, sendState, cancelState, clearing>>

(***************************************************************************)
(* raw.rs: the composer.                                                   *)
(***************************************************************************)
\* `validate`: a method, and params that are JSON where there are any.
Ready(d) == d.method # "" /\ d.params # "broken"
Cautioned(d) == Ready(d) /\ d.params = "scalar"

Edit ==
  /\ Presses /\ composing /\ ~viewing
  /\ \E d \in Drafts : d # draft /\ draft' = d
  /\ UNCHANGED <<core, viewing, trace, due, pending, composing, sending, sent, cancelState,
                 clearing>>

Compose ==
  /\ Presses /\ ~viewing
  /\ composing' = ~composing
  /\ UNCHANGED <<core, viewing, trace, due, pending, draft, sending, sent, cancelState, clearing>>

\* "Edit and resend", of a frame this client sent.
Resend ==
  /\ Presses /\ ~viewing
  /\ \E i \in DOMAIN frames : frames[i].kind = "call"
  /\ draft' = [method |-> "m", params |-> "object", notification |-> FALSE]
  /\ sent' = NoNote /\ composing' = TRUE
  /\ UNCHANGED <<core, viewing, trace, due, pending, sending, cancelState, clearing>>

Submit ==
  /\ Presses /\ composing /\ Live /\ Ready(draft)
  /\ sending' = sending \cup {draft} /\ sent' = NoNote
  /\ UNCHANGED <<core, viewing, trace, due, pending, draft, composing, cancelState, clearing>>

\* The send's own task: what it says is of the connection it met.
Sends ==
  \E d \in sending :
    /\ sending' = sending \ {d}
    /\ \/ /\ connected /\ ~d.notification /\ Captured < 2 * MaxCalls
          /\ MakesCall(TRUE)
          /\ sent' = [of |-> "request", draft |-> d, id |-> nextId + 1,
                      connection |-> connection, captured |-> Captured]
       \/ /\ connected /\ d.notification /\ Captured < 2 * MaxCalls
          /\ Records([connection |-> connection, id |-> 0, hand |-> TRUE,
                      kind |-> "notification"])
          /\ sent' = [of |-> "notification", draft |-> d, captured |-> Captured]
          /\ due' = TRUE /\ UNCHANGED <<nextId, waiting>>
       \/ /\ ~connected
          /\ sent' = [of |-> "failure", draft |-> d]
          /\ UNCHANGED <<nextId, waiting, trace, due>>
    /\ UNCHANGED <<connected, connection, dispatching, viewing, pending, draft, composing,
                   cancelState, clearing, presses>>

\* Frame `ordinal` of the trace, where it is still held.
Held(ordinal) == ordinal >= dropped /\ ordinal < Captured

\* What the composer says of the last send: the answer paired with it.
Answered ==
  /\ sent.of = "request"
  /\ \E i \in DOMAIN frames :
       /\ frames[i].kind = "result"
       /\ frames[i].connection = sent.connection /\ frames[i].id = sent.id

(***************************************************************************)
(* wire.rs: giving a call up.                                              *)
(***************************************************************************)
WaitingCalls == IF viewing THEN {} ELSE pending

CancelPress ==
  /\ Presses /\ Live
  /\ \E call \in WaitingCalls : cancelling' = cancelling \cup {call.id}
  /\ cancelled' = NoNote
  /\ UNCHANGED <<core, viewing, trace, due, pending, sendState, asked, clearing>>

\* Core asks only of a call that still waits on this connection.
CancelDone ==
  \E id \in cancelling :
    LET calls == {call \in waiting : call.id = id}
    IN /\ cancelling' = cancelling \ {id}
       /\ asked' = asked \cup calls
       /\ cancelled' = [of |-> IF calls # {} THEN "sent" ELSE "failed", id |-> id]
       /\ UNCHANGED <<core, viewing, trace, due, pending, sendState, clearing, presses>>

\* The note drawn: said while the call waits, or where cancelling failed.
CancelNote ==
  /\ cancelled.of # "none" /\ ~viewing
  /\ cancelled.of = "failed" \/ \E call \in WaitingCalls : call.id = cancelled.id

(***************************************************************************)
(* console.rs: Clear, in two presses.                                      *)
(***************************************************************************)
ClearPress ==
  /\ Presses /\ frames # <<>> /\ ~viewing
  /\ IF armed
     THEN /\ armed' = FALSE /\ ended' = ended \cup {arming}
          /\ dropped' = Captured /\ frames' = <<>> /\ due' = TRUE
          /\ UNCHANGED <<arming, timers>>
     ELSE /\ armed' = TRUE /\ arming' = arming + 1 /\ timers' = timers \cup {arming + 1}
          /\ UNCHANGED <<ended, trace, due>>
  /\ UNCHANGED <<core, viewing, pending, sendState, cancelState>>

\* "Cancel" or Escape.
Keep ==
  /\ Presses /\ armed /\ armed' = FALSE /\ ended' = ended \cup {arming}
  /\ UNCHANGED <<core, viewing, trace, due, pending, sendState, cancelState, arming, timers>>

Timer ==
  \E t \in timers :
    /\ timers' = timers \ {t}
    /\ armed' = (armed /\ t # arming)
    /\ UNCHANGED <<core, viewing, trace, due, pending, sendState, cancelState, arming,
                   ended, presses>>

Next ==
  \/ Connect \/ Lose \/ Calls \/ AnswerCrosses \/ Dispatch \/ Refresh \/ View
  \/ Edit \/ Compose \/ Resend \/ Submit \/ Sends
  \/ CancelPress \/ CancelDone
  \/ ClearPress \/ Keep \/ Timer

Spec == Init /\ [][Next]_vars

-----------------------------------------------------------------------------
(* The window never settles on calls that are over: where what it last     *)
(* read differs from what core waits on, a reading is due or the reader    *)
(* has yet to hand an answer on.                                           *)
PendingIsCurrent == pending # waiting => due

(* A frame sent by hand was one the composer could send, and its result    *)
(* names the frame: the trace holds it there, marked, unless it was cleared*)
(* since.                                                                  *)
HandSentIsHonest ==
  /\ sent.of # "none" => Ready(sent.draft)
  /\ sent.of \in {"request", "notification"} /\ Held(sent.captured) =>
       LET f == frames[sent.captured - dropped + 1]
       IN f.hand /\ f.kind = (IF sent.of = "request" THEN "call" ELSE "notification")

(* An armed Clear has its own six seconds: it is armed as long as its      *)
(* timer runs and the reader did not end it, whatever earlier timers do.   *)
ArmedClearHasItsTime == armed <=> arming \in timers \ ended

WireIsSafe == TypeOK /\ PendingIsCurrent /\ HandSentIsHonest /\ ArmedClearHasItsTime

(* "Sent $/cancel_request" is said of a call that was asked to end         *)
(* (trace.rs:427-428).                                                     *)
CancelSaidOfItsCall ==
  CancelNote /\ cancelled.of = "sent" =>
    \E call \in WaitingCalls : call.id = cancelled.id /\ call \in asked
=============================================================================
