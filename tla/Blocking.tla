------------------------------ MODULE Blocking ------------------------------
(***************************************************************************)
(* The requests the agent blocks on: permissions, elicitations and client  *)
(* services (crates/core/src/blocking.rs, permission.rs, elicitation.rs,   *)
(* service.rs and client/requests.rs, with the parts of client/turn.rs,    *)
(* lifecycle.rs and inbound.rs that answer or abandon them).               *)
(*                                                                         *)
(* A request is answered by a user, by a policy or a script, by a cancel or *)
(* a switch of sessions, or by the error that acknowledges its withdrawal; *)
(* whoever comes first claims it under its lock, sends, and settles it.    *)
(* Each task runs on a thread of its own; what one lock covers is one step.*)
(* The reader works under the connection's lock and gives it up only while *)
(* it awaits room in the outgoing queue, which is when the connection can  *)
(* be let go and the reader with what it was doing.                        *)
(***************************************************************************)
EXTENDS Naturals, Sequences, FiniteSets

CONSTANTS
  MaxRequests,   \* bound: requests the agent makes on the connection
  MaxCancels,    \* bound: cancels and departures
  Capacity,      \* PENDING_CAPACITY
  Clickers,      \* tasks that answer a request for a user
  Leavers,       \* tasks that cancel a turn or leave a session
  Reader,        \* the task that reads the connection, and tears it down
  Urls,          \* the ids of URL elicitations
  Asks           \* what the agent may ask, request by request: the kind, the
                 \* scope, whether a policy or a script answers it, and the id
                 \* of a URL elicitation (a set of at most one)

Requests == 1..MaxRequests
KindNames == {"permission", "elicitation", "service"}
Kinds == <<"permission", "elicitation", "service">>
Users == Clickers \cup Leavers

ASSUME BlockingAssumption ==
  /\ {MaxRequests, MaxCancels, Capacity} \subseteq Nat
  /\ Reader \notin Users
  /\ Asks \subseteq [Requests -> [kind : KindNames,
                                 scope : {"session", "call"},
                                 picked : BOOLEAN,
                                 url : SUBSET Urls]]

\* Permissions belong to a session, only permissions have a policy and only
\* services a script, and only elicitations have a URL.
ASSUME AsksAssumption ==
  \A a \in Asks, r \in Requests :
    /\ a[r].kind = "permission" => a[r].scope = "session"
    /\ a[r].kind = "elicitation" => ~a[r].picked
    /\ a[r].url # {} => a[r].kind = "elicitation"

VARIABLES
  asked,         \* request -> its shape
  arrived,       \* how many the agent made so far
  state,         \* request -> where it stands
  listed,        \* requests in the three lists of pending ones
  shown,         \* requests on the timeline, where a user can answer them
  credited,      \* permissions marked as answered by the policy
  urls,          \* URL elicitations outstanding
  completed,     \* URL elicitations the agent said are finished
  reused,        \* <<first, later>>: a later one reused an outstanding id
  told,          \* request -> the answers sent
  dropped,       \* the request the reader was answering when it was let go
  task,          \* what each task is doing
  cancels,       \* how many cancels and departures have begun
  closed,        \* the connection was let go
  taking         \* the transport still takes frames

requests == <<asked, arrived, state, told>>
lists == <<listed, shown, credited>>
elicited == <<urls, completed, reused>>
ends == <<dropped, cancels, closed, taking>>
vars == <<requests, lists, elicited, ends, task>>

Tasks == Users \cup {Reader}

\* What a request is answered with; "picked" by the policy, "scripted" by the
\* rules file, "cancelled" by a cancel or a switch.
Answers == {"accepted", "declined", "picked", "scripted", "cancelled",
            "withdrawn", "refused"}
Purposes == Answers \cup {"abandoned", "none"}
Standings == {"none", "waiting", "answering", "accepted", "declined",
              "cancelled", "withdrawn", "abandoned", "refused"}
Places == {"idle", "count", "register", "list", "show", "credit", "claim", "send",
           "settle", "fail", "uncredit", "take", "abandon", "clear", "gone"}

Work == [at : Places, for : 0..MaxRequests, as : Purposes,
         left : Seq(KindNames), taken : SUBSET Requests, all : BOOLEAN, count : Nat]

TypeOK ==
  /\ asked \in Asks /\ arrived \in 0..MaxRequests
  /\ state \in [Requests -> Standings]
  /\ told \in [Requests -> Seq(Answers)]
  /\ listed \subseteq Requests /\ shown \subseteq Requests /\ credited \subseteq Requests
  /\ urls \subseteq Requests /\ completed \subseteq Requests
  /\ reused \subseteq Requests \X Requests
  /\ dropped \in 0..MaxRequests /\ cancels \in 0..MaxCancels
  /\ closed \in BOOLEAN /\ taking \in BOOLEAN
  /\ task \in [Tasks -> Work]

\* A task sets out: where, to what purpose, over which lists, with what taken.
Begin(at, as, left, taken, all) ==
  [at |-> at, for |-> 0, as |-> as, left |-> left, taken |-> taken, all |-> all, count |-> 0]
Idle == Begin("idle", "none", <<>>, {}, FALSE)

Init ==
  /\ asked \in Asks /\ arrived = 0
  /\ state = [r \in Requests |-> "none"]
  /\ told = [r \in Requests |-> <<>>]
  /\ listed = {} /\ shown = {} /\ credited = {}
  /\ urls = {} /\ completed = {} /\ reused = {}
  /\ dropped = 0 /\ cancels = 0 /\ closed = FALSE /\ taking = TRUE
  /\ task = [t \in Tasks |-> Idle]

(***************************************************************************)
(* A task's next step.                                                     *)
(***************************************************************************)
Works(t, w) == task' = [task EXCEPT ![t] = w]
Goes(t, at) == Works(t, [task[t] EXCEPT !.at = at])

\* A task is done with one request: on to the next it took, to the next list,
\* or to rest.
Onward(w) ==
  LET at(place) == [[w EXCEPT !.for = 0] EXCEPT !.at = place]
  IN  IF w.taken # {} THEN at(IF w.as = "abandoned" THEN "abandon" ELSE "claim")
      ELSE IF w.left # <<>> THEN at("take")
      ELSE IF w.as = "abandoned" /\ w.all THEN at("clear")
      ELSE Idle

\* One of the requests it took, in the order they arrived.
Picks(w, r) == [[w EXCEPT !.for = r] EXCEPT !.taken = @ \ {r}]
Earliest(r, S) == r \in S /\ \A s \in S : r <= s
Waiting(r) == state[r] = "waiting"
Of(kind) == {r \in 1..arrived : asked[r].kind = kind}

(***************************************************************************)
(* A request arrives (`receive_classified`, `permission_requested`,        *)
(* `elicitation_requested`, `service`).  What a script answers is not      *)
(* counted against the capacity.                                           *)
(***************************************************************************)
Arrives ==
  /\ task[Reader].at = "idle" /\ arrived < MaxRequests
  /\ arrived' = arrived + 1
  /\ LET r == arrived + 1
         scripted == asked[r].picked /\ asked[r].kind = "service"
     IN  /\ state' = IF scripted THEN [state EXCEPT ![r] = "waiting"] ELSE state
         /\ Works(Reader,
              [(IF scripted THEN Begin("show", "none", <<>>, {}, FALSE)
                ELSE Begin("count", "none", Kinds, {}, FALSE)) EXCEPT !.for = r])
  /\ UNCHANGED <<asked, told, lists, elicited, ends>>

\* `waiting`: a list is pruned of what no longer waits, and counted.
Pruned(kind) == listed \ {r \in Of(kind) : ~Waiting(r)}

Count ==
  LET w == task[Reader]
      kind == Head(w.left)
  IN  /\ w.at = "count" /\ w.left # <<>>
      /\ listed' = Pruned(kind)
      /\ Works(Reader, [[w EXCEPT !.count = @ + Cardinality(Pruned(kind) \cap Of(kind))]
                         EXCEPT !.left = Tail(@)])
      /\ UNCHANGED <<requests, shown, credited, elicited, ends>>

\* `saturated`: past the capacity the request is refused with an error.
Saturated == task[Reader].count >= Capacity

Admit ==
  LET w == task[Reader]
      r == w.for
  IN  /\ w.at = "count" /\ w.left = <<>>
      /\ state' = [state EXCEPT ![r] = IF Saturated THEN "refused" ELSE "waiting"]
      /\ Works(Reader,
           [(IF Saturated THEN Begin("send", "refused", <<>>, {}, FALSE)
             ELSE IF asked[r].picked THEN Begin("show", "none", <<>>, {}, FALSE)
             ELSE IF asked[r].url # {} THEN Begin("register", "none", <<>>, {}, FALSE)
             ELSE Begin("list", "none", <<>>, {}, FALSE)) EXCEPT !.for = r])
      /\ UNCHANGED <<asked, arrived, told, lists, elicited, ends>>

(***************************************************************************)
(* Outstanding URL elicitations.                                           *)
(***************************************************************************)
OverVariant == {"abandoned", "accepted", "declined", "cancelled"}
Over == {"abandoned", "declined", "cancelled"}

\* `swept`: the list without what is no longer outstanding.
Swept == {r \in urls : state[r] \notin Over}

Register ==
  LET r == task[Reader].for IN
  /\ task[Reader].at = "register"
  /\ reused' = reused \cup
       {<<s, r>> : s \in {s \in Swept : /\ asked[s].url = asked[r].url
                                        /\ \A q \in Swept : asked[q].url = asked[r].url => s <= q}}
  /\ urls' = Swept \cup {r}
  /\ Goes(Reader, "list")
  /\ UNCHANGED <<requests, lists, completed, ends>>

\* `elicitation/complete` of a URL elicitation: every one that holds the id.
Complete(url) ==
  LET named == {r \in Swept : asked[r].url = url} IN
  /\ task[Reader].at = "idle"
  /\ completed' = completed \cup named
  /\ urls' = Swept \ named
  /\ UNCHANGED <<requests, lists, reused, ends, task>>

(***************************************************************************)
(* The list before the timeline; a policy's answer is credited before it   *)
(* is given.                                                               *)
(***************************************************************************)
List ==
  /\ task[Reader].at = "list"
  /\ listed' = listed \cup {task[Reader].for}
  /\ Goes(Reader, "show")
  /\ UNCHANGED <<requests, shown, credited, elicited, ends>>

Show ==
  LET r == task[Reader].for IN
  /\ task[Reader].at = "show"
  /\ shown' = shown \cup {r}
  /\ Works(Reader,
       IF ~asked[r].picked THEN Idle
       ELSE IF asked[r].kind = "permission" THEN Begin("credit", "picked", <<>>, {r}, FALSE)
       ELSE Begin("claim", "scripted", <<>>, {r}, FALSE))
  /\ UNCHANGED <<requests, listed, credited, elicited, ends>>

Credit(rs) == credited \cup rs

Credits ==
  /\ task[Reader].at = "credit"
  /\ credited' = Credit(task[Reader].taken)
  /\ Goes(Reader, "claim")
  /\ UNCHANGED <<requests, listed, shown, elicited, ends>>

Uncredit ==
  /\ task[Reader].at = "uncredit"
  /\ credited' = credited \ {task[Reader].for}
  /\ Works(Reader, Idle)
  /\ UNCHANGED <<requests, listed, shown, elicited, ends>>

(***************************************************************************)
(* Answering: `claim`, the send, and where the request stands after it.    *)
(***************************************************************************)
ClaimsVariant(r) == state[r] \in {"waiting", "answering"}
Claims(r) == Waiting(r)

\* Not waiting: somebody else answers it, and this answer is dropped.
Claim(t, r) ==
  LET w == Picks(task[t], r) IN
  /\ task[t].at = "claim" /\ Earliest(r, task[t].taken)
  /\ IF Claims(r)
     THEN /\ state' = [state EXCEPT ![r] = "answering"]
          /\ Works(t, [w EXCEPT !.at = "send"])
     ELSE /\ UNCHANGED state
          /\ Works(t, IF w.as = "picked" THEN [w EXCEPT !.at = "uncredit"] ELSE Onward(w))
  /\ UNCHANGED <<asked, arrived, told, lists, elicited, ends>>

\* There is room in the queue; a refusal settles nothing.
Send(t) ==
  /\ task[t].at = "send" /\ taking
  /\ told' = [told EXCEPT ![task[t].for] = Append(@, task[t].as)]
  /\ Works(t, IF task[t].as = "refused" THEN Idle ELSE [task[t] EXCEPT !.at = "settle"])
  /\ UNCHANGED <<asked, arrived, state, lists, elicited, ends>>

SendFails(t) ==
  /\ task[t].at = "send" /\ ~taking
  /\ Works(t, IF task[t].as = "refused" THEN Idle ELSE [task[t] EXCEPT !.at = "fail"])
  /\ UNCHANGED <<requests, lists, elicited, ends>>

Stands(as) == IF as \in {"picked", "scripted"} THEN "accepted" ELSE as

Settle(t) ==
  /\ task[t].at = "settle"
  /\ state' = [state EXCEPT ![task[t].for] = Stands(task[t].as)]
  /\ Works(t, Onward(task[t]))
  /\ UNCHANGED <<asked, arrived, told, lists, elicited, ends>>

\* The connection is gone: abandoned rather than waiting again.
FailedVariant == "waiting"
Failed == "abandoned"

Fail(t) ==
  /\ task[t].at = "fail"
  /\ state' = [state EXCEPT ![task[t].for] = Failed]
  /\ Works(t, IF task[t].as = "picked" THEN [task[t] EXCEPT !.at = "uncredit"]
              ELSE Onward(task[t]))
  /\ UNCHANGED <<asked, arrived, told, lists, elicited, ends>>

(***************************************************************************)
(* What users do: answer a request they see; cancel the turn, or leave the *)
(* session, either of which answers what it takes off the lists.           *)
(***************************************************************************)
Clicks(u, r) ==
  /\ task[u].at = "idle"
  /\ r \in shown /\ Waiting(r)
  /\ \E as \in {"accepted"} \cup
               IF asked[r].kind = "elicitation" THEN {"declined", "cancelled"} ELSE {} :
       Works(u, Begin("claim", as, <<>>, {r}, FALSE))
  /\ UNCHANGED <<requests, lists, elicited, ends>>

AnswersCancelled(u, everything) ==
  /\ task[u].at = "idle" /\ cancels < MaxCancels
  /\ cancels' = cancels + 1
  /\ Works(u, Begin("take", "cancelled", Kinds, {}, everything))
  /\ UNCHANGED <<requests, lists, elicited, dropped, closed, taking>>

\* `take`, or `take_unless`: what is scoped to a call outlives the turn.
Outlives(r) == asked[r].scope = "call"

Take(t) ==
  LET w == task[t]
      S == {r \in listed \cap Of(Head(w.left)) : w.all \/ ~Outlives(r)}
  IN  /\ w.at = "take" /\ w.left # <<>>
      /\ listed' = listed \ S
      /\ Works(t, Onward([[w EXCEPT !.left = Tail(@)] EXCEPT !.taken = S]))
      /\ UNCHANGED <<requests, shown, credited, elicited, ends>>

(***************************************************************************)
(* What the reader does: a withdrawal, the end of a turn, the teardown.    *)
(***************************************************************************)
\* `$/cancel_request`: only what is listed and waits can be withdrawn, and
\* looking for it prunes the lists.
Withdraws(r) ==
  /\ task[Reader].at = "idle" /\ r <= arrived
  /\ listed' = {s \in listed : Waiting(s)}
  /\ Works(Reader, IF r \in listed' THEN Begin("claim", "withdrawn", <<>>, {r}, FALSE) ELSE Idle)
  /\ UNCHANGED <<requests, shown, credited, elicited, ends>>

GivingUp(all) == Begin("take", "abandoned", Kinds, {}, all)

TurnSettles ==
  /\ task[Reader].at = "idle" /\ listed # {}
  /\ Works(Reader, GivingUp(FALSE))
  /\ UNCHANGED <<requests, lists, elicited, ends>>

\* The reader is let go where it waits: for a frame, or for room to answer.
Disconnected ==
  /\ task[Reader].at \in {"idle", "send"}
  /\ closed' = TRUE
  /\ dropped' = IF task[Reader].as = "refused" THEN 0 ELSE task[Reader].for
  /\ Works(Reader, GivingUp(TRUE))
  /\ UNCHANGED <<requests, lists, elicited, cancels, taking>>

\* `abandoned`: an answer already on its way is left for the wire to decide.
LapsesVariant(r) == state[r] \in {"waiting", "answering"}
Lapses(r) == Waiting(r)

Abandon(t, r) ==
  LET w == Picks(task[t], r) IN
  /\ task[t].at = "abandon" /\ Earliest(r, task[t].taken)
  /\ state' = IF Lapses(r) THEN [state EXCEPT ![r] = "abandoned"] ELSE state
  /\ Works(t, Onward(w))
  /\ UNCHANGED <<asked, arrived, told, lists, elicited, ends>>

Clear ==
  /\ task[Reader].at = "clear"
  /\ urls' = {}
  /\ Goes(Reader, "gone")
  /\ UNCHANGED <<requests, lists, completed, reused, ends>>

\* The transport takes no more: the agent is gone, or is being let go.
StopsTaking ==
  /\ taking /\ taking' = FALSE
  /\ UNCHANGED <<requests, lists, elicited, dropped, cancels, closed, task>>

TaskGoesOn(t) ==
  \/ \E r \in Requests : Claim(t, r) \/ Abandon(t, r)
  \/ SendFails(t) \/ Settle(t) \/ Fail(t) \/ Take(t)
ReaderGoesOn ==
  \/ Count \/ Admit \/ Register \/ List \/ Show \/ Credits \/ Uncredit \/ Clear

Next ==
  \/ Arrives \/ TurnSettles \/ Disconnected \/ ReaderGoesOn
  \/ \E r \in Requests : Withdraws(r) \/ \E u \in Clickers : Clicks(u, r)
  \/ \E url \in Urls : Complete({url})
  \/ \E u \in Leavers, all \in BOOLEAN : AnswersCancelled(u, all)
  \/ \E t \in Tasks : TaskGoesOn(t) \/ Send(t)
  \/ StopsTaking

Spec == Init /\ [][Next]_vars

\* The runtime schedules what can run.  Whether room is ever made for a frame
\* is the agent's affair, but a connection let go is let go of by its transport.
FairSpec ==
  /\ Spec
  /\ \A t \in Tasks : WF_vars(TaskGoesOn(t))
  /\ WF_vars(ReaderGoesOn)
  /\ WF_vars(closed /\ StopsTaking)

(***************************************************************************)
(* Properties.                                                             *)
(***************************************************************************)
\* The agent is never told twice, whoever races to answer, and where a request
\* stands is what it was told: an answer that stands was sent, a request that
\* waits or was given up on was told nothing (permission.rs:209).
StandsAsTold ==
  \A r \in Requests :
    /\ Len(told[r]) <= 1
    /\ state[r] \in {"none", "waiting", "abandoned"} => told[r] = <<>>
    /\ state[r] \in {"accepted", "declined", "cancelled", "withdrawn"} =>
         \E as \in Answers : told[r] = <<as>> /\ Stands(as) = state[r]

\* A policy's answer is marked as the policy's by the time it can be read, and
\* an answer of the user's does not stay marked so (permission.rs:164).
PolicyIsCredited ==
  \A r \in Requests :
    /\ state[r] = "accepted" /\ told[r] = <<"picked">> => r \in credited
    /\ r \in credited /\ r \notin {task[Reader].for} \cup task[Reader].taken =>
         told[r] = <<"picked">> \/ r = dropped

\* No more requests are in the lists, waiting, than the capacity admits,
\* whoever counts while others answer (requests.rs:228).
ListsAreBounded == Cardinality({r \in listed : Waiting(r)}) <= Capacity

\* While the connection stands, a URL elicitation consented to stays outstanding
\* until the agent says it is finished, however often the list is swept
\* (elicitation.rs:446), and one finished is not.
ConsentKeepsTheId ==
  ~closed =>
    /\ urls \cap completed = {}
    /\ \A r \in Requests :
         state[r] = "accepted" /\ asked[r].url # {} /\ r \notin completed => r \in urls

\* A request scoped to a call is given up on, or cancelled, only by what ends
\* the call's connection or its session (blocking.rs:160).
CallsOutliveTurns ==
  \A r \in Requests :
    state[r] = "abandoned" /\ asked[r].scope = "call" => closed \/ ~taking

\* The lists of what waits and what is outstanding keep their promises while
\* policy, user, cancel and completion race (permission.rs, elicitation.rs,
\* requests.rs).
ListsAreHonest ==
  TypeOK /\ PolicyIsCredited /\ ListsAreBounded /\ ConsentKeepsTheId /\ CallsOutliveTurns

\* Once the connection is torn down and every task is at rest, no request waits
\* or claims to be on its way, except the one the reader was let go with.
NoneIsLeft(r) == state[r] \notin {"waiting", "answering"} \/ r = dropped

\* A connection let go leaves no request waiting for ever (inbound.rs:272).
NobodyWaitsOn == closed ~> task[Reader].at = "gone" /\ \A r \in Requests : NoneIsLeft(r)

Made == 1..arrived
GivenUp == {r \in Requests : state[r] = "abandoned"}

\* Every step of answering, racing and giving up is a step of the contract of
\* answers or a stutter: no request is told twice, none given up on is told
\* anything later, and none told is given up on (permission.rs:209).
Contract == INSTANCE AnswerContract WITH asks <- Made, said <- told, lapsed <- GivenUp
KeepsAnswers == Contract!AnswersSpec
=============================================================================
