------------------------------- MODULE Facade -------------------------------
(***************************************************************************)
(* The inspector as its window calls it, over the connections it has one   *)
(* after the other (crates/core/src/inspector/mod.rs and read.rs, with     *)
(* client/mod.rs, driven.rs, services.rs, restore.rs, auth.rs and mcp.rs). *)
(*                                                                         *)
(* The stores outlive their connection.  `connect` empties them on the     *)
(* window's thread; the old reader is shut out by then, but a caller whose *)
(* call was answered may still be waiting for that thread and writes what  *)
(* it learned when it gets it.  Sessions of one connection are Session's,  *)
(* and the teardown's order is Inspector's: here both are one step.        *)
(***************************************************************************)
EXTENDS Naturals, FiniteSets

CONSTANTS
  Choices,         \* the services a launch may choose to claim
  Drafts,          \* the MCP drafts the form may hold
  Families,        \* what an agent may advertise
  Asks,            \* what the window asks for
  Stalls,          \* the queue can be full: leaving a session can wait
  MaxConnections,  \* bound: agents started
  MaxCalls,        \* bound: calls made, but for `initialize`
  MaxChoices,      \* bound: choices made
  MaxRows          \* bound: rows the timeline holds

Capability == {"load", "list", "resume", "close", "delete", "additionalDirectories",
               "logout", "image", "audio", "embeddedContext", "http", "sse"}
Services == {"readTextFile", "writeTextFile", "terminal"}
Calls == 1..MaxCalls

VARIABLES
  made, live,            \* connections so far; the one there is, or 0
  draft, chosen,         \* the MCP draft; what the next connection will claim
  choices,               \* choices made
  given, offers,         \* what the latest client took; what its agent will advertise
  agent, claim, policy,  \* stores: who described itself and how, the claim sent, the policy
  session, listing, auth, turn, settings, driven,  \* stores, with whose they are
  rows,                  \* the timeline's rows: connection and session they came in
  call, registered,      \* call -> its caller; calls whose record is still owed
  starting,              \* the `start` that waits on `initialize`, and the draft it took
  carried                \* history: the latest agent was sent an http or sse definition

stores == <<agent, claim, policy, session, listing, auth, turn, settings, driven, rows>>
window == <<draft, chosen, choices>>
peers == <<given, offers>>
vars == <<made, live, window, peers, stores, call, registered, starting, carried>>

NoCall == [op |-> "none", conn |-> 0, drives |-> {}, at |-> "none", got |-> "none",
           on |-> 0, switching |-> FALSE]
Unasked == [how |-> "unasked", of |-> 0, by |-> "none"]
NoLogin == [how |-> "unasked", of |-> 0]
NotStarting == [at |-> "none", conn |-> 0, draft |-> "none", call |-> 0]
Asking == [is |-> "ask", of |-> 0, in |-> 0]
Idle == [how |-> "idle", of |-> 0]

TypeOK ==
  /\ made \in 0..MaxConnections /\ live \in {0, made} /\ agent.of \in 0..made
  /\ draft \in Drafts /\ {chosen, given} \subseteq Choices
  /\ {offers, agent.caps} \subseteq SUBSET Capability
  /\ policy.is \in {"ask", "allow"} /\ session \in 0..MaxCalls
  /\ {listing, turn.of, settings, policy.of, auth.of} \subseteq 0..made
  /\ turn.how \in {"idle", "running", "failed"}
  /\ starting.at \in {"none", "waiting", "ok", "failed", "opening"}
  /\ \A a \in Capability : driven[a].how \in {"unasked", "answered", "refused"}
  /\ registered \subseteq Calls /\ Cardinality(rows) <= MaxRows /\ choices \in 0..MaxChoices
  /\ \A c \in Calls : call[c].at \in {"none", "leaving", "waiting", "woken", "refreshing", "done"}

Init ==
  /\ made = 0 /\ live = 0 /\ draft \in Drafts /\ chosen \in Choices /\ choices = 0
  /\ given = chosen /\ offers = {} /\ agent = [of |-> 0, caps |-> {}] /\ claim = {}
  /\ policy = Asking /\ session = 0 /\ listing = 0 /\ auth = NoLogin /\ settings = 0
  /\ turn = Idle /\ driven = [a \in Capability |-> Unasked] /\ rows = {}
  /\ call = [c \in Calls |-> NoCall] /\ registered = {} /\ starting = NotStarting
  /\ carried = FALSE

\* `advertised`: a gate reads the claim the driven record is drawn beside.
Advertised == agent.caps
\* `preferred`: load rebuilds the conversation, so it is taken where there is both.
Preferred == IF "load" \in Advertised THEN {"load"} ELSE {"resume"} \cap Advertised
\* The capability that gates a call of the window, if one does.
GateOf(op) == {op} \cap {"load", "list", "resume", "close", "delete", "logout"}
Offered(op) ==
  /\ GateOf(op) \subseteq Advertised
  /\ op \in {"load", "resume"} => op \in Preferred
Opens == {"new", "load", "resume"}

\* `findings`, `definitions_for`: nothing is carried by a draft that has a finding.
Sound(d) == d # "blank"
Remote(d) == {d} \cap {"http", "sse"}
Defines(d, caps) == Sound(d) /\ Remote(d) \subseteq caps
\* `drives_setup`: an opening call drives what its frame carries.
Drives(op, roots) ==
  GateOf(op) \cup (IF op \in Opens THEN Remote(draft) ELSE {})
             \cup (IF roots THEN {"additionalDirectories"} ELSE {})

\* `record`: the latest outcome of a capability replaces the one before.
Recorded(caps, how, k, op) ==
  [a \in Capability |-> IF a \in caps THEN [how |-> how, of |-> k, by |-> op] ELSE driven[a]]
Unused(c) == call[c].op = "none" /\ \A d \in 1..(c - 1) : call[d].op # "none"

(***************************************************************************)
(* The choices a window makes before and between connections.              *)
(***************************************************************************)
Chooses ==
  /\ choices < MaxChoices /\ choices' = choices + 1
  /\ \/ draft' \in Drafts \ {draft} /\ UNCHANGED <<chosen, policy>>
     \/ chosen' \in Choices \ {chosen} /\ UNCHANGED <<draft, policy>>
     \/ /\ policy' = [is |-> "allow", of |-> made, in |-> session]
        /\ UNCHANGED <<draft, chosen>>
  /\ UNCHANGED <<made, live, peers, agent, claim, session, listing, auth, turn, settings, driven,
                 rows, call, registered, starting, carried>>

(***************************************************************************)
(* `release` and `disconnected`: every caller is woken, every record owed  *)
(* is written, a running turn fails.                                       *)
(***************************************************************************)
Holding == {c \in Calls : call[c].conn = live /\ call[c].at \in {"waiting", "refreshing"}}
Torn == [c \in Calls |-> IF c \in Holding THEN [call[c] EXCEPT !.got = "gone", !.at = "woken"]
                         ELSE call[c]]
OwedBy(k) == {c \in registered : call[c].conn = k}
RefusedAtRelease ==
  Recorded(UNION {call[c].drives : c \in OwedBy(live)}, "refused", live, "release")

Release ==
  /\ live # 0 /\ live' = 0
  /\ call' = Torn /\ registered' = registered \ OwedBy(live)
  /\ driven' = RefusedAtRelease /\ policy' = Asking
  /\ turn' = IF turn.how = "running" THEN [how |-> "failed", of |-> live] ELSE turn
  /\ settings' = IF \E c \in Holding : call[c].op = "set" THEN live ELSE settings
  /\ starting' = IF starting.at = "waiting" THEN [starting EXCEPT !.at = "failed"] ELSE starting
  /\ UNCHANGED <<made, window, peers, agent, claim, session, listing, auth, rows, carried>>

(***************************************************************************)
(* `start`: the draft and the directory first, then `connect`, which       *)
(* releases what there was and empties the stores, then `initialize`.      *)
(***************************************************************************)
\* Whether a session is being left is read before it is forgotten.
Leaving == session # 0
\* `Client::new`: a new connection asks about every permission request.
PolicyTaken == Asking
\* What `connect` empties: the record of the last agent stays until here.
Emptied == [a \in Capability |-> Unasked]

Connect ==
  /\ made < MaxConnections /\ made' = made + 1 /\ live' = made + 1
  /\ given' = chosen /\ offers' \in Families /\ carried' = FALSE
  /\ agent' = [of |-> 0, caps |-> {}] /\ policy' = PolicyTaken
  /\ session' = 0 /\ listing' = 0 /\ auth' = NoLogin /\ turn' = Idle /\ settings' = 0
  /\ driven' = Emptied /\ rows' = IF Leaving THEN {} ELSE rows
  /\ call' = (IF live = 0 THEN call ELSE Torn)
  /\ registered' = IF live = 0 THEN registered ELSE registered \ OwedBy(live)

\* `capabilities`: what this client draws and answers whatever was chosen, and
\* the services it was launched with.
Always == {"configOptions", "compaction", "notices", "form", "url"}
Claimed == Always \cup given'

\* `claims`: the method a request names is one this client said it answers.
ServiceOf ==
  [m \in {"fs/read_text_file", "fs/write_text_file", "terminal/create", "terminal/output",
          "terminal/release", "terminal/wait_for_exit", "terminal/kill"} |->
     CASE m = "fs/read_text_file" -> "readTextFile"
       [] m = "fs/write_text_file" -> "writeTextFile"
       [] OTHER -> "terminal"]
Serves(m) == ServiceOf[m] \in given

\* The window starts one at a time.
Start ==
  /\ starting.at = "none" /\ Sound(draft)
  /\ Connect /\ claim' = Claimed
  /\ starting' = [NotStarting EXCEPT !.at = "waiting", !.conn = made + 1, !.draft = draft]
  /\ UNCHANGED window

\* `initialize`, and what `start` goes on with: what the agent it started said
\* decides what is carried to the connection there is.
Initialized ==
  /\ starting.at \in {"ok", "failed"}
  /\ agent' = IF starting.at = "ok" THEN [of |-> starting.conn, caps |-> offers] ELSE agent
  /\ \/ /\ starting.at = "ok" /\ live # 0 /\ Defines(starting.draft, offers)
        /\ \E n \in Calls :
             /\ Unused(n) /\ starting' = [NotStarting EXCEPT !.at = "opening", !.call = n]
             /\ call' = [call EXCEPT ![n] = [NoCall EXCEPT !.op = "new", !.conn = live,
                                       !.at = "waiting", !.drives = Remote(starting.draft)]]
        /\ registered' = {n \in Calls : call'[n].at = "waiting" /\ call'[n].drives # {}}
        /\ carried' = (Remote(starting.draft) # {})
     \/ /\ ~(starting.at = "ok" /\ live # 0 /\ Defines(starting.draft, offers))
        /\ starting' = NotStarting /\ UNCHANGED <<call, registered, carried>>
  /\ UNCHANGED <<made, live, window, peers, claim, policy, session, listing, auth, turn, settings,
                 driven, rows>>

(***************************************************************************)
(* The calls.  A live session is left before another is opened: for a new  *)
(* one first of all, for a restored one once its call is registered.       *)
(***************************************************************************)
Left(op) == op \in Opens /\ session # 0

\* `new_session` prepares its call after leaving, `restore` before.
RegistersFirstVariant(op) == ~Stalls
RegistersFirst(op) == op # "new" \/ ~Stalls

\* A call goes out at once, or waits while the session is left.
Begins(c, op, roots) ==
  LET waits == Left(op) /\ Stalls IN
  /\ call' = [call EXCEPT ![c] =
                [NoCall EXCEPT !.op = op, !.conn = live, !.drives = Drives(op, roots),
                               !.at = IF waits THEN "leaving" ELSE "waiting",
                               !.on = session, !.switching = Left(op)]]
  /\ registered' = IF Drives(op, roots) # {} /\ (waits => RegistersFirst(op))
                   THEN registered \cup {c} ELSE registered
  /\ policy' = IF Left(op) THEN Asking ELSE policy
  /\ turn' = IF op = "prompt" THEN [how |-> "running", of |-> live]
             ELSE IF Left(op) THEN Idle ELSE turn
  /\ rows' = IF Left(op) /\ op # "new" THEN {} ELSE rows
  /\ carried' = (carried \/ (op \in Opens /\ Remote(draft) # {} /\ ~waits))
  /\ UNCHANGED <<made, live, peers, agent, claim, session, listing, auth, settings, driven>>

\* With no connection a call leaves its refusal where an answer would have.
NobodyThere(op, roots) ==
  /\ driven' = Recorded(Drives(op, roots), "refused", 0, op)
  /\ auth' = IF op = "login" THEN [how |-> "refused", of |-> 0] ELSE auth
  /\ turn' = IF op = "prompt" THEN [how |-> "failed", of |-> 0] ELSE turn
  /\ settings' = IF op = "set" THEN 0 ELSE settings
  /\ UNCHANGED <<made, live, peers, agent, claim, policy, session, listing, rows, call, registered,
                 carried>>

\* A draft that an opening cannot carry is refused before anybody is asked.
Ask(c, op, roots) ==
  /\ Unused(c) /\ Offered(op) /\ (op \in Opens => Defines(draft, Advertised))
  /\ (roots => op \in Opens /\ "additionalDirectories" \in Advertised)
  /\ \/ /\ live # 0 /\ (op \in {"set", "prompt", "close", "delete"} => session # 0)
        /\ (op = "prompt" => turn.how # "running")
        /\ Begins(c, op, roots)
     \/ live = 0 /\ NobodyThere(op, roots)
  /\ UNCHANGED <<window, starting>>

\* A caller that waited while it left goes on, whatever became of its connection.
\* One whose call was not prepared yet is told so, and records it itself.
Goes(c) ==
  /\ call[c].at = "leaving"
  /\ \/ /\ call[c].conn = live /\ call' = [call EXCEPT ![c].at = "waiting"]
        /\ registered' = IF call[c].drives # {} THEN registered \cup {c} ELSE registered
        /\ carried' = (carried \/ call[c].drives \cap {"http", "sse"} # {})
        /\ UNCHANGED driven
     \/ /\ call[c].conn # live
        /\ call' = [call EXCEPT ![c].at = "woken", ![c].got = "gone"]
        /\ driven' = IF RegistersFirst(call[c].op) THEN driven
                     ELSE Recorded(call[c].drives, "refused", call[c].conn, call[c].op)
        /\ UNCHANGED <<registered, carried>>
  /\ UNCHANGED <<made, live, window, peers, agent, claim, policy, session, listing, auth,
                 turn, settings, rows, starting>>

(***************************************************************************)
(* The reader, while the connection is the inspector's.                    *)
(***************************************************************************)
\* `drove`, `opened` and the slots: an answer is recorded where it crosses.
Answer(c, how) ==
  /\ live # 0 /\ call[c].conn = live /\ call[c].at \in {"waiting", "refreshing"}
  /\ call' = [call EXCEPT ![c].got = IF call[c].at = "refreshing" THEN "page" ELSE how,
                          ![c].at = "woken"]
  /\ registered' = registered \ {c}
  /\ driven' = IF c \notin registered THEN driven
               ELSE Recorded(call[c].drives, IF how = "ok" THEN "answered" ELSE "refused", live,
                             call[c].op)
  /\ auth' = IF how = "auth" THEN [how |-> "required", of |-> live] ELSE auth
  /\ settings' = IF call[c].op \in Opens \cup {"set"} /\ how = "ok" THEN live ELSE settings
  /\ turn' = IF call[c].op = "prompt" /\ turn.how = "running" THEN Idle ELSE turn
  /\ UNCHANGED <<made, live, window, peers, agent, claim, policy, session, listing, rows,
                 starting, carried>>

Greeted ==
  /\ live # 0 /\ starting.at = "waiting"
  /\ \E how \in {"ok", "failed"} : starting' = [starting EXCEPT !.at = how]
  /\ UNCHANGED <<made, live, window, peers, stores, call, registered, carried>>

Says ==
  /\ live # 0 /\ Cardinality(rows) < MaxRows
  /\ rows' = rows \cup {[conn |-> live, session |-> session]}
  /\ UNCHANGED <<made, live, window, peers, agent, claim, policy, session, listing, auth, turn,
                 settings, driven, call, registered, starting, carried>>

(***************************************************************************)
(* The callers, woken: what each writes itself, late or not.               *)
(***************************************************************************)
Woken(c, ops) == call[c].at = "woken" /\ call[c].op \in ops
Over(c) == [NoCall EXCEPT !.op = call[c].op, !.conn = call[c].conn, !.at = "done"]
Returned(c) == call' = [call EXCEPT ![c] = Over(c)]

\* `new_session`, `restore`: view and turn first, the session last.
Opened(c) ==
  /\ Woken(c, Opens) /\ Returned(c)
  /\ starting' = IF c = starting.call THEN NotStarting ELSE starting
  /\ \/ /\ call[c].got = "ok" /\ session' = c /\ turn' = Idle
        /\ rows' = IF call[c].op = "new" /\ call[c].switching THEN {} ELSE rows
     \/ call[c].got # "ok" /\ UNCHANGED <<session, turn, rows>>
  /\ UNCHANGED <<made, live, window, peers, agent, claim, policy, listing, auth, settings,
                 driven, registered, carried>>

\* `end_session`: the live session ends, and the listing is asked for again.
Ended(c) ==
  /\ Woken(c, {"close", "delete"}) /\ call[c].got # "page"
  /\ call' = [call EXCEPT ![c] = IF "list" \in Advertised /\ call[c].conn = live
                                 THEN [@ EXCEPT !.at = "refreshing"] ELSE Over(c)]
  /\ \/ /\ call[c].got = "ok" /\ session # 0 /\ session = call[c].on
        /\ session' = 0 /\ turn' = Idle /\ policy' = Asking /\ rows' = {} /\ settings' = 0
     \/ /\ ~(call[c].got = "ok" /\ session # 0 /\ session = call[c].on)
        /\ UNCHANGED <<session, turn, policy, rows, settings>>
  /\ UNCHANGED <<made, live, window, peers, agent, claim, listing, auth, driven,
                 registered, starting, carried>>

\* The other callers: a page is folded in, a login's outcome is written.
Returns(c) ==
  /\ \/ Woken(c, {"list", "login", "logout", "set", "prompt"})
     \/ Woken(c, {"close", "delete"}) /\ call[c].got = "page"
  /\ Returned(c)
  /\ listing' = IF \/ call[c].op = "list" /\ call[c].got = "ok"
                   \/ call[c].got = "page" THEN call[c].conn ELSE listing
  /\ auth' = CASE call[c].op = "login" /\ call[c].got = "ok" ->
                    [how |-> "authenticated", of |-> call[c].conn]
               [] call[c].op = "login" /\ call[c].got # "ok" ->
                    [how |-> "refused", of |-> call[c].conn]
               [] call[c].op = "logout" /\ call[c].got = "ok" -> NoLogin
               [] OTHER -> auth
  /\ UNCHANGED <<made, live, window, peers, agent, claim, policy, session, turn, settings,
                 driven, rows, registered, starting, carried>>

Caller(c) ==
  \/ Goes(c) \/ Opened(c) \/ Ended(c) \/ Returns(c)
  \/ \E op \in Asks, roots \in BOOLEAN : Ask(c, op, roots)
Reader == Greeted \/ Says \/ \E c \in Calls, how \in {"ok", "refused", "auth"} : Answer(c, how)
Next == Release \/ Chooses \/ Start \/ Initialized \/ Reader \/ \E c \in Calls : Caller(c)
Spec == Init /\ [][Next]_vars

(***************************************************************************)
(* Properties.                                                             *)
(***************************************************************************)
\* The driven record tells of the agent there is, or of nobody having been
\* there, never of the one before; save what a `session/new` refuses that was
\* still leaving when its connection went.
RecordIsThisAgents ==
  \A a \in Capability : driven[a].by = "new" \/ driven[a].of \in {0, made}

\* The settings, the turn and what the agent advertised are the latest connection's:
\* those that write them are shut out before they are emptied.  Its requests are
\* served as `initialize` claimed, whatever was chosen since.
StoresAreThisAgents ==
  /\ {settings, turn.of, agent.of} \subseteq {0, made}
  /\ made > 0 => \A m \in DOMAIN ServiceOf : Serves(m) <=> ServiceOf[m] \in claim

\* Permissions are answered without asking only as was chosen of this connection.
PolicyIsThisAgents == policy.is = "allow" => policy.of = made

\* Nothing said in a session of an agent that was replaced is still on view.
LeftRowsAreGone == \A r \in rows : r.session # 0 => r.conn = made

\* A definition over HTTP or SSE was sent only to an agent that takes them.
OnlyTheAdvertised == carried => offers \cap {"http", "sse"} # {}

CallsTellTheirAgent ==
  /\ TypeOK /\ RecordIsThisAgents /\ StoresAreThisAgents /\ PolicyIsThisAgents
  /\ LeftRowsAreGone /\ OnlyTheAdvertised

\* What the code does not keep: an answered caller of the agent before makes its
\* session live on the next, and a policy chosen during a switch goes with it.
SessionIsThisAgents == session # 0 => call[session].conn = made
PolicyIsItsSessions == policy.is = "allow" => policy.in = session
=============================================================================
