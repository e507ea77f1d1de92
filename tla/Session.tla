------------------------------ MODULE Session ------------------------------
(***************************************************************************)
(* Sessions of one connection: opening, restoring, leaving, closing and    *)
(* listing them, the two setters, logging in and out, and what the reader  *)
(* records of each answer and announcement (crates/core/src/client/        *)
(* lifecycle.rs, settings.rs, driving.rs, inbound.rs and rules.rs, with    *)
(* session_settings.rs, driven.rs, listing.rs, auth.rs and restore.rs).    *)
(*                                                                         *)
(* Callers share one thread and give it up only where they await; the      *)
(* reader runs on another.  A caller's stretch is split where the reader   *)
(* can tell the parts apart.  Turns, permissions and the timeline's turns  *)
(* are Turn's and Blocking's; what is settled of them here is left out.    *)
(***************************************************************************)
EXTENDS Naturals, Sequences, FiniteSets, SequencesExt

CONSTANTS
  None,          \* no session, no mode, no options
  Sessions, Modes, Options,
  Ops,           \* bound: what the user may ask for, call by call
  Answers,       \* how the agent answers a call
  Held,          \* sessions the agent holds from before this connection
  Lists,         \* the agent advertised session/list
  Overlap,       \* a session is opened while another open is in flight
  Stalls,        \* the outgoing queue can be full, so leaving and ending can wait
  Setups,        \* bound: the modes and options an answer publishes
  Pages,         \* pages its listing has
  MaxCalls,      \* bound: calls made
  MaxSaid,       \* bound: updates the agent announces
  MaxUp          \* bound: frames on their way from the agent

Restores == {"load", "resume"}
Opens == {"new"} \cup Restores
Ends == {"close", "delete"}
Sets == {"mode", "option"}

Calls == 1..MaxCalls

\* For a cfg: a first open, what is asked in the session, and one more open or
\* call; and answers that publish a mode or an option.
Script == <<{"new", "load"},
            {"resume", "mode", "option", "close"},
            {"load", "mode", "list", "login", "logout"}>>
ModeOrOption == {[modes |-> m, opts |-> None] : m \in Modes} \cup {[modes |-> None, opts |-> o] : o \in Options}

ASSUME SessionAssumption ==
  /\ Ops \in [Calls -> SUBSET (Opens \cup Ends \cup Sets \cup {"list", "login", "logout"})]
  /\ Setups \subseteq [modes : Modes \cup {None}, opts : Options \cup {None}]
  /\ Answers \subseteq {"ok", "garbled", "refused", "auth", "dropped"}
  /\ Held \subseteq Sessions /\ {Lists, Overlap, Stalls} \subseteq BOOLEAN
  /\ Pages \in Nat \ {0} /\ MaxCalls \in Nat /\ MaxSaid \in Nat /\ MaxUp \in Nat
  /\ None \notin Sessions \cup Modes \cup Options

Capabilities == Restores \cup Ends \cup {"list", "logout", "roots"}
Updates == {"talk", "mode", "options"}

VARIABLES
  live,          \* stores.session
  settings,      \* stores.settings
  driven,        \* stores.driven
  auth,          \* stores.auth
  listing,       \* stores.listing: the pages held and the cursor to go on from
  notes,         \* loads annotated as having replayed nothing
  opening, loading, changing, setting,  \* the client's slots, {} or {record}
  driving,       \* call -> the advertisements it drives; {} once settled
  openedLast, conversed,
  call,          \* call -> its parameters, its caller's step, its outcome
  pending,       \* calls in the table, sent or not
  asked, up,     \* calls the agent holds; frames on their way from it
  said,          \* updates it announced
  conn,          \* "open", "closing" (rpc.close ran), "down" (disconnected returned)
  told, lost,    \* history: how often each call's outcome was recorded; sets whose
                 \* slot was given up
  heardIn        \* history: loads their session was heard during, and mode sets
                 \* their session announced a mode after

slots == <<opening, loading, changing, setting>>
stores == <<live, settings, driven, auth, listing, notes>>
memory == <<driving, openedLast, conversed>>
wire == <<asked, up, said, conn>>
history == <<told, lost, heardIn>>
vars == <<stores, slots, memory, call, pending, wire, history>>

Steps == {"none", "leaving", "begun", "prepared", "left", "armed", "waiting", "ending", "emptied",
          "done", "failed"}
Unheard == [how |-> "none", on |-> None, modes |-> None, opts |-> None]
Empty == [of |-> None, modes |-> None, opts |-> None, unoffered |-> None,
          change |-> [how |-> "none", by |-> 0], refusal |-> 0]
Fresh == [op |-> "none", on |-> None, ask |-> None, caps |-> {}, at |-> "none", got |-> Unheard]

TypeOK ==
  /\ live \in Sessions \cup {None} /\ openedLast \in Sessions \cup {None}
  /\ settings.of \in Sessions \cup {None}
  /\ settings.modes \in Modes \cup {None} /\ settings.unoffered \in Modes \cup {None}
  /\ settings.opts \in Options \cup {None} /\ settings.refusal \in 0..MaxCalls
  /\ settings.change \in [how : {"none", "acknowledged", "refused"}, by : 0..MaxCalls]
  /\ driven \in [Capabilities -> {"unasked", "answered", "refused"}]
  /\ auth \in {"unasked", "required", "authenticated", "refused"}
  /\ listing.pages \in Seq(1..Pages) /\ listing.next \in 0..Pages
  /\ notes \subseteq Calls /\ conversed \subseteq Sessions
  /\ \A slot \in opening : slot.call \in Calls /\ slot.stated \in Modes \cup {None}
  /\ \A slot \in loading : slot.call \in Calls /\ slot.replayed \in BOOLEAN
  /\ \A slot \in changing : slot.call \in Calls /\ slot.restated \in BOOLEAN
  /\ setting \subseteq Calls
  /\ \A size \in {Cardinality(opening), Cardinality(loading), Cardinality(changing),
                   Cardinality(setting)} : size <= 1
  /\ driving \in [Calls -> SUBSET Capabilities]
  /\ \A c \in Calls : call[c].at \in Steps /\ call[c].caps \subseteq Capabilities
  /\ lost \subseteq Calls /\ pending \subseteq Calls /\ asked \subseteq Calls /\ heardIn \subseteq Calls
  /\ said \in 0..MaxSaid /\ conn \in {"open", "closing", "down"}
  /\ told \in [Calls -> 0..2]

Init ==
  /\ live = None /\ settings = Empty /\ auth = "unasked"
  /\ driven = [a \in Capabilities |-> "unasked"]
  /\ listing = [pages |-> <<>>, next |-> 0] /\ notes = {}
  /\ opening = {} /\ loading = {} /\ changing = {} /\ setting = {}
  /\ driving = [c \in Calls |-> {}] /\ openedLast = None /\ conversed = {}
  /\ call = [c \in Calls |-> Fresh] /\ pending = {}
  /\ asked = {} /\ up = <<>> /\ said = 0 /\ conn = "open"
  /\ told = [c \in Calls |-> 0] /\ lost = {} /\ heardIn = {}

(***************************************************************************)
(* Callers.                                                                *)
(***************************************************************************)
Made == {c \in Calls : call[c].at # "none"}
AwaitPoints == {"none", "waiting", "done", "failed"} \cup IF Stalls THEN {"leaving", "ending"} ELSE {}
\* A caller between two awaits keeps the thread.
Runs(c) == \A d \in Calls \ {c} : call[d].at \in AwaitPoints
AtStep(c, step) == call' = [call EXCEPT ![c].at = step]

\* `drives`, `drives_setup`: what a call drives.  A session is opened with roots.
Drives(op) == ({op} \cap Capabilities) \cup IF op \in Opens THEN {"roots"} ELSE {}

\* The two outcomes of a set: nothing is written where the store says so already.
SetRefused(held, c) ==
  IF call[c].op = "mode" THEN [held EXCEPT !.change = [how |-> "refused", by |-> c]]
                         ELSE [held EXCEPT !.refusal = c]

\* The outcome of a call is owed a record: of what it drove, or of what it set.
Owed(c) == call[c].caps # {} \/ call[c].op \in Sets

\* `drove`, `drive_failed`, `omitted`: every capability a call drives is
\* recorded, by whoever takes its entry.
DroveVariant(c, how) ==
  /\ driven' = [a \in Capabilities |-> IF a \in driving[c] THEN how ELSE driven[a]]
  /\ UNCHANGED driving
Drove(c, how) ==
  /\ driven' = [a \in Capabilities |-> IF a \in driving[c] THEN how ELSE driven[a]]
  /\ driving' = [driving EXCEPT ![c] = {}]

\* A call begins.  A session/new leaves the live session first; every other
\* one prepares its frame first.  A set needs a live session.
Begin(c, op, on, ask) ==
  /\ op \in Opens /\ ~Overlap => \A d \in Made : call[d].op \in Opens => call[d].at \in {"done", "failed"}
  /\ call' = [call EXCEPT ![c] =
       [op |-> op, on |-> IF op \in Sets THEN live ELSE on, ask |-> ask,
        caps |-> Drives(op), got |-> Unheard,
        at |-> CASE op = "new" /\ live # None -> "leaving"
                 [] op \in Sets /\ live = None -> "failed"
                 [] OTHER -> "begun"]]
  /\ settings' = IF op = "mode" /\ live = None
                 THEN [settings EXCEPT !.change = [how |-> "refused", by |-> c]]
                 ELSE IF op = "option" /\ live = None THEN [settings EXCEPT !.refusal = c]
                 ELSE settings
  /\ told' = [told EXCEPT ![c] = IF op \in Sets /\ live = None THEN 1 ELSE 0]
  /\ UNCHANGED <<live, driven, auth, listing, notes, slots, memory, pending, wire, lost, heardIn>>

Waited == {slot.call : slot \in changing} \cup setting
Forget ==
  /\ loading' = {} /\ changing' = {} /\ setting' = {}
  /\ lost' = lost \cup Waited

\* `rpc.prepare`, and the refusal of it by a conversation already closed.
Prepare(c) ==
  /\ Runs(c) /\ call[c].at = "begun"
  /\ IF conn = "open"
     THEN /\ AtStep(c, "prepared") /\ pending' = pending \cup {c}
          /\ UNCHANGED <<settings, driven, told>>
     ELSE /\ AtStep(c, "failed")
          /\ driven' = [a \in Capabilities |-> IF a \in call[c].caps THEN "refused" ELSE driven[a]]
          /\ told' = [told EXCEPT ![c] = IF Owed(c) THEN 1 ELSE 0]
          /\ settings' = IF call[c].op \in Sets THEN SetRefused(settings, c) ELSE settings
          /\ UNCHANGED pending
  /\ UNCHANGED <<live, auth, listing, notes, slots, memory, wire, lost, heardIn>>

\* `registers`; a restore then leaves the live session.
Register(c) ==
  /\ Runs(c) /\ call[c].at = "prepared"
  /\ driving' = [driving EXCEPT ![c] = call[c].caps]
  /\ AtStep(c, IF call[c].op \in Restores /\ live # None THEN "leaving" ELSE "left")
  /\ UNCHANGED <<stores, slots, openedLast, conversed, pending, wire, history>>

\* `leave`, once its awaits are over: a new session then prepares its frame, a
\* restore discards the view and arms what it needs.
Leave(c) ==
  /\ Runs(c) /\ call[c].at = "leaving"
  /\ Forget
  /\ AtStep(c, IF call[c].op = "new" THEN "begun" ELSE "left")
  /\ UNCHANGED <<stores, opening, memory, pending, wire, told, heardIn>>

\* The slots the answer will be read with, armed before the frame goes out.
\* Each holds one call: a newer one replaces the older.
Arm(c) ==
  /\ Runs(c) /\ call[c].at = "left" /\ AtStep(c, "armed")
  /\ loading' = IF call[c].op = "load" THEN {[call |-> c, on |-> call[c].on, replayed |-> FALSE]}
                ELSE loading
  /\ opening' = IF call[c].op \in Opens
                THEN {[call |-> c, how |-> call[c].op, on |-> call[c].on, stated |-> None]} ELSE opening
  /\ changing' = IF call[c].op = "mode" THEN {[call |-> c, restated |-> FALSE]} ELSE changing
  /\ setting' = IF call[c].op = "option" THEN {c} ELSE setting
  /\ lost' = lost \cup {d \in Waited : call[d].op = call[c].op}
  /\ UNCHANGED <<stores, memory, pending, wire, told, heardIn>>

\* `rpc.send`: into the queue, unless the conversation closed meanwhile.
Send(c) ==
  /\ Runs(c) /\ call[c].at = "armed" /\ AtStep(c, "waiting")
  /\ asked' = IF conn = "open" THEN asked \cup {c} ELSE asked
  /\ UNCHANGED <<stores, slots, memory, pending, up, said, conn, history>>

\* A record is made of what the slots and the entry still hold for the call.
Told(c) == told' = [told EXCEPT ![c] = IF c \in Waited \/ driving[c] # {} THEN @ + 1 ELSE @]

Outcome(c) == call[c].got.how
Ready(c) == /\ Runs(c) /\ call[c].at = "waiting" /\ Outcome(c) # "none"

\* The call failed.  What the reader did not record is recorded here, under
\* the call's id.
Fail(c) ==
  /\ Ready(c) /\ Outcome(c) \notin {"ok", "garbled"}
  /\ Drove(c, "refused")
  /\ LET changed == {s \in changing : s.call = c}
         set == setting \cap {c}
     IN /\ changing' = changing \ changed /\ setting' = setting \ set
        /\ settings' = IF changed \cup set # {} THEN SetRefused(settings, c) ELSE settings
        /\ Told(c)
  /\ auth' = IF call[c].op = "login" THEN "refused" ELSE auth
  /\ AtStep(c, IF call[c].op \in Ends /\ Lists THEN "emptied" ELSE "failed")
  /\ UNCHANGED <<live, listing, notes, opening, loading, openedLast, conversed, pending, wire, lost, heardIn>>

\* An open was answered: the session goes live.  A session/new must read its
\* answer for that; a restore knew the session all along.
GoLive(c) ==
  /\ Ready(c) /\ call[c].op \in Opens /\ Outcome(c) \in {"ok", "garbled"}
  /\ LET opened == IF call[c].op = "new" THEN call[c].got.on ELSE call[c].on
     IN IF opened = None THEN AtStep(c, "failed") /\ UNCHANGED live
                         ELSE AtStep(c, "done") /\ live' = opened
  /\ UNCHANGED <<settings, driven, auth, listing, notes, slots, memory, pending, wire, history>>

\* A set was answered: the reader recorded it.
SetReturns(c) ==
  /\ Ready(c) /\ call[c].op \in Sets /\ Outcome(c) \in {"ok", "garbled"}
  /\ AtStep(c, "done")
  /\ UNCHANGED <<stores, slots, memory, pending, wire, history>>

\* A close or delete was accepted: where it was the live session's, nothing
\* waits on it any more, its settings go, and then so does it.
EndReturns(c) ==
  /\ Ready(c) /\ call[c].op \in Ends /\ Outcome(c) \in {"ok", "garbled"}
  /\ AtStep(c, IF live = call[c].on THEN "ending" ELSE IF Lists THEN "emptied" ELSE "done")
  /\ UNCHANGED <<stores, slots, memory, pending, wire, history>>
\* `ended`, after answer_cancelled's awaits.
Ended(c) ==
  /\ Runs(c) /\ call[c].at = "ending"
  /\ Forget /\ settings' = Empty /\ live' = None
  /\ AtStep(c, IF Lists THEN "emptied" ELSE "done")
  /\ UNCHANGED <<driven, auth, listing, notes, opening, memory, pending, wire, told, heardIn>>
\* `refresh_listing`: the inspector's own call, which drives nothing.
Relisting == [op |-> "list", on |-> None, ask |-> 0, caps |-> {}, at |-> "begun", got |-> Unheard]
Refresh(c) ==
  /\ Runs(c) /\ call[c].at = "emptied"
  /\ call' = [d \in Calls |-> IF d = c THEN [call[d] EXCEPT !.at = "done"]
                              ELSE IF d = Cardinality(Made) + 1 THEN Relisting
                              ELSE call[d]]
  /\ UNCHANGED <<stores, slots, memory, pending, wire, history>>

\* A page of the listing: folded where it is a continuation, and in place of
\* what was held where it is not.
ListReturns(c) ==
  /\ Ready(c) /\ call[c].op = "list" /\ Outcome(c) \in {"ok", "garbled"}
  /\ LET from == call[c].ask
         page == IF from = 0 THEN 1 ELSE from
     IN IF Outcome(c) = "garbled" THEN AtStep(c, "failed") /\ UNCHANGED listing
        ELSE /\ listing' = [pages |-> Append(IF from = 0 THEN <<>> ELSE listing.pages, page),
                            next |-> IF page < Pages THEN page + 1 ELSE 0]
             /\ AtStep(c, "done")
  /\ UNCHANGED <<live, settings, driven, auth, notes, slots, memory, pending, wire, history>>

\* `authenticate` and `logout`, after their answers.
LoginReturns(c) ==
  /\ Ready(c) /\ call[c].op \in {"login", "logout"} /\ Outcome(c) \in {"ok", "garbled"}
  /\ auth' = IF Outcome(c) = "ok" THEN IF call[c].op = "login" THEN "authenticated" ELSE "unasked"
             ELSE IF call[c].op = "login" THEN "refused" ELSE auth
  /\ AtStep(c, IF Outcome(c) = "ok" THEN "done" ELSE "failed")
  /\ UNCHANGED <<live, settings, driven, listing, notes, slots, memory, pending, wire, history>>

(***************************************************************************)
(* The agent.                                                              *)
(***************************************************************************)
\* It may name any session it ever held.
Minted == Held \cup {call[c].got.on : c \in Calls} \cup {call[c].on : c \in Calls}
          \cup {up[k].on : k \in DOMAIN up}

Replies(c) ==
  {[Unheard EXCEPT !.how = h] : h \in Answers \ {"ok"}}
  \cup IF call[c].op \in Opens
       THEN {[how |-> "ok", modes |-> setup.modes, opts |-> setup.opts, on |-> on] :
               setup \in Setups, on \in IF call[c].op = "new" THEN Sessions \ Minted ELSE {call[c].on}}
       ELSE {[Unheard EXCEPT !.how = "ok", !.opts = o] :
               o \in IF call[c].op = "option" THEN Options ELSE {None}}

Answer(c) ==
  /\ conn = "open" /\ c \in asked /\ Len(up) < MaxUp
  /\ asked' = asked \ {c}
  /\ \E reply \in Replies(c) :
       up' = Append(up, [kind |-> "answer", call |-> c, reply |-> reply, on |-> reply.on, says |-> None])
  /\ UNCHANGED <<stores, slots, memory, call, pending, said, conn, history>>

Announce(s, kind, what) ==
  /\ conn = "open" /\ said < MaxSaid /\ Len(up) < MaxUp /\ s \in Minted \ {None}
  /\ said' = said + 1
  /\ up' = Append(up, [kind |-> kind, call |-> 0, reply |-> Unheard, on |-> s, says |-> what])
  /\ UNCHANGED <<stores, slots, memory, call, pending, asked, conn, history>>

(***************************************************************************)
(* The reader.                                                             *)
(***************************************************************************)
\* `known_sessions`, `foreign`.
Known == ({live, openedLast} \cup {slot.on : slot \in opening}) \ {None}
Foreign(s) == Known # {} /\ s \notin Known
\* `opening_now`: the session is the one a call in flight is opening.
OpeningNow(s) == \E slot \in opening : slot.on = s

\* `now_in`: the mode a session is announced to be in.
NowIn(held, mode) ==
  [held EXCEPT !.change = IF @.how = "acknowledged" THEN Empty.change ELSE @,
               !.modes = IF @ = None THEN None ELSE mode]

Heads(kinds) == up # <<>> /\ Head(up).kind \in kinds /\ conn = "open"

\* History: the loads of its session, and the mode sets in it, an update is
\* heard by.  What is being opened is read with its answer instead.
HeardBy(u) ==
  {slot.call : slot \in {l \in loading : l.on = u.on}}
    \cup IF u.kind = "mode" /\ ~OpeningNow(u.on)
         THEN {c \in Calls : call[c].op = "mode" /\ call[c].on = u.on
                             /\ call[c].at \in {"armed", "waiting", "done"}}
         ELSE {}

\* What an update writes in the slots.
Replayed(l, u) == [l EXCEPT !.replayed = @ \/ l.on = u.on]
Restated(m) == [m EXCEPT !.restated = TRUE]
Stated(o, u) == [o EXCEPT !.stated = IF o.on = u.on THEN u.says ELSE @]

\* An update: shown as foreign and nothing more, or counted as the agent
\* talking in that session and applied to the settings.
ReadUpdateVariant ==
  /\ Heads(Updates) /\ up' = Tail(up)
  /\ LET u == Head(up)
     IN /\ heardIn' = heardIn \cup HeardBy(u)
        /\ IF Foreign(u.on) THEN UNCHANGED <<settings, loading, opening, changing, conversed>>
           ELSE /\ UNCHANGED loading
                /\ conversed' = IF u.on \in Known THEN conversed \cup {u.on} ELSE conversed
                /\ changing' = IF u.kind = "mode" THEN {Restated(m) : m \in changing}
                               ELSE changing
                /\ opening' = IF u.kind = "mode"
                              THEN {Stated(o, u) : o \in opening}
                              ELSE opening
                /\ settings' = IF u.kind = "talk" \/ OpeningNow(u.on) THEN settings
                               ELSE IF u.kind = "mode" THEN NowIn(settings, u.says)
                               ELSE [settings EXCEPT !.opts = u.says]
  /\ UNCHANGED <<live, driven, auth, listing, notes, setting, driving, openedLast, call, pending, asked, said, conn, told, lost>>
ReadUpdate ==
  /\ Heads(Updates) /\ up' = Tail(up)
  /\ LET u == Head(up)
     IN /\ heardIn' = heardIn \cup HeardBy(u)
        /\ IF Foreign(u.on) THEN UNCHANGED <<settings, loading, opening, changing, conversed>>
           ELSE /\ loading' = {Replayed(l, u) : l \in loading}
                /\ conversed' = IF u.on \in Known THEN conversed \cup {u.on} ELSE conversed
                /\ changing' = IF u.kind = "mode" THEN {Restated(m) : m \in changing}
                               ELSE changing
                /\ opening' = IF u.kind = "mode"
                              THEN {Stated(o, u) : o \in opening}
                              ELSE opening
                /\ settings' = IF u.kind = "talk" \/ OpeningNow(u.on) THEN settings
                               ELSE IF u.kind = "mode" THEN NowIn(settings, u.says)
                               ELSE [settings EXCEPT !.opts = u.says]
  /\ UNCHANGED <<live, driven, auth, listing, notes, setting, driving, openedLast, call, pending, asked, said, conn, told, lost>>

\* `published`: the answer outranks a mode replayed ahead of it.
Published(slot, reply) ==
  IF reply.how = "garbled" THEN Empty
  ELSE [Empty EXCEPT !.of = IF slot.how = "new" THEN reply.on ELSE slot.on,
                     !.modes = reply.modes, !.opts = reply.opts,
                     !.unoffered = IF reply.modes = None THEN slot.stated ELSE None]

\* What an open's answer writes (`opened`), a mode set's (`changed_mode`) and an
\* option set's (`set_answered`); the slots say which call each answers.
Opened(c, reply) ==
  \E slot \in opening :
    /\ slot.call = c /\ opening' = {} /\ UNCHANGED <<changing, setting>>
    /\ IF reply.how \in {"ok", "garbled"}
       THEN /\ settings' = Published(slot, reply)
            /\ LET on == IF slot.how = "new" THEN reply.on ELSE slot.on
               IN openedLast' = IF on = None THEN openedLast ELSE on
       ELSE UNCHANGED <<settings, openedLast>>
ChangedModeVariant(c, reply) ==
  \E slot \in changing :
    /\ slot.call = c /\ changing' = {} /\ UNCHANGED <<opening, setting, openedLast>>
    /\ settings' = IF reply.how \in {"ok", "garbled"}
                   THEN [settings EXCEPT !.change = [how |-> "acknowledged", by |-> c]]
                   ELSE SetRefused(settings, c)
ChangedMode(c, reply) ==
  \E slot \in changing :
    /\ slot.call = c /\ changing' = {} /\ UNCHANGED <<opening, setting, openedLast>>
    /\ settings' = IF reply.how \in {"ok", "garbled"}
                   THEN IF slot.restated THEN settings
                        ELSE [settings EXCEPT !.change = [how |-> "acknowledged", by |-> c]]
                   ELSE SetRefused(settings, c)
SetAnswered(c, reply) ==
  /\ c \in setting /\ setting' = {} /\ UNCHANGED <<opening, changing, openedLast>>
  /\ settings' = IF reply.how = "ok" THEN [settings EXCEPT !.opts = reply.opts, !.refusal = 0]
                 ELSE SetRefused(settings, c)
Slotted(c) == c \in setting \/ \E slot \in opening \cup changing : slot.call = c

\* `loaded`: a load that succeeded, replayed nothing, and was of a session
\* heard before.
Loaded(c, reply) ==
  /\ loading' = {slot \in loading : slot.call # c}
  /\ notes' = notes \cup {slot.call : slot \in {l \in loading :
                /\ l.call = c /\ reply.how \in {"ok", "garbled"}
                /\ ~l.replayed /\ l.on \in conversed}}

\* What the caller reads of its answer.
Handed(reply) == [Unheard EXCEPT !.how = reply.how, !.on = reply.on]

\* An answer: the stores first, then the caller.  The reader's stretch is one
\* step: the caller it answers waits for the end of it, and the others' steps
\* touch other slots.
ReadAnswer ==
  /\ Heads({"answer"}) /\ Head(up).reply.how # "dropped" /\ up' = Tail(up)
  /\ LET c == Head(up).call
         reply == Head(up).reply
     IN /\ auth' = IF reply.how = "auth" THEN "required" ELSE auth
        /\ Told(c)
        /\ Drove(c, IF reply.how \in {"ok", "garbled"} THEN "answered" ELSE "refused")
        /\ Loaded(c, reply)
        /\ \/ Opened(c, reply) \/ ChangedMode(c, reply) \/ SetAnswered(c, reply)
           \/ ~Slotted(c) /\ UNCHANGED <<settings, opening, changing, setting, openedLast>>
        /\ pending' = pending \ {c}
        /\ call' = [call EXCEPT ![c].got = IF c \in pending THEN Handed(reply) ELSE @]
  /\ UNCHANGED <<live, listing, conversed, asked, said, conn, lost, heardIn>>

\* `omitted`: an answer dropped for its length fails whatever waits for it.
ReadDropped ==
  /\ Heads({"answer"}) /\ Head(up).reply.how = "dropped" /\ up' = Tail(up)
  /\ LET c == Head(up).call
     IN /\ Drove(c, "refused") /\ Told(c)
        /\ loading' = {slot \in loading : slot.call # c}
        /\ opening' = {slot \in opening : slot.call # c}
        /\ changing' = {slot \in changing : slot.call # c}
        /\ setting' = setting \ {c}
        /\ settings' = IF changing' # changing \/ setting' # setting THEN SetRefused(settings, c)
                       ELSE settings
        /\ pending' = pending \ {c}
        /\ call' = [call EXCEPT ![c].got = IF c \in pending THEN Handed(Head(up).reply) ELSE @]
  /\ UNCHANGED <<live, auth, listing, notes, openedLast, conversed, asked, said, conn, lost, heardIn>>

\* The connection ends: `rpc.close` fails every pending call, and every slot
\* still armed and advertisement still driven is then refused.
Close ==
  /\ conn = "open" /\ conn' = "closing"
  /\ pending' = {} /\ asked' = {} /\ up' = <<>>
  /\ call' = [c \in Calls |-> IF c \in pending THEN [call[c] EXCEPT !.got.how = "gone"] ELSE call[c]]
  /\ UNCHANGED <<stores, slots, memory, said, history>>
Disconnected ==
  /\ conn = "closing" /\ conn' = "down"
  /\ loading' = {} /\ opening' = {} /\ changing' = {} /\ setting' = {}
  /\ settings' = [settings EXCEPT
       !.change = IF changing = {} THEN @
                  ELSE [how |-> "refused", by |-> (CHOOSE slot \in changing : TRUE).call],
       !.refusal = IF setting = {} THEN @ ELSE CHOOSE c \in setting : TRUE]
  /\ driven' = [a \in Capabilities |-> IF \E c \in Calls : a \in driving[c] THEN "refused" ELSE driven[a]]
  /\ told' = [c \in Calls |-> IF c \in Waited \/ driving[c] # {} THEN told[c] + 1 ELSE told[c]]
  /\ driving' = [c \in Calls |-> {}]
  /\ UNCHANGED <<live, auth, listing, notes, openedLast, conversed, call, pending, asked, up, said, lost, heardIn>>

Asks(c) ==
  /\ c = Cardinality(Made) + 1 /\ Runs(c)
  /\ \E op \in Ops[c] :
       \E on \in IF op \in Restores \cup Ends THEN Minted \ {None} ELSE {None},
          ask \in IF op = "list" THEN {0, listing.next} ELSE {0} : Begin(c, op, on, ask)

Next ==
  \/ \E c \in Calls : \/ Asks(c) \/ Prepare(c) \/ Register(c) \/ Leave(c) \/ Arm(c) \/ Send(c)
                      \/ Fail(c) \/ GoLive(c) \/ SetReturns(c) \/ EndReturns(c) \/ Ended(c)
                      \/ Refresh(c) \/ ListReturns(c) \/ LoginReturns(c) \/ Answer(c)
  \/ \E s \in Sessions :
       \/ Announce(s, "talk", None)
       \/ \E m \in Modes : Announce(s, "mode", m)
       \/ \E o \in Options : Announce(s, "options", o)
  \/ ReadUpdate \/ ReadAnswer \/ ReadDropped \/ Close \/ Disconnected

Spec == Init /\ [][Next]_vars

-----------------------------------------------------------------------------
Over(c) == call[c].at \in {"ending", "emptied", "done", "failed"}

\* What a call drove or set has its outcome recorded once, whoever sees the
\* end of it first (its caller, the reader, a dropped answer, the teardown),
\* unless a newer set or a session left behind took its slot
\* (`drove`, `drive_failed`, `changed_mode`, `mode_change_failed`, `omitted`,
\* `disconnected`).
SettledOnce ==
  \A c \in Calls :
    /\ told[c] <= 1
    /\ Over(c) /\ Owed(c) /\ c \notin lost => told[c] = 1

\* The outcome of a set is on show only while the settings of the session it
\* was sent for are ("A setter's answer for the old session must not land on
\* the new session's settings", lifecycle.rs).
Shown == settings.change.by
SetsLandOnTheirOwn ==
  settings.change.how = "acknowledged" /\ settings.of # None => call[Shown].on = settings.of

\* An acknowledgement is on show only until the agent says which mode the
\* session is in, whichever of answer and announcement crosses first
\* (`ChangingMode::restated`, `now_in`).
RestatementStands ==
  settings.change.how = "acknowledged" /\ call[Shown].on = settings.of => Shown \notin heardIn

\* A load annotated as having replayed nothing heard nothing of its session
\* between its frame and its answer ("can only make the rule quieter, never
\* wrong", rules.rs).
ReplayNotesAreTrue == notes \cap heardIn = {}

\* With nothing in flight, the settings on show are the live session's, or
\* nobody's.
AtRest == up = <<>> /\ \A c \in Made : call[c].at \in {"done", "failed"}
SettingsFollowLive ==
  AtRest /\ live # None /\ settings.of # None => settings.of = live

\* The settings on show are the agent's last word on the session they are of.
SettingsAreTrue == TypeOK /\ RestatementStands /\ SettingsFollowLive
=============================================================================
