-------------------------------- MODULE Rail --------------------------------
(***************************************************************************)
(* The Details rail: the connection's card, the two accounts, and the live *)
(* session's settings with what became of setting them (crates/app/src/    *)
(* rail.rs, session_settings.rs, app/settings.rs), over core's settings    *)
(* and the one slot each setter keeps for its answer (core session_settings*)
(* .rs, client/settings.rs).                                               *)
(***************************************************************************)
EXTENDS Naturals, Sequences, FiniteSets

CONSTANTS
  Modes,          \* mode ids
  Setups,         \* what an answer that opens a session publishes: [modes, options]
  Lists,          \* config options as an agent states them: [id, kind, current, offers]
  MaxCalls,       \* bound: settings asked to be set
  MaxStates,      \* bound: times the agent states a mode or its options
  MaxSessions,    \* bound: sessions opened
  MaxLooks        \* bound: tabs and sheets

None == "none"
Values == {"x", "y", "z", "true", "false"}
Opposite == [v \in Values |-> IF v = "true" THEN "false" ELSE IF v = "false" THEN "true" ELSE v]

VARIABLES
  agent,         \* none, launching, up, stopping or down
  sessions, live,
  modes,         \* what the agent published: <<>> or <<[offered, current]>>
  options,       \* <<>>, or the list in a sequence of one: an empty list is a list
  modeChange,    \* what became of the last mode set
  refusal,       \* why the last option set did not happen
  unoffered,     \* a mode stated before an answer that published none
  changing, setting,   \* the slots: the call awaited in each
  flights,       \* the calls a press waits for: [n, kind, of]
  calls, states, looks,
  tab, wide,     \* the rail's tab; the accounts open wide over the screens
  chosen,        \* what the drawn native select of a grouped option holds
  picked,        \* the session in which it was picked by hand, 0 for none
  lastStated,    \* how many calls were out when the agent last stated a mode
  lastOption     \* what became of this session's last option set

slots == <<changing, setting>>
surface == <<modes, options, modeChange, refusal, unoffered>>
seen == <<lastStated, lastOption>>
looking == <<looks, tab, wide>>
select == <<chosen, picked>>
vars == <<agent, sessions, live, surface, slots, flights, calls, states, looking, select, seen>>

TypeOK ==
  /\ agent \in {"none", "launching", "up", "stopping", "down"}
  /\ sessions \in 0..MaxSessions /\ live \in 0..sessions
  /\ modes = <<>> \/ modes[1] \in [offered : SUBSET Modes, current : Modes]
  /\ options = <<>> \/ options[1] \in Lists
  /\ modeChange = <<>> \/ modeChange[1].how \in {"acknowledged", "refused"}
  /\ refusal = <<>> \/ refusal[1].value \in Values
  /\ unoffered \in Modes \cup {None}
  /\ changing = <<>> \/ changing[1].n \in 1..calls
  /\ setting = <<>> \/ setting[1].n \in 1..calls
  /\ \A f \in flights : f.n \in 1..calls /\ f.of \in 0..sessions
  /\ calls \in 0..MaxCalls /\ states \in 0..MaxStates /\ looks \in 0..MaxLooks
  /\ tab \in {"session", "capabilities"} /\ wide \in BOOLEAN
  /\ lastOption \in {None, "answered", "refused"}
  /\ chosen \in Values \cup {None} /\ picked \in 0..sessions

Connected == agent = "up"

Init ==
  /\ agent = "none" /\ sessions = 0 /\ live = 0
  /\ modes = <<>> /\ options = <<>> /\ modeChange = <<>> /\ refusal = <<>>
  /\ unoffered = None /\ changing = <<>> /\ setting = <<>> /\ flights = {}
  /\ calls = 0 /\ states = 0 /\ looks = 0 /\ tab = "session" /\ wide = FALSE
  /\ lastStated = 0 /\ lastOption = None /\ chosen = None /\ picked = 0

(***************************************************************************)
(* The card, and what the rail holds.                                      *)
(***************************************************************************)
\* What its buttons do; the fields are a way on whatever runs.
CardOffers ==
  {"configure"} \cup (IF Connected THEN {"disconnect"} ELSE {})
  \cup (IF agent \in {"up", "stopping", "down"} THEN {"restart"} ELSE {})

\* Before an agent there is nothing for the tabs to say.
Active == agent \in {"up", "stopping", "down"} \/ live # 0

\* Where the two accounts' rows are drawn.
Accounts ==
  (IF Active /\ tab = "capabilities" /\ ~wide THEN {"rail"} ELSE {})
  \cup (IF wide THEN {"sheet"} ELSE {})

\* A launch leaves the session; its settings go with the connection.
Cleared ==
  /\ modes' = <<>> /\ options' = <<>> /\ modeChange' = <<>> /\ refusal' = <<>>
  /\ unoffered' = None /\ changing' = <<>> /\ setting' = <<>> /\ lastOption' = None

Launch ==
  /\ agent # "launching" /\ CardOffers \cap {"configure", "restart"} # {}
  /\ sessions < MaxSessions
  /\ agent' = "launching" /\ live' = 0 /\ Cleared
  /\ UNCHANGED <<sessions, flights, calls, states, looking, lastStated>>

Launched ==
  /\ agent = "launching" /\ agent' \in {"up", "down"}
  /\ UNCHANGED <<sessions, live, surface, slots, flights, calls, states, looking, seen>>

Disconnect ==
  /\ "disconnect" \in CardOffers /\ agent' = "stopping"
  /\ UNCHANGED <<sessions, live, surface, slots, flights, calls, states, looking, seen>>

\* The agent ends, or the stop is over.
Ends ==
  /\ agent \in {"up", "stopping"} /\ agent' = "down"
  /\ UNCHANGED <<sessions, live, surface, slots, flights, calls, states, looking, seen>>

Look(t) ==
  /\ Active /\ looks < MaxLooks /\ looks' = looks + 1 /\ tab' = t
  /\ UNCHANGED <<agent, sessions, live, surface, slots, flights, calls, states, wide, seen>>

OpenWide ==
  /\ "rail" \in Accounts /\ looks < MaxLooks /\ looks' = looks + 1 /\ wide' = TRUE
  /\ UNCHANGED <<agent, sessions, live, surface, slots, flights, calls, states, tab, seen>>

\* Its button, Escape or the backdrop.
CloseWide ==
  /\ wide /\ wide' = FALSE
  /\ UNCHANGED <<agent, sessions, live, surface, slots, flights, calls, states, looks, tab, seen>>

(***************************************************************************)
(* What the agent says.                                                    *)
(***************************************************************************)
\* A session opens: its answer replaces what was held, and a mode stated before
\* it is kept where it published none.
Opens(setup, stated) ==
  /\ Connected /\ sessions < MaxSessions
  /\ sessions' = sessions + 1 /\ live' = sessions + 1
  /\ modes' = setup.modes /\ options' = setup.options
  /\ modeChange' = <<>> /\ refusal' = <<>>
  /\ unoffered' = IF setup.modes = <<>> THEN stated ELSE None
  /\ changing' = <<>> /\ setting' = <<>> /\ lastOption' = None
  /\ UNCHANGED <<agent, flights, calls, states, looking, lastStated>>

\* `current_mode_update`: it settles an acknowledgement, not a refusal, and moves
\* the mode of an agent that published some.
NowIn(m) ==
  /\ modes' = (IF modes = <<>> THEN modes ELSE <<[modes[1] EXCEPT !.current = m]>>)
  /\ modeChange' = SelectSeq(modeChange, LAMBDA c : c.how # "acknowledged")

StatesMode(m) ==
  /\ Connected /\ live # 0 /\ states < MaxStates /\ states' = states + 1
  /\ NowIn(m) /\ lastStated' = calls
  /\ changing' = IF changing = <<>> THEN <<>> ELSE <<[changing[1] EXCEPT !.restated = TRUE]>>
  /\ UNCHANGED <<agent, sessions, live, options, refusal, unoffered, setting, flights, calls>>
  /\ UNCHANGED <<looking, lastOption>>

\* `config_option_update`: the whole list, which a refusal outlives.
StatesOptions(list) ==
  /\ Connected /\ live # 0 /\ states < MaxStates /\ states' = states + 1
  /\ options' = <<list>>
  /\ UNCHANGED <<agent, sessions, live, modes, modeChange, refusal, unoffered, slots>>
  /\ UNCHANGED <<flights, calls, looking, seen>>

(***************************************************************************)
(* Setting.  The window counts what it waits for, and a session opened     *)
(* since counts for nothing; core keeps a slot for the answer of each      *)
(* setter's last call.                                                     *)
(***************************************************************************)
Waits(kind) == {f \in flights : f.kind = kind /\ f.of = live}

\* The rows of the surface; the current one is a control too.
Row(i) == options[1][i]
OptionRows == IF options = <<>> THEN {} ELSE DOMAIN options[1]

Sends(kind) ==
  /\ calls < MaxCalls /\ calls' = calls + 1
  /\ flights' = flights \cup {[n |-> calls + 1, kind |-> kind, of |-> live]}

\* A mode's row, while no answer is awaited; the composer's cycle and the palette
\* do not wait.
SetMode(m, waiting) ==
  /\ Connected /\ live # 0 /\ modes # <<>> /\ m \in modes[1].offered
  /\ waiting => tab = "session" /\ Waits("mode") = {}
  /\ Sends("mode")
  /\ changing' = <<[n |-> calls + 1, mode |-> m, restated |-> FALSE]>>
  /\ UNCHANGED <<agent, sessions, live, surface, setting, states, looking, seen>>

\* An option's control: every one yields until the answer is there.
Available == Connected /\ Waits("option") = {}

\* The native select of an option whose values are grouped holds what was picked,
\* or what was current when it was drawn; a value no longer offered gives way.
Grouped == {i \in OptionRows : Row(i).kind = "grouped"}
First(row) ==
  IF \E j \in DOMAIN row.offers : row.offers[j] = row.current THEN row.current ELSE row.offers[1]
Shown(row) == IF \E j \in DOMAIN row.offers : row.offers[j] = chosen THEN chosen ELSE First(row)

\* It is kept by its key over a restatement, and is another session's anew.
SelectsDrawn == IF live = 0 \/ tab # "session" THEN {} ELSE Grouped
Redraw ==
  IF SelectsDrawn' = {} THEN chosen' = None /\ picked' = 0
  ELSE IF chosen # None /\ live' = live THEN UNCHANGED select
  ELSE chosen' = First(Row(CHOOSE i \in Grouped : TRUE))' /\ picked' = 0

Pick(i, v) ==
  /\ i \in SelectsDrawn /\ \E j \in DOMAIN Row(i).offers : Row(i).offers[j] = v
  /\ v # Shown(Row(i)) /\ chosen' = v /\ picked' = live
  /\ UNCHANGED <<agent, sessions, live, surface, slots, flights, calls, states, looking, seen>>

\* A chip's value, the other of a boolean's two, or what the select shows: *Set*
\* sends it, the current value too.
ValuesOf(row) ==
  CASE row.kind = "boolean" -> {Opposite[row.current]}
    [] row.kind = "select" -> {row.offers[j] : j \in DOMAIN row.offers}
    [] row.kind = "grouped" -> {Shown(row)}

SetOption(i, v) ==
  /\ live # 0 /\ tab = "session" /\ Available /\ i \in OptionRows /\ v \in ValuesOf(Row(i))
  /\ Sends("option")
  /\ setting' = <<[n |-> calls + 1, option |-> Row(i).id, value |-> v]>>
  /\ UNCHANGED <<agent, sessions, live, surface, changing, states, looking, seen>>

\* The answers: what the slot still awaits is applied, and the call is over.
ModeAnswered(f, outcome) ==
  /\ f \in flights /\ f.kind = "mode" /\ Connected /\ flights' = flights \ {f}
  /\ IF changing = <<>> \/ changing[1].n # f.n
     THEN UNCHANGED <<changing, modeChange>>
     ELSE /\ changing' = <<>>
          /\ modeChange' =
               IF outcome = "refused"
               THEN <<[how |-> "refused", mode |-> changing[1].mode, n |-> f.n]>>
               ELSE IF changing[1].restated THEN modeChange
               ELSE <<[how |-> "acknowledged", mode |-> changing[1].mode, n |-> f.n]>>
  /\ UNCHANGED <<agent, sessions, live, modes, options, refusal, unoffered, setting>>
  /\ UNCHANGED <<calls, states, looking, seen>>

\* An answered set restates the whole list and settles a refusal.
AnsweredWith(list) == options' = <<list>> /\ refusal' = <<>>
RefusedWith(set) ==
  refusal' = <<[option |-> set.option, value |-> set.value]>> /\ UNCHANGED options

OptionAnswered(f, list, outcome) ==
  /\ f \in flights /\ f.kind = "option" /\ Connected /\ flights' = flights \ {f}
  /\ IF setting = <<>> \/ setting[1].n # f.n
     THEN UNCHANGED <<setting, options, refusal>>
     ELSE /\ setting' = <<>>
          /\ IF outcome = "refused" THEN RefusedWith(setting[1]) ELSE AnsweredWith(list)
  /\ lastOption' = IF f.of = live THEN outcome ELSE lastOption
  /\ UNCHANGED <<agent, sessions, live, modes, modeChange, unoffered, changing>>
  /\ UNCHANGED <<calls, states, looking, lastStated>>

\* The connection ends under a call: it failed, and so did the set.
CallLost(f) ==
  /\ f \in flights /\ agent \in {"stopping", "down", "launching"} /\ flights' = flights \ {f}
  /\ IF f.kind = "mode"
     THEN IF changing # <<>> /\ changing[1].n = f.n
          THEN /\ changing' = <<>> /\ UNCHANGED <<setting, refusal, lastOption>>
               /\ modeChange' = <<[how |-> "refused", mode |-> changing[1].mode, n |-> f.n]>>
          ELSE UNCHANGED <<slots, modeChange, refusal, lastOption>>
     ELSE IF setting # <<>> /\ setting[1].n = f.n
          THEN /\ setting' = <<>> /\ UNCHANGED <<changing, modeChange>>
               /\ refusal' = <<[option |-> setting[1].option, value |-> setting[1].value]>>
               /\ lastOption' = "refused"
          ELSE UNCHANGED <<slots, modeChange, refusal, lastOption>>
  /\ UNCHANGED <<agent, sessions, live, modes, options, unoffered, calls, states, looking>>
  /\ UNCHANGED lastStated

Step ==
  \/ Launch \/ Launched \/ Disconnect \/ Ends \/ OpenWide \/ CloseWide
  \/ \E t \in {"session", "capabilities"} : Look(t)
  \/ \E setup \in Setups, stated \in Modes \cup {None} : Opens(setup, stated)
  \/ \E m \in Modes : StatesMode(m)
  \/ \E m \in Modes, waiting \in BOOLEAN : SetMode(m, waiting)
  \/ \E list \in Lists : StatesOptions(list)
  \/ \E i \in OptionRows, v \in Values : SetOption(i, v)
  \/ \E f \in flights, outcome \in {"answered", "refused"} : ModeAnswered(f, outcome)
  \/ \E f \in flights, list \in Lists, outcome \in {"answered", "refused"} :
       OptionAnswered(f, list, outcome)
  \/ \E f \in flights : CallLost(f)

Next ==
  \/ Step /\ Redraw
  \/ \E i \in Grouped, v \in Values : Pick(i, v)

Spec == Init /\ [][Next]_vars

(***************************************************************************)
(* What the surface says.                                                  *)
(***************************************************************************)
\* The mode is a pressed row, or said in words where no offered row is it.
ModeSaid ==
  IF modes = <<>> THEN {}
  ELSE {m \in modes[1].offered : m = modes[1].current}
       \cup (IF modes[1].current \notin modes[1].offered THEN {"in words"} ELSE {})

\* A refusal goes under the first row of its option, or beside the surface.
RefusedRows ==
  {i \in OptionRows : /\ Row(i).id = refusal[1].option
                      /\ \A j \in 1..(i - 1) : Row(j).id # Row(i).id}
RefusalSaid == IF refusal = <<>> THEN {} ELSE IF RefusedRows = {} THEN {0} ELSE RefusedRows
-----------------------------------------------------------------------------
\* What became of this session's last option set is what the surface says: a
\* refusal is said once, wherever the agent's lists have put its row since, and
\* is gone when a later set was answered.
RefusalIsSaidOnce ==
  /\ refusal # <<>> <=> lastOption = "refused"
  /\ Cardinality(RefusalSaid) = IF refusal = <<>> THEN 0 ELSE 1
  /\ Cardinality(ModeSaid) = IF modes = <<>> THEN 0 ELSE 1

\* A mode set said to be "acknowledged and not restated" was: the agent has said
\* nothing of its mode since that set went out.
AcknowledgedIsNotRestated ==
  \A i \in DOMAIN modeChange :
    modeChange[i].how = "acknowledged" => lastStated < modeChange[i].n

\* One option set is out at a time for the session on the screen, and the slot
\* awaits it.
OneOptionAtATime ==
  /\ Cardinality(Waits("option")) <= 1
  /\ live # 0 => \A f \in Waits("option") : setting # <<>> /\ setting[1].n = f.n

\* The accounts are drawn once, in the rail or over the screens.
AccountsAreDrawnOnce == Cardinality(Accounts) <= 1

\* A value picked and not sent does not leak into another session.
PicksStayInTheirSession == picked # 0 => picked = live

RailIsSafe ==
  TypeOK /\ RefusalIsSaidOnce /\ AcknowledgedIsNotRestated /\ OneOptionAtATime
  /\ AccountsAreDrawnOnce /\ PicksStayInTheirSession

\* core session_settings.rs:31-33: `mode_change` is "What became of the last
\* `session/set_mode` sent in this session". Set again from the composer or the
\* palette while an answer is awaited, the slot is the later call's: the earlier
\* one's refusal is recorded nowhere.
ModeRefusalsAreKept ==
  [][\A f \in flights :
       ModeAnswered(f, "refused") /\ f.of = live =>
         modeChange' # <<>> /\ modeChange'[1].n = f.n]_vars

\* session_settings.rs:504-506: choosing in the native select "prepares the ask".
\* Where nobody chose, the select still shows what was current when it was drawn,
\* after the agent has restated the option with another value.
UnpickedShowsTheCurrent ==
  picked = 0 => \A i \in SelectsDrawn : Shown(Row(i)) = First(Row(i))
=============================================================================
