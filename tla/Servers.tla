------------------------------ MODULE Servers -------------------------------
(***************************************************************************)
(* The MCP servers typed in before a session opens (crates/app/src/mcp.rs, *)
(* crates/core/src/mcp.rs): one draft, edited by position in the launch    *)
(* dialog and in the Sessions dialog, whose rows keep an identity through  *)
(* every move, and whose findings are said once the reader left a field or *)
(* tried to use it.  Arguments, variables and headers are edited alike:    *)
(* `rows` stands for each of them, a row's text told apart by the identity *)
(* it was typed under.                                                     *)
(***************************************************************************)
EXTENDS Naturals, Sequences, FiniteSets, SequencesExt

CONSTANTS
  MaxServers, MaxRows,   \* bounds: servers, and rows of one
  MaxActs                \* bound: edits and presses

VARIABLES
  draft,          \* the draft, which every edit also hands to core
  next,           \* NEXT_ROW
  drawn,          \* the draft as the editor last drew it
  wanted,         \* Focusable.pending, and whether nothing was edited since
  agent,          \* core: the transports the agent advertised, none before it described itself
  capabilities,   \* the signal that follows it
  attempted, touched,
  at,             \* the dialog that is open
  task, snapshot, \* the launch under way, and the draft it took
  refused,        \* the last opening refused: where that is said, of which draft
  acts            \* bound

editor == <<draft, next, drawn, wanted>>
opening == <<task, snapshot>>
vars == <<editor, agent, capabilities, attempted, touched, at, opening, refused, acts>>

Unknown == {}
Advertised == {{"stdio"}, {"stdio", "http"}}     \* stdio needs no advertising
Blank == [id |-> 0, name |-> FALSE, transport |-> "stdio", command |-> FALSE, url |-> FALSE,
          rows |-> <<>>, ids |-> <<>>]
NoFocus == [to |-> "none", id |-> 0, of |-> 0, fresh |-> FALSE]
NotRefused == [by |-> "none", draft |-> <<>>, caps |-> Unknown]

Ids(d) == [i \in DOMAIN d |-> d[i].id]

\* Every identity given: of a server, or of a row.
Given(d) == Ids(d) \o FlattenSeq([i \in DOMAIN d |-> d[i].ids])

TypeOK ==
  /\ \A i \in DOMAIN draft : /\ Len(draft[i].rows) <= MaxRows
                             /\ draft[i].transport \in {"stdio", "http"}
  /\ Len(draft) <= MaxServers /\ next \in Nat \ {0}
  /\ {agent, capabilities} \subseteq Advertised \cup {Unknown}
  /\ at \in {"none", "launch", "sessions"} /\ task \in {"none", "waits", "starts"}
  /\ attempted \in BOOLEAN /\ touched \subseteq {"launch", "sessions"} \X (1..next) \X {"name", "command", "url"}

Init ==
  /\ draft = <<>> /\ next = 1 /\ drawn = <<>> /\ wanted = NoFocus
  /\ agent = Unknown /\ capabilities = Unknown
  /\ attempted = FALSE /\ touched = {} /\ at = "launch"
  /\ task = "none" /\ snapshot = <<>> /\ refused = NotRefused /\ acts = 0

(***************************************************************************)
(* Findings.                                                               *)
(***************************************************************************)
Findings(d) ==
  {<<i, "name">> : i \in {j \in DOMAIN d : ~d[j].name}}
    \cup {<<i, "command">> : i \in {j \in DOMAIN d : d[j].transport = "stdio" /\ ~d[j].command}}
    \cup {<<i, "url">> : i \in {j \in DOMAIN d : d[j].transport # "stdio" /\ ~d[j].url}}

\* Before `initialize` answered a draft may name any transport.
FindingsFor(d, caps) ==
  Findings(d) \cup
    {<<i, "transport">> : i \in {j \in DOMAIN d : caps # Unknown /\ d[j].transport \notin caps}}

\* The launch dialog is about the next agent, whatever this one advertised.
EditorCaps == IF at = "launch" THEN Unknown ELSE capabilities

Shown == {f \in FindingsFor(draft, EditorCaps) :
            f[2] = "transport" \/ attempted \/ <<at, draft[f[1]].id, f[2]>> \in touched}

(***************************************************************************)
(* Edits.  What is pressed was drawn some time ago, so its position may be *)
(* another row's by now.                                                   *)
(***************************************************************************)
Filled(id) == IF id = 0 THEN next ELSE id

\* Gives what has no identity the next one: a change makes one such gap at most.
Identified(d) ==
  [i \in DOMAIN d |->
    [d[i] EXCEPT !.id = Filled(@),
                 !.ids = [j \in DOMAIN d[i].rows |-> IF j \in DOMAIN @ THEN Filled(@[j]) ELSE next],
                 !.rows = [j \in DOMAIN @ |-> Filled(@[j])]]]

Edit(d, focus) ==
  /\ acts < MaxActs /\ at # "none" /\ acts' = acts + 1
  /\ draft' = Identified(d) /\ next' = next + 1
  /\ wanted' = focus
  /\ UNCHANGED <<drawn, agent, capabilities, attempted, touched, at, opening, refused>>

InPlace(d) == Edit(d, [wanted EXCEPT !.fresh = FALSE])

AddServer == Len(draft) < MaxServers /\ InPlace(Append(draft, Blank))

\* An index that is gone changes nothing.
AddRow(i) ==
  /\ i \in DOMAIN draft => Len(draft[i].rows) < MaxRows
  /\ InPlace(IF i \in DOMAIN draft THEN [draft EXCEPT ![i].rows = Append(@, 0)] ELSE draft)

Write(i, field) ==
  \E well \in BOOLEAN :
    InPlace(IF i \in DOMAIN draft THEN [draft EXCEPT ![i][field] = well] ELSE draft)

\* A transport the agent did not advertise cannot be chosen where that is known.
Transport(i) ==
  \E t \in {"stdio", "http"} :
    /\ EditorCaps # Unknown => t \in EditorCaps
    /\ InPlace(IF i \in DOMAIN draft THEN [draft EXCEPT ![i].transport = t] ELSE draft)

Rearrange(list, i, action) ==
  IF i \notin DOMAIN list THEN list
  ELSE IF action = "remove" THEN RemoveAt(list, i)
  ELSE IF action = "up" /\ i > 1 THEN [list EXCEPT ![i] = list[i - 1], ![i - 1] = list[i]]
  ELSE IF action = "down" /\ i < Len(list) THEN [list EXCEPT ![i] = list[i + 1], ![i + 1] = list[i]]
  ELSE list

\* The moved row's own control in the direction it can still go, or its remove;
\* after a removal the nearest survivor's, or the list's add.
FocusAfter(ids, i, action, of) ==
  LET Control(id, to) == [to |-> to, id |-> id, of |-> of, fresh |-> drawn = draft]
  IN CASE action = "up" -> Control(ids[i], IF i > 2 THEN "up" ELSE "remove")
       [] action = "down" -> Control(ids[i], IF i + 1 < Len(ids) THEN "down" ELSE "remove")
       [] action = "remove" ->
            IF i < Len(ids) THEN Control(ids[i + 1], "remove")
            ELSE IF i > 1 THEN Control(ids[i - 1], "remove") ELSE Control(0, "add")

\* A row's buttons: up and down are disabled at the ends of the list.
Enabled(ids, i, action) ==
  (action = "up" => i > 1) /\ (action = "down" => i < Len(ids))

Press(i, action) ==
  /\ i \in DOMAIN drawn /\ Enabled(Ids(drawn), i, action)
  /\ Edit(Rearrange(draft, i, action), FocusAfter(Ids(drawn), i, action, 0))

PressRow(i, j, action) ==
  /\ i \in DOMAIN drawn /\ j \in DOMAIN drawn[i].ids /\ Enabled(drawn[i].ids, j, action)
  /\ Edit(IF i \in DOMAIN draft
          THEN [draft EXCEPT ![i].rows = Rearrange(@, j, action),
                             ![i].ids = Rearrange(@, j, action)]
          ELSE draft,
          FocusAfter(drawn[i].ids, j, action, drawn[i].id))

\* Leaving a field says what is wrong with it from then on.
Leave(i, field) ==
  /\ i \in DOMAIN drawn /\ at # "none"
  /\ touched' = touched \cup {<<at, drawn[i].id, field>>}
  /\ UNCHANGED <<editor, agent, capabilities, attempted, at, opening, refused, acts>>

Redraw ==
  /\ drawn # draft \/ wanted # NoFocus
  /\ drawn' = draft /\ wanted' = NoFocus
  /\ UNCHANGED <<draft, next, agent, capabilities, attempted, touched, at, opening, refused, acts>>

(***************************************************************************)
(* Using the draft.                                                        *)
(***************************************************************************)
\* The launch dialog's button and a recent row's: refused at once where the
\* draft is not valid, in the dialog.
AttemptLaunch ==
  /\ at = "launch" /\ task = "none" /\ acts < MaxActs /\ acts' = acts + 1
  /\ attempted' = TRUE
  /\ IF Findings(draft) = {}
     THEN task' = "waits" /\ refused' = NotRefused
     ELSE UNCHANGED task /\ refused' = [by |-> "launch", draft |-> draft, caps |-> Unknown]
  /\ UNCHANGED <<editor, agent, capabilities, touched, at, snapshot>>

\* `start` takes the draft as it is by then, and checks it before it connects.
Start ==
  /\ task = "waits"
  /\ snapshot' = draft
  /\ IF Findings(draft) = {}
     THEN task' = "starts" /\ agent' = Unknown /\ UNCHANGED <<at, refused>>
     ELSE /\ task' = "none" /\ UNCHANGED agent
          /\ IF agent = Unknown
             THEN at' = "launch" /\ refused' = [by |-> "launch", draft |-> draft, caps |-> Unknown]
             ELSE at' = "sessions" /\ refused' = [by |-> "sessions", draft |-> draft, caps |-> agent]
  /\ UNCHANGED <<editor, capabilities, attempted, touched, acts>>

\* `correct_in_sessions`.
Correct(d, caps) ==
  attempted' = TRUE /\ at' = "sessions" /\ refused' = [by |-> "sessions", draft |-> d, caps |-> caps]

\* The agent describes itself, and the session opens with what the launch took;
\* the window learns what it advertised on its own.
Describes ==
  /\ task = "starts" /\ task' = "none"
  /\ \E caps \in Advertised :
       /\ agent' = caps
       /\ IF FindingsFor(snapshot, caps) = {}
          THEN at' = "none" /\ UNCHANGED <<attempted, refused>>
          ELSE Correct(snapshot, caps)
  /\ UNCHANGED <<editor, capabilities, touched, snapshot, acts>>

Watch ==
  /\ capabilities # agent /\ capabilities' = agent
  /\ UNCHANGED <<editor, agent, attempted, touched, at, opening, refused, acts>>

\* Another session, opened, loaded or resumed: judged by what the window knows.
\* Core judges again by what the agent said, and its refusal is a notice.
ReadyToOpen ==
  /\ task = "none" /\ agent # Unknown /\ acts < MaxActs /\ acts' = acts + 1
  /\ IF FindingsFor(draft, capabilities) = {}
     THEN UNCHANGED <<attempted, at, refused>>
     ELSE Correct(draft, capabilities)
  /\ UNCHANGED <<editor, agent, capabilities, touched, opening>>

Turn(to) ==
  /\ at # to /\ acts < MaxActs /\ acts' = acts + 1 /\ at' = to
  /\ refused' = NotRefused
  /\ UNCHANGED <<editor, agent, capabilities, attempted, touched, opening>>

Next ==
  \/ AddServer \/ Redraw \/ AttemptLaunch \/ Start \/ Describes \/ Watch \/ ReadyToOpen
  \/ \E to \in {"none", "launch", "sessions"} : Turn(to)
  \/ \E i \in DOMAIN drawn :
       \/ AddRow(i) \/ Transport(i)
       \/ \E field \in {"name", "command", "url"} : Write(i, field) \/ Leave(i, field)
       \/ \E action \in {"up", "down", "remove"} :
            Press(i, action) \/ \E j \in 1..MaxRows : PressRow(i, j, action)

Spec == Init /\ [][Next]_vars

-----------------------------------------------------------------------------
\* No identity is given twice, and a row's text stays under the one it was typed
\* under, whatever was moved or removed since (core/src/mcp.rs:11-15).
RowsKeepTheirIds ==
  /\ IsInjective(Given(draft))
  /\ \A i \in DOMAIN draft : draft[i].rows = draft[i].ids

\* Focus goes to a control that is there and can be pressed (mcp.rs `focus_after`).
FocusSurvives ==
  wanted.fresh =>
    IF wanted.to = "add"
    THEN IF wanted.of = 0 THEN draft = <<>>
         ELSE \E i \in DOMAIN draft : draft[i].id = wanted.of /\ draft[i].ids = <<>>
    ELSE \E list \in {Ids(draft)} \cup {draft[i].ids : i \in DOMAIN draft} :
           \E j \in DOMAIN list : list[j] = wanted.id /\ Enabled(list, j, wanted.to)

\* Whoever is sent to the editor because an opening was refused finds there what
\* is wrong, once the window knows what the agent said (mcp.rs `reveal`).
RefusalIsShown ==
  refused.by # "none" /\ draft = refused.draft /\ (refused.by = "sessions" => capabilities = refused.caps)
    => Shown # {}

ServersAreSafe == TypeOK /\ RowsKeepTheirIds /\ FocusSurvives /\ RefusalIsShown
=============================================================================
