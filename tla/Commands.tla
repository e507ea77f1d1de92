------------------------------- MODULE Commands -------------------------------
(***************************************************************************)
(* What the window offers to do, and what doing it comes to: the palette   *)
(* (crates/app/src/palette.rs, app/commands.rs, wire.rs `with_commands`),  *)
(* the menu bar (app/menu.rs, shell.rs), and the handlers main.rs gives    *)
(* them.  The palette's list is drawn from the facts the window last       *)
(* rendered and the menu's items are enabled by an effect that runs after  *)
(* them, while a handler reads the facts of the moment it runs in.         *)
(***************************************************************************)
EXTENDS Naturals, Sequences, FiniteSets, SequencesExt

CONSTANTS
  Methods,         \* the auth methods an agent offers
  Groups           \* what a reader types to find a group's commands

VARIABLES
  facts,           \* what the window knows
  drawn,           \* the facts the palette was last drawn from
  enabled,         \* the menu items that can be chosen
  settled,         \* whether the menu's effect ran on these facts
  palette,         \* open, typed, highlighted
  silent           \* whether a command was chosen on the facts it was offered on, with
                   \* an MCP draft that can be sent, and nothing came of it

vars == <<facts, drawn, enabled, settled, palette, silent>>

Facts == [status: {"idle", "connected", "over"}, described: BOOLEAN, launched: BOOLEAN,
          launching: BOOLEAN, session: BOOLEAN, running: BOOLEAN, waiting: BOOLEAN,
          traced: BOOLEAN, valid: BOOLEAN, ready: BOOLEAN, viewing: BOOLEAN]
Items == {"New session", "Cancel turn", "Restart", "Disconnect", "Clear"}
Shut == [open |-> FALSE, typed |-> "", highlighted |-> 0]

TypeOK ==
  /\ facts \in Facts /\ drawn \in Facts /\ enabled \subseteq Items
  /\ palette.typed \in Groups \cup {""} /\ palette.highlighted \in Nat

Init ==
  /\ facts = [status |-> "idle", described |-> FALSE, launched |-> FALSE, launching |-> FALSE,
              session |-> FALSE, running |-> FALSE, waiting |-> FALSE, traced |-> FALSE,
              valid |-> TRUE, ready |-> TRUE, viewing |-> FALSE]
  /\ drawn = facts /\ settled = FALSE
  /\ enabled = Items               \* as `item` makes them, until the effect runs
  /\ palette = Shut /\ silent = FALSE

(***************************************************************************)
(* What is offered.                                                        *)
(***************************************************************************)
Connected(f) == f.status = "connected"
Live(f) == Connected(f) /\ ~f.viewing

Command(group, name) == [group |-> group, name |-> name]
If(offered, group, names) ==
  IF offered THEN [i \in DOMAIN names |-> Command(group, names[i])] ELSE <<>>

PaletteRestarts(f) == f.launched /\ ~f.launching

\* In the order they are listed in.
Palette(f) ==
     If(TRUE, "Connection", <<"Connect">>)
  \o If(PaletteRestarts(f), "Connection", <<"Restart">>)
  \o If(Connected(f), "Connection", <<"Disconnect">>)
  \o If(f.running, "Session", <<"Cancel turn">>)
  \o If(f.waiting, "Session", <<"Go to waiting request">>)
  \o If(f.session, "Session", <<"Focus prompt">>)
  \o If(f.described, "Session", <<"New session", "Manage sessions">>)
  \o If(f.described /\ Connected(f), "Session", <<"List sessions">>)
  \o If(f.session, "Session", <<"Copy session ID">>)
  \o If(Connected(f) /\ f.described, "Session",
        [i \in 1..Cardinality(Methods) |-> "Authenticate"])
  \o If(TRUE, "Trace", <<"Export">>)
  \o If(f.traced, "Trace", <<"Clear">>)
  \o If(TRUE, "View", <<"Show timeline", "Show details", "Trace", "Diagnostics">>)
  \o If(TRUE, "View", <<"Lay out">>)      \* Trace only, or Split when it is
  \o If(Connected(f) \/ f.described \/ f.session, "View", <<"Session settings", "Capabilities">>)
  \o If(TRUE, "Window", <<"Pretty JSON", "Appearance">>)
  \o If(TRUE, "Trace", <<"Open trace">>)
  \o If(f.viewing, "Trace", <<"Close trace">>)
  \o If(Live(f), "Trace", <<"Send by hand">>)

\* The menu's effect: an item that would do nothing is disabled.
MenuItems(f) ==
  {i \in Items : CASE i = "New session" -> Connected(f) /\ f.described
                   [] i = "Cancel turn" -> f.running
                   [] i = "Restart" -> f.launched /\ ~f.launching
                   [] i = "Disconnect" -> Connected(f)
                   [] OTHER -> f.traced}

(***************************************************************************)
(* What it comes to, on the facts of the moment.                           *)
(***************************************************************************)
Comes(name, f) ==
  CASE name = "Restart" -> IF f.launched /\ ~f.launching /\ f.valid THEN "done" ELSE "nothing"
    [] name = "New session" ->
         IF ~f.ready THEN "corrected" ELSE IF f.launched THEN "done" ELSE "nothing"
    [] name = "Cancel turn" -> IF f.running THEN "done" ELSE "nothing"
    [] name = "Disconnect" -> IF Connected(f) THEN "done" ELSE "nothing"
    [] name = "Copy session ID" -> IF f.session THEN "done" ELSE "nothing"
    [] name = "Clear" -> IF f.traced THEN "done" ELSE "nothing"
    [] name = "Open trace" -> IF Live(f) THEN "refused" ELSE "done"
    [] OTHER -> "done"

\* The facts a command changes at once; what it asks of an agent is the agent's to change.
After(name, f) ==
  IF Comes(name, f) # "done" THEN f
  ELSE CASE name = "Restart" -> [f EXCEPT !.launching = TRUE]
         [] name = "Disconnect" -> [f EXCEPT !.running = FALSE, !.waiting = FALSE]
         [] name = "Open trace" -> [f EXCEPT !.viewing = TRUE]
         [] name = "Close trace" -> [f EXCEPT !.viewing = FALSE]
         [] OTHER -> f

Run(name, fresh) ==
  /\ silent' = (fresh /\ facts.valid /\ Comes(name, facts) = "nothing")
  /\ facts' = After(name, facts) /\ settled' = (settled /\ facts' = facts)

(***************************************************************************)
(* The palette: a field over a list, the highlighted row its own.          *)
(***************************************************************************)
Found == SelectSeq(Palette(drawn), LAMBDA c : palette.typed \in {"", c.group})
Highlight == IF palette.highlighted < Len(Found) THEN palette.highlighted
             ELSE IF Found = <<>> THEN 0 ELSE Len(Found) - 1

Shows(next) == palette' = next /\ UNCHANGED <<facts, drawn, enabled, settled, silent>>

Toggle == Shows([palette EXCEPT !.open = ~@])
Dismiss == palette.open /\ Shows(Shut)
\* Bound: typed and moved over a list that is drawn as things are.
Still == palette.open /\ drawn = facts /\ settled
Type(text) == Still /\ text # palette.typed /\ Shows([palette EXCEPT !.typed = text, !.highlighted = 0])
\* The arrows wrap; the bound stops them in the middle of the list, where nothing differs.
Moves(by) ==
  /\ Still /\ Found # <<>> /\ Highlight \in {0, Len(Found) - 1}
  /\ Shows([palette EXCEPT !.highlighted = (Highlight + by) % Len(Found)])
Down == Moves(1)
Up == Moves(Len(Found) - 1)
End == Still /\ Found # <<>> /\ Shows([palette EXCEPT !.highlighted = Len(Found) - 1])

Choose(name) ==
  /\ palette.open /\ Run(name, drawn = facts)
  /\ palette' = Shut /\ UNCHANGED <<drawn, enabled>>

Enter == palette.open /\ Found # <<>> /\ Choose(Found[Highlight + 1].name)
Click ==
  /\ palette.open /\ palette.highlighted = 0   \* bound: a click asks nothing of the highlight
  /\ \E name \in {c.name : c \in Range(Found)} : Choose(name)

Pick(item) ==
  /\ item \in enabled /\ Run(item, settled)
  /\ UNCHANGED <<drawn, enabled, palette>>

Draw ==
  /\ drawn # facts /\ drawn' = facts
  /\ UNCHANGED <<facts, enabled, settled, palette, silent>>

MenuEffect ==
  /\ ~settled /\ settled' = TRUE /\ enabled' = MenuItems(facts)
  /\ UNCHANGED <<facts, drawn, palette, silent>>

(***************************************************************************)
(* The facts as the stores change them.                                    *)
(***************************************************************************)
Becomes(next) ==
  /\ next # facts /\ drawn = facts /\ settled   \* bound: one change goes undrawn at a time,
  /\ palette.typed = "" /\ Highlight \in {0, Len(Found) - 1}   \* none over what was
                                                \* typed or between the list's ends
  /\ facts' = next /\ settled' = FALSE
  /\ UNCHANGED <<drawn, enabled, palette, silent>>

Launches == ~facts.launching /\ facts.valid /\ Becomes([facts EXCEPT !.launched = TRUE, !.launching = TRUE])
Connects == facts.launching /\ Becomes([facts EXCEPT !.status = "connected", !.described = FALSE,
              !.session = FALSE, !.running = FALSE, !.waiting = FALSE, !.traced = TRUE])
Describes == facts.launching /\ Connected(facts) /\ Becomes([facts EXCEPT !.described = TRUE])
LaunchEnds == facts.launching /\ Becomes([facts EXCEPT !.launching = FALSE])
SessionMoves == facts.described /\ Becomes([facts EXCEPT !.session = ~@, !.running = FALSE, !.waiting = FALSE])
TurnMoves == facts.session /\ Connected(facts) /\ Becomes([facts EXCEPT !.running = ~@, !.waiting = FALSE])
Asks == Connected(facts) /\ facts.described /\ Becomes([facts EXCEPT !.waiting = ~@])
Dies == Connected(facts) /\ Becomes([facts EXCEPT !.status = "over", !.running = FALSE, !.waiting = FALSE])
\* Bound: the trace is cleared and the MCP draft edited while no session is open.
Cleared == facts.traced /\ ~facts.session /\ Becomes([facts EXCEPT !.traced = FALSE])
Edits == /\ ~facts.session /\ facts.traced = Connected(facts)
         /\ \/ Becomes([facts EXCEPT !.valid = ~@, !.ready = ~facts.valid])
            \/ facts.valid /\ Becomes([facts EXCEPT !.ready = ~@])

Next ==
  \/ Toggle \/ Dismiss \/ (\E text \in Groups \cup {""} : Type(text)) \/ Down \/ Up \/ End
  \/ Enter \/ Click \/ (\E item \in Items : Pick(item)) \/ Draw \/ MenuEffect
  \/ Launches \/ Connects \/ Describes \/ LaunchEnds
  \/ SessionMoves \/ TurnMoves \/ Asks \/ Dies \/ Cleared \/ Edits

Spec == Init /\ [][Next]_vars

(***************************************************************************)
(* Keys for lists an agent names (keys.rs): a repeat is told apart by its  *)
(* occurrence, a suffix at the end of the key.                             *)
(***************************************************************************)
Distinct(keys) ==
  LET Marked(key, n) == IF n = 0 THEN key ELSE Append(key, n)
      Step(taken, key) ==
        Append(taken, Marked(key, CHOOSE n \in 0..Len(taken) :
                                    /\ Marked(key, n) \notin Range(taken)
                                    /\ \A m \in 0..(n - 1) : Marked(key, m) \in Range(taken)))
  IN FoldLeft(Step, <<>>, keys)

\* A chord's modifiers and key code (shell.rs `keys`), over the shortcuts palette.rs names.
Shortcuts == {"K", "E", "O", "Shift+Backspace", "N", "R", ".", "1", "2", "\\", "Q"}
Letters == {"E", "N", "R", "K", "Q", "O"}
Keys(chord) ==
  CASE chord \in Letters -> <<FALSE, chord>>
    [] chord \in {"1", "2"} -> <<FALSE, chord>>
    [] chord = "." -> <<FALSE, "Period">>
    [] chord = "\\" -> <<FALSE, "Backslash">>
    [] chord = "Shift+Backspace" -> <<TRUE, "Backspace">>
    [] OTHER -> <<FALSE, "Unidentified">>

-----------------------------------------------------------------------------
\* What is offered does something when it is chosen at once: a menu item that would do
\* nothing is disabled (menu.rs:83), and a palette command is gated as its control is.
\* The one exception is a Restart under an MCP draft that cannot be sent.
OfferedActs == ~silent

\* The menu and the palette drawn from one set of facts offer the same; only a new
\* session is the palette's alone, once the agent that described itself has gone.
MenuAgrees ==
  settled /\ drawn = facts =>
    LET offered == {c.name : c \in Range(Palette(drawn))} \cap Items
    IN /\ enabled \subseteq offered
       /\ offered \subseteq enabled \cup (IF Connected(facts) THEN {} ELSE {"New session"})

\* While the list shows anything one of its rows is highlighted, however it shrank
\* under a highlight (palette.rs `Palette`).
HighlightIsARow == Found # <<>> => Highlight < Len(Found)

\* No two rows of a list have one key, whatever names the agent repeats, and a row keeps
\* its key when later rows arrive (keys.rs).
KeysAreDistinct ==
  \A n \in 0..4 : \A keys \in [1..n -> {<<0>>, <<0, 1>>, <<0, 2>>}] :
    LET made == Distinct(keys)
    IN /\ \A i, j \in 1..n : made[i] = made[j] => i = j
       /\ \A m \in 0..n : Distinct(SubSeq(keys, 1, m)) = SubSeq(made, 1, m)

\* Each shortcut is a key of its own (palette.rs `shortcut`, shell.rs `keys`).
ShortcutsAreTheirOwn ==
  /\ \A chord \in Shortcuts : Keys(chord)[2] # "Unidentified"
  /\ \A a, b \in Shortcuts : Keys(a) = Keys(b) => a = b

KeysAreTheirOwn == KeysAreDistinct /\ ShortcutsAreTheirOwn

CommandsAreOffered == TypeOK /\ OfferedActs /\ MenuAgrees /\ HighlightIsARow
=============================================================================
