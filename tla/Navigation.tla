------------------------------ MODULE Navigation ------------------------------
(***************************************************************************)
(* Where the window looks and where the keyboard goes                      *)
(* (crates/app/src/navigation.rs, navigation.js, app/layout.rs, rail.rs,   *)
(* palette.rs, app/commands.rs, app/menu.rs): one set of signals behind    *)
(* every control, whose meaning depends on a width only the stylesheet     *)
(* knows, and one script per navigation, which claims the page, waits for  *)
(* what it was told to focus to be drawn, and gives way to a later one or  *)
(* to a dialog.                                                            *)
(***************************************************************************)
EXTENDS Naturals, FiniteSets

CONSTANTS
  MaxScripts,    \* bound: navigations
  MaxActs        \* bound: what else happens to the window

VARIABLES
  width,         \* "wide", "drawer" below 1180px, "narrow" below 760px: only the page knows
  spine, region, console, rail, drawer, collapsed,   \* Navigation
  revealed, sought,
  active,        \* the rail has tabs: an agent, or the record of one
  waiting,       \* a request waits on the reader
  enabled,       \* the prompt takes text
  dialog,        \* the dialog that is open
  focus,         \* the element that has the keyboard
  owner, scripts,   \* document.inspectorNavigation, and the scripts still running
  asked,         \* what the last navigation asked for, until something else happens
  acts

layout == <<spine, region, console, rail, drawer, collapsed>>
page == <<width, active, waiting, enabled, dialog>>
running == <<owner, scripts, asked>>
vars == <<layout, revealed, sought, page, focus, running, acts>>

Widths == {"wide", "drawer", "narrow"}
Body == "body"

TypeOK ==
  /\ width \in Widths /\ spine \in {"split", "wire"} /\ region \in {"turn", "wire", "rail"}
  /\ console \in {"trace", "diagnostics"} /\ rail \in {"session", "capabilities"}
  /\ {drawer, collapsed, revealed, sought, active, waiting, enabled} \subseteq BOOLEAN
  /\ dialog \in {"none", "palette"} /\ owner \in 0..MaxScripts
  /\ \A s \in scripts : s.token \in 1..MaxScripts

Init ==
  /\ width \in Widths
  /\ spine = "split" /\ region = "turn" /\ console = "trace" /\ rail = "session"
  /\ drawer = FALSE /\ collapsed = FALSE /\ revealed = FALSE /\ sought = FALSE
  /\ active = FALSE /\ waiting = FALSE /\ enabled = FALSE /\ dialog = "none" /\ focus = Body
  /\ owner = 0 /\ scripts = {} /\ asked = "nothing" /\ acts = 0

(***************************************************************************)
(* What the stylesheet draws at each width.                                *)
(***************************************************************************)
TimelineShown(w) == spine = "split" /\ (w = "narrow" => region = "turn")
ConsoleShown(w) == w = "narrow" => region = "wire"
RailShown(w) ==
  CASE w = "wide" -> ~collapsed [] w = "drawer" -> drawer [] w = "narrow" -> region = "rail"

\* A tab that is not selected is no destination, and a marked row is one only while
\* it is marked.
Visible(e, w) ==
  CASE e \in {"timeline", "entry", "prompt"} -> TimelineShown(w)
    [] e \in {"trace", "diagnostics"} -> ConsoleShown(w) /\ console = e
    [] e = "frames" -> ConsoleShown(w) /\ console = "trace" /\ revealed
    [] e = "clear" -> ConsoleShown(w) /\ console = "trace"
    [] e \in {"session", "capabilities"} -> RailShown(w) /\ active /\ rail = e
    [] e \in {"rail", "restart"} -> RailShown(w) /\ (e = "restart" => active)
    [] e = "toggle" -> w = "drawer"
    [] OTHER -> e = "palette"

Takes(e) == Visible(e, width) /\ (e = "prompt" => enabled)

\* Hiding what has the keyboard drops it.
Stays == \E e \in {focus} : focus' = IF Visible(e, width)' THEN e ELSE Body

(***************************************************************************)
(* Navigations.                                                            *)
(***************************************************************************)
\* `Destination::focus`: the script claims the page before it is told where to go.
Claims(kind, to) ==
  /\ owner < MaxScripts /\ owner' = owner + 1
  /\ scripts' = scripts \cup {[token |-> owner + 1, kind |-> kind, to |-> to, told |-> FALSE,
                               from |-> focus]}

\* From a control on the page, from the palette, which it closes, or from the menu.
Goes(kind, to, shows) ==
  /\ Claims(kind, to)
  /\ asked' = IF shows THEN to ELSE "nothing"
  /\ dialog' = "none"
  /\ UNCHANGED <<width, active, waiting, enabled, acts>>

\* A layout choice moves the keyboard only where it hides the control that has it.
Layout(chosen) ==
  /\ spine' = chosen /\ region' = IF chosen = "wire" THEN "wire" ELSE region
  /\ Goes(IF chosen = "wire" THEN "layout" ELSE "cancel", "none", FALSE)
  /\ UNCHANGED <<console, rail, drawer, collapsed, revealed, sought>>

Region(chosen) ==
  /\ spine' = IF chosen = "turn" THEN "split" ELSE spine
  /\ region' = chosen /\ drawer' = (chosen = "rail")
  /\ LET to == CASE chosen = "turn" -> "timeline" [] chosen = "wire" -> console
                 [] chosen = "rail" -> rail
     IN Goes("control", to, chosen # "rail")
  /\ UNCHANGED <<console, rail, collapsed, revealed, sought>>

Console(chosen) ==
  /\ region' = "wire" /\ drawer' = FALSE /\ console' = chosen
  /\ Goes("control", chosen, TRUE)
  /\ UNCHANGED <<spine, rail, collapsed, revealed, sought>>

\* A tab of the rail, pressed in it; from outside it the drawer opens first.  The
\* palette offers the rail's tabs where the rail has them.
RailTab(chosen, outside) ==
  /\ active /\ (outside \/ RailShown(width))
  /\ region' = "rail" /\ collapsed' = FALSE /\ rail' = chosen
  /\ drawer' = (outside \/ drawer)
  /\ Goes("control", chosen, outside)
  /\ UNCHANGED <<spine, console, revealed, sought>>

ToggleDrawer ==
  /\ width = "drawer" /\ drawer' = ~drawer
  /\ LET to == IF drawer THEN "toggle" ELSE IF active THEN rail ELSE "rail"
     IN Goes("control", to, FALSE)
  /\ UNCHANGED <<spine, region, console, rail, collapsed, revealed, sought>>

ToggleRail ==
  /\ width = "wide" /\ acts < MaxActs /\ acts' = acts + 1
  /\ collapsed' = ~collapsed /\ asked' = "nothing"
  /\ UNCHANGED <<spine, region, console, rail, drawer, revealed, sought, page, owner, scripts>>

\* Escape in the rail, or the shade behind it.
CloseDrawer ==
  /\ drawer /\ drawer' = FALSE
  /\ Goes("control", "toggle", FALSE)
  /\ UNCHANGED <<spine, region, console, rail, collapsed, revealed, sought>>

Reveal ==
  /\ region' = "wire" /\ drawer' = FALSE /\ console' = "trace"
  /\ revealed' = TRUE /\ sought' = FALSE
  /\ Goes("frames", "frames", TRUE)
  /\ UNCHANGED <<spine, rail, collapsed>>

\* The Timeline is shown: for the request that waits, the prompt, or a frame's entry.
ShowsTimeline == spine' = "split" /\ region' = "turn" /\ drawer' = FALSE

Waiting ==
  /\ waiting /\ ShowsTimeline /\ Goes("entry", "entry", TRUE)
  /\ UNCHANGED <<console, rail, collapsed, revealed, sought>>

Prompt ==
  /\ active /\ ShowsTimeline /\ Goes("prompt", "prompt", TRUE)
  /\ UNCHANGED <<console, rail, collapsed, revealed, sought>>

Seek ==
  /\ ShowsTimeline /\ sought' = TRUE /\ revealed' = FALSE
  /\ Goes("entry", "entry", TRUE)
  /\ UNCHANGED <<console, rail, collapsed>>

Clear ==
  /\ region' = "wire" /\ drawer' = FALSE /\ console' = "trace"
  /\ Goes("armclear", "clear", TRUE)
  /\ UNCHANGED <<spine, rail, collapsed, revealed, sought>>

\* Return to latest scrolls a list, and takes the place of what was asked before.
Latest ==
  /\ Goes("latest", "none", FALSE)
  /\ UNCHANGED <<layout, revealed, sought>>

\* An agent that answered moves the keyboard to the prompt, and one let go to
\* Restart, where those are on screen.
Connection(to) ==
  /\ active
  /\ Goes(IF to = "prompt" THEN "prompt" ELSE "control", to, FALSE)
  /\ UNCHANGED <<layout, revealed, sought>>

(***************************************************************************)
(* What else happens to the window.                                        *)
(***************************************************************************)
Happens == acts < MaxActs /\ acts' = acts + 1 /\ asked' = "nothing"

\* An agent that went without being asked puts its reason on screen.
Surfaces ==
  /\ Happens /\ active
  /\ region' = "wire" /\ console' = "diagnostics"
  /\ UNCHANGED <<spine, rail, drawer, collapsed, revealed, sought, page, owner, scripts>>

Resize ==
  /\ Happens /\ width' \in Widths \ {width}
  /\ UNCHANGED <<layout, revealed, sought, active, waiting, enabled, dialog, owner, scripts>>

Changes ==
  /\ Happens /\ waiting' \in BOOLEAN /\ enabled' \in BOOLEAN
  /\ active' \in {active, TRUE}
  /\ UNCHANGED <<layout, revealed, sought, width, dialog, owner, scripts>>

\* The palette opens over whatever had the keyboard, and closed gives it back.
OpenPalette ==
  /\ Happens /\ dialog = "none" /\ dialog' = "palette" /\ focus' = "palette"
  /\ UNCHANGED <<layout, revealed, sought, width, active, waiting, enabled, owner, scripts>>

ClosePalette ==
  /\ dialog = "palette" /\ dialog' = "none" /\ asked' = "nothing"
  /\ focus' = Body
  /\ UNCHANGED <<layout, revealed, sought, width, active, waiting, enabled, owner, scripts, acts>>

(***************************************************************************)
(* A script (navigation.js).                                               *)
(***************************************************************************)
Told(s) ==
  /\ ~s.told /\ scripts' = (scripts \ {s}) \cup {[s EXCEPT !.told = TRUE]}
  /\ UNCHANGED <<layout, revealed, sought, page, focus, owner, asked, acts>>

Ends(s) == scripts' = scripts \ {s}

\* The layout's own handoff: only where the Timeline or the rail had the keyboard.
Moves(s) ==
  s.kind = "layout" => /\ spine = "wire" /\ ~Visible(s.from, width)
                       /\ s.from \in {"timeline", "entry", "prompt", "rail", "session", "capabilities",
                                      "restart"}
Target(s) == IF s.kind = "layout" THEN console ELSE s.to

Attempt(s) ==
  /\ s.told
  /\ IF owner # s.token \/ dialog # "none" \/ s.kind \in {"cancel", "latest"} \/ ~Moves(s)
     THEN Ends(s) /\ UNCHANGED focus
     ELSE Takes(Target(s)) /\ Ends(s) /\ focus' = Target(s)
  /\ UNCHANGED <<layout, revealed, sought, page, owner, asked, acts>>

\* Sixty frames without it.
GivesUp(s) ==
  /\ s.told /\ ~Takes(Target(s)) /\ Ends(s)
  /\ UNCHANGED <<layout, revealed, sought, page, focus, owner, asked, acts>>

Navigates ==
  \/ \E chosen \in {"split", "wire"} : Layout(chosen)
  \/ \E chosen \in {"turn", "wire", "rail"} : Region(chosen)
  \/ \E chosen \in {"trace", "diagnostics"} : Console(chosen)
  \/ \E chosen \in {"session", "capabilities"}, outside \in BOOLEAN : RailTab(chosen, outside)
  \/ ToggleDrawer \/ ToggleRail \/ CloseDrawer \/ Reveal \/ Waiting \/ Prompt \/ Seek
  \/ Clear \/ Latest
  \/ \E to \in {"prompt", "restart"} : Connection(to)

Next ==
  \/ (Navigates \/ Surfaces \/ Resize \/ Changes) /\ Stays
  \/ OpenPalette \/ ClosePalette
  \/ \E s \in scripts : Told(s) \/ Attempt(s) \/ GivesUp(s)

Spec == Init /\ [][Next]_vars

-----------------------------------------------------------------------------
\* What a navigation asked for is on screen, whatever the width, which no handler
\* knows (navigation.rs: every operation sets the signals of all three layouts).
AskedIsShown == asked # "nothing" => \A w \in Widths : Visible(asked, w)

\* No width is left with nothing on it (style/input.css, the narrower windows).
NothingIsBlank ==
  \A w \in Widths : TimelineShown(w) \/ ConsoleShown(w) \/ RailShown(w)

\* The keyboard ends where the last navigation asked: an earlier script, however
\* late it is told, takes nothing from it, and none takes anything from a dialog.
LastAskedWins ==
  /\ asked # "nothing" /\ Takes(asked) /\ ~(\E s \in scripts : s.token = owner) => focus = asked
  /\ dialog = "palette" => focus = "palette"

NavigationIsSafe ==
  TypeOK /\ AskedIsShown /\ NothingIsBlank /\ LastAskedWins /\ ~(revealed /\ sought)
=============================================================================
