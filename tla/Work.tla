-------------------------------- MODULE Work --------------------------------
(***************************************************************************)
(* The calls the window has in flight, and what it says of them: the Agent *)
(* screen's login, the Sessions dialog and the session settings            *)
(* (crates/app/src/app/claims.rs, app/settings.rs, agent/mod.rs,           *)
(* agent/login.rs, agent/sessions.rs, session_settings.rs and the watchers *)
(* of app/stores.rs).  Each kind of call is counted under a generation     *)
(* that a launch, or the end of a session, moves on: an answer that        *)
(* crosses it must not be counted off what was begun since.                *)
(***************************************************************************)
EXTENDS Naturals, FiniteSets

CONSTANTS
  Methods,       \* the auth methods the agent advertised
  Options,       \* the config options of a session
  MaxCalls,      \* bound: calls sent
  MaxLaunches,   \* bound: launches
  MaxSwitches    \* bound: changes of the live session

Logins == {<<"authenticate", m>> : m \in Methods} \cup {<<"logout">>}
Setters == {<<"set_mode">>} \cup {<<"set_option", o>> : o \in Options}
Lifecycle == {<<"session/new">>, <<"restore">>, <<"session/close">>, <<"session/delete">>}
Listing == <<"session/list">>
Calls == Logins \cup Setters \cup Lifecycle \cup {Listing}

VARIABLES
  connected, switches,    \* core: an agent is connected; changes of the live session
  shown,                  \* the signals set from them by the watchers
  launches,
  flight,                 \* calls in flight: [id, call, gen, switch]
  begun,                  \* calls sent so far
  auth, listing,          \* in flight as the window counts them: AuthenticationWork,
  settings,               \* listing_work, SessionSettingsWork
  failed, dialog          \* the last lifecycle failure; the Sessions dialog is open

core == <<connected, switches>>
vars == <<core, shown, launches, flight, begun, auth, listing, settings, failed, dialog>>

NoOption == "none"
TypeOK ==
  /\ connected \in BOOLEAN /\ switches \in 0..MaxSwitches
  /\ shown \in [connected : BOOLEAN, switches : 0..MaxSwitches]
  /\ launches \in 0..MaxLaunches /\ begun \in 0..MaxCalls
  /\ \A c \in flight : c.id \in 1..begun /\ c.call \in Calls /\ c.gen \in Nat /\ c.switch <= switches
  /\ auth.gen = launches /\ auth.pending \in [Logins -> 0..MaxCalls]
  /\ listing.gen = launches /\ listing.pending \in 0..MaxCalls
  /\ settings.gen \in Nat /\ settings.modes \in 0..MaxCalls
  /\ settings.options \in 0..MaxCalls /\ settings.option \in Options \cup {NoOption}
  /\ failed \in Lifecycle \cup {<<>>} /\ dialog \in BOOLEAN

NoLogins == [l \in Logins |-> 0]
Init ==
  /\ connected = FALSE /\ switches = 0 /\ shown = [connected |-> FALSE, switches |-> 0]
  /\ launches = 0 /\ flight = {} /\ begun = 0
  /\ auth = [gen |-> 0, pending |-> NoLogins]
  /\ listing = [gen |-> 0, pending |-> 0]
  /\ settings = [gen |-> 0, modes |-> 0, option |-> NoOption, options |-> 0]
  /\ failed = <<>> /\ dialog = FALSE

(***************************************************************************)
(* The core's side, and the watchers that follow it.                       *)
(***************************************************************************)
\* A launch resets what it counts per connection, and some time later the core
\* has a connection and, with it, another session or none.
Launch ==
  /\ launches < MaxLaunches /\ launches' = launches + 1
  /\ auth' = [gen |-> auth.gen + 1, pending |-> NoLogins]
  /\ listing' = [gen |-> listing.gen + 1, pending |-> 0]
  /\ failed' = <<>>
  /\ UNCHANGED <<core, shown, flight, begun, settings, dialog>>

Connect ==
  /\ launches > 0 /\ switches < MaxSwitches
  /\ connected' = TRUE /\ switches' = switches + 1
  /\ UNCHANGED <<shown, launches, flight, begun, auth, listing, settings, failed, dialog>>

Lose ==
  /\ connected /\ connected' = FALSE
  /\ UNCHANGED <<switches, shown, launches, flight, begun, auth, listing, settings, failed, dialog>>

ResetSettings ==
  settings' = [gen |-> settings.gen + 1, modes |-> 0, option |-> NoOption, options |-> 0]

\* `status_changes`: the latest status, whatever was in between.
StatusWatcher ==
  /\ shown.connected # connected
  /\ shown' = [shown EXCEPT !.connected = connected]
  /\ IF connected THEN UNCHANGED settings ELSE ResetSettings
  /\ UNCHANGED <<core, launches, flight, begun, auth, listing, failed, dialog>>

\* `session_changes`
SessionWatcher ==
  /\ shown.switches # switches
  /\ shown' = [shown EXCEPT !.switches = switches]
  /\ ResetSettings
  /\ UNCHANGED <<core, launches, flight, begun, auth, listing, failed, dialog>>

(***************************************************************************)
(* The handlers: each begins a call and does not wait for it.              *)
(***************************************************************************)
Send(call, gen) ==
  /\ begun < MaxCalls /\ begun' = begun + 1
  /\ flight' = flight \cup {[id |-> begun + 1, call |-> call, gen |-> gen, switch |-> switches]}
  /\ UNCHANGED <<core, shown, launches>>

\* `on_authenticate` and `on_logout`: offered whenever an agent is there.
Login(call) ==
  /\ shown.connected
  /\ Send(call, auth.gen)
  /\ auth' = [auth EXCEPT !.pending[call] = @ + 1]
  /\ UNCHANGED <<listing, settings, failed, dialog>>

OpenDialog ==
  /\ ~dialog /\ dialog' = TRUE
  /\ UNCHANGED <<core, shown, launches, flight, begun, auth, listing, settings, failed>>

\* `on_list`, for the first page or the next.
List ==
  /\ dialog /\ shown.connected
  /\ Send(Listing, listing.gen)
  /\ listing' = [listing EXCEPT !.pending = @ + 1]
  /\ UNCHANGED <<auth, settings, failed, dialog>>

\* `on_new_session`, `on_open`, `on_close`, `on_delete`.
Drive(call) ==
  /\ dialog /\ shown.connected
  /\ Send(call, 0)
  /\ failed' = <<>>
  /\ UNCHANGED <<auth, listing, settings, dialog>>

\* A mode's control yields while a set is on its way; the composer's cycle and
\* the prompt's do not.
SetMode ==
  /\ shown.connected
  /\ Send(<<"set_mode">>, settings.gen)
  /\ settings' = [settings EXCEPT !.modes = @ + 1]
  /\ UNCHANGED <<auth, listing, failed, dialog>>

\* Every option's control yields while one is being set.
SetOption(o) ==
  /\ shown.connected /\ settings.option = NoOption
  /\ Send(<<"set_option", o>>, settings.gen)
  /\ settings' = [settings EXCEPT !.option = o, !.options = @ + 1]
  /\ UNCHANGED <<auth, listing, failed, dialog>>

(***************************************************************************)
(* Their answers: from the agent, or from a connection that went away.     *)
(***************************************************************************)
Less(n) == IF n = 0 THEN 0 ELSE n - 1
Over(c) == flight' = flight \ {c} /\ UNCHANGED <<connected, shown, launches, begun>>

FinishLogin(c) ==
  auth' = IF auth.gen = c.gen /\ auth.pending[c.call] > 0
          THEN [auth EXCEPT !.pending[c.call] = @ - 1] ELSE auth

LoginOver(c) ==
  /\ c.call \in Logins /\ Over(c) /\ FinishLogin(c)
  /\ UNCHANGED <<switches, listing, settings, failed, dialog>>

ListOver(c) ==
  /\ c.call = Listing /\ Over(c)
  /\ listing' = IF listing.gen = c.gen THEN [listing EXCEPT !.pending = Less(@)] ELSE listing
  /\ UNCHANGED <<switches, auth, settings, failed, dialog>>

\* `finish_mode`, `finish_option`
Finished(c) ==
  IF settings.gen # c.gen THEN settings
  ELSE IF c.call = <<"set_mode">> THEN [settings EXCEPT !.modes = Less(@)]
  ELSE [settings EXCEPT !.options = Less(@), !.option = IF Less(settings.options) = 0 THEN NoOption ELSE @]

SetterOver(c) ==
  /\ c.call \in Setters /\ Over(c)
  /\ settings' = Finished(c)
  /\ UNCHANGED <<switches, auth, listing, failed, dialog>>

\* A session opened or reopened is live, and the dialog closes; what is written
\* of the failure is this call's, whichever ended before it.
DriveOver(c, well) ==
  /\ c.call \in Lifecycle /\ Over(c)
  /\ LET opens == c.call \in {<<"session/new">>, <<"restore">>} IN
     /\ switches' = IF well /\ opens THEN switches + 1 ELSE switches
     /\ switches' <= MaxSwitches
     /\ dialog' = IF well /\ opens THEN FALSE ELSE dialog
  /\ failed' = IF well THEN <<>> ELSE c.call
  /\ UNCHANGED <<auth, listing, settings>>

Next ==
  \/ Launch \/ Connect \/ Lose \/ StatusWatcher \/ SessionWatcher
  \/ OpenDialog \/ List \/ SetMode
  \/ \E l \in Logins : Login(l)
  \/ \E l \in Lifecycle : Drive(l)
  \/ \E o \in Options : SetOption(o)
  \/ \E c \in flight :
       LoginOver(c) \/ ListOver(c) \/ SetterOver(c) \/ \E well \in BOOLEAN : DriveOver(c, well)

Spec == Init /\ [][Next]_vars

-----------------------------------------------------------------------------
InFlight(call, gen) == {c \in flight : c.call = call /\ c.gen = gen}

\* What the window says it is waiting for is exactly what is in flight since the
\* launch, or since the session: no answer that crosses one of them is counted
\* off another call, and none leaves a notice behind (claims.rs, settings.rs).
CountsAreTrue ==
  /\ \A l \in Logins : auth.pending[l] = Cardinality(InFlight(l, auth.gen))
  /\ listing.pending = Cardinality(InFlight(Listing, listing.gen))
  /\ settings.modes = Cardinality(InFlight(<<"set_mode">>, settings.gen))
  /\ \A o \in Options : settings.option = o <=> InFlight(<<"set_option", o>>, settings.gen) # {}

\* Once the watchers have caught up, what is said to be changing is a setting of
\* the session that is live (stores.rs `session_changes`).
ChangesAreOfTheLive ==
  shown.switches = switches =>
    \A c \in flight : c.call \in Setters /\ c.gen = settings.gen => c.switch = switches

WorkIsSafe == TypeOK /\ CountsAreTrue /\ ChangesAreOfTheLive
=============================================================================
