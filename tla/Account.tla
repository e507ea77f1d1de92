------------------------------ MODULE Account ------------------------------
(***************************************************************************)
(* The Agent screen: what the agent claimed, what became of driving each   *)
(* claim, and what the window says of the claims it cannot drive           *)
(* (crates/app/src/agent/accounts.rs, agent/rows.rs, agent/advertisement.rs*)
(* and agent/mod.rs, over core's driven.rs and auth.rs), the login that    *)
(* hangs off it (agent/login.rs), and the controls of the Sessions dialog  *)
(* that drive the claims (agent/sessions.rs, agent/roots.rs).              *)
(***************************************************************************)
EXTENDS Naturals, FiniteSets

CONSTANTS
  Claimable,    \* the sets of capabilities an agent may claim
  MaxAgents     \* bound: agents connected to

\* The claims as the account groups them: by where the protocol states them.
\* One prompt content stands for the three, one transport for both.
Runs == {{"load"}, {"list", "resume", "close", "delete", "roots"},
         {"image"}, {"http"}, {"auth"}, {"logout"}}
Caps == UNION Runs

VARIABLES
  agents, described, connected,
  claims,      \* what the agent advertised
  driven,      \* core's record
  auth,        \* where authentication stands
  calls,       \* the authentication calls in flight
  said,        \* what the agent last said of a login: wanted, settled or nothing
  live,        \* a session is live
  rows,        \* the listing has rows besides it
  supplied,    \* the roots typed into a row: reported, other or none
  only         \* which claims are on the screen

login == <<auth, calls, said>>
vars == <<agents, described, connected, claims, driven, login, live, rows, supplied, only>>

Outcomes == {"unasked", "answered", "refused"}
Narrowings == {"everything", "advertised", "unadvertised", "refused"}
Recorded == Caps \ {"auth"}
Nothing == [c \in Recorded |-> "unasked"]
AuthCalls == {"auth", "logout"}
\* An answer is a result, a refusal, or a refusal that asks for a login.
Answers == {"answered", "refused", "asks"}
AuthStates == {"unasked", "required", "authenticated", "refused", "refused asking"}

TypeOK ==
  /\ agents \in 0..MaxAgents /\ described \in BOOLEAN /\ connected \in BOOLEAN
  /\ claims \subseteq Caps /\ driven \in [Recorded -> Outcomes]
  /\ auth \in AuthStates /\ calls \subseteq AuthCalls
  /\ said \in {"wanted", "settled", "nothing"}
  /\ live \in BOOLEAN /\ rows \in BOOLEAN
  /\ supplied \in {"reported", "other", "none"} /\ only \in Narrowings

Init ==
  /\ agents = 0 /\ described = FALSE /\ connected = FALSE
  /\ claims = {} /\ driven = Nothing
  /\ auth = "unasked" /\ calls = {} /\ said = "nothing"
  /\ live = FALSE /\ rows = FALSE /\ supplied = "reported" /\ only = "everything"

(***************************************************************************)
(* The controls, each drawn behind a gate of its own.                      *)
(***************************************************************************)
\* `Restore::preferred`
Restore == IF "load" \in claims THEN {"load"} ELSE claims \cap {"resume"}

\* `asking`: the roots a reopen asks for, or those the listing reported.
Asks == "roots" \in claims /\ supplied # "reported"

\* A listed session's row has every affordance, the live session's has its end
\* whether or not it was listed.
Offered ==
  UNION {
    claims \cap {"list", "logout", "auth"},
    IF live \/ rows THEN claims \cap {"close", "delete"} ELSE {},
    IF rows THEN Restore ELSE {},
    IF live THEN claims \cap {"image"} ELSE {},
    claims \cap {"http"} }

\* A reopen, or a new session, that carries roots the reader supplied drives
\* those too; one outcome is recorded for both.
DrivenBy(c) ==
  {c} \cup IF c \in Restore /\ Asks /\ supplied # "none" THEN {"roots"} ELSE {}

\* Any refusal may say that the agent wants a login (`note_login`).
NoteLogin(outcome) ==
  IF outcome = "asks" THEN auth' = "required" /\ said' = "wanted" ELSE UNCHANGED <<auth, said>>

Drive(c, outcome) ==
  /\ described /\ connected /\ c \in Offered \ AuthCalls
  /\ driven' = [d \in Recorded |->
                  IF d \notin DrivenBy(c) THEN driven[d]
                  ELSE IF outcome = "asks" THEN "refused" ELSE outcome]
  /\ NoteLogin(outcome) /\ UNCHANGED calls
  /\ live' = IF outcome = "answered" /\ c \in {"load", "resume"} THEN TRUE
             ELSE IF outcome = "answered" /\ c \in {"close", "delete"} THEN FALSE ELSE live
  /\ rows' \in IF c = "list" /\ outcome = "answered" THEN BOOLEAN ELSE {rows}
  /\ UNCHANGED <<agents, described, connected, claims, supplied, only>>

\* `session/new` needs no claim; its refusal may ask for a login.
NewSession(outcome) ==
  /\ described /\ connected
  /\ live' = (live \/ outcome = "answered") /\ NoteLogin(outcome) /\ UNCHANGED calls
  /\ UNCHANGED <<agents, described, connected, claims, driven, rows, supplied, only>>

(***************************************************************************)
(* The login.                                                              *)
(***************************************************************************)
\* A method's button, and *Log out*.
Press(call) ==
  /\ described /\ connected /\ call \in claims \cap AuthCalls
  /\ calls' = calls \cup {call}
  /\ UNCHANGED <<agents, described, connected, claims, driven, auth, said, live, rows,
                 supplied, only>>

\* `authenticate` is answered: its outcome is the auth state. A refusal that
\* itself asks for a login is the agent still asking.
Accepted(outcome) ==
  auth' = CASE outcome = "answered" -> "authenticated"
            [] outcome = "refused" -> "refused"
            [] outcome = "asks" -> "refused asking"
Authenticated(outcome) ==
  /\ "auth" \in calls /\ calls' = calls \ {"auth"}
  /\ Accepted(outcome)
  /\ said' = IF outcome = "asks" THEN "wanted" ELSE "settled"
  /\ UNCHANGED <<agents, described, connected, claims, driven, live, rows, supplied, only>>

\* `logout` is answered: nobody is asked to log in until the agent asks.
LoggedOut(outcome) ==
  /\ "logout" \in calls /\ calls' = calls \ {"logout"}
  /\ driven' = [driven EXCEPT !["logout"] = IF outcome = "asks" THEN "refused" ELSE outcome]
  /\ IF outcome = "answered" THEN auth' = "unasked" /\ said' = "settled" ELSE NoteLogin(outcome)
  /\ UNCHANGED <<agents, described, connected, claims, live, rows, supplied, only>>

Type(text) ==
  /\ rows /\ text # supplied /\ supplied' = text
  /\ UNCHANGED <<agents, described, connected, claims, driven, login, live, rows, only>>

\* Another agent: its claims, and nothing driven yet. One may ask for a login
\* before it describes itself.
Connects(adv, describes) ==
  /\ agents < MaxAgents /\ agents' = agents + 1
  /\ described' = describes /\ connected' = TRUE
  /\ claims' = (IF describes THEN adv ELSE {})
  /\ driven' = Nothing /\ calls' = {}
  /\ auth' = (IF describes THEN "unasked" ELSE "required")
  /\ said' = IF describes THEN "nothing" ELSE "wanted"
  /\ live' = FALSE /\ rows' = FALSE /\ supplied' = "reported"
  /\ UNCHANGED only

Leaves ==
  /\ connected /\ connected' = FALSE
  /\ UNCHANGED <<agents, described, claims, driven, login, live, rows, supplied, only>>

(***************************************************************************)
(* The account.                                                            *)
(***************************************************************************)
\* What the auth state says became of `authenticate`.
AuthDriven ==
  CASE auth = "authenticated" -> "answered"
    [] auth \in {"refused", "refused asking"} -> "refused"
    [] OTHER -> "unasked"

\* The login is drawn with the account, or before there is one.
NeedsLogin == auth \in {"required", "refused asking"}
LoginDrawn ==
  IF described
  THEN claims \cap AuthCalls # {} \/ NeedsLogin \/ calls # {}
  ELSE NeedsLogin

\* The buttons of the login's block that say their call is on its way.
Busy == {call \in claims \cap AuthCalls : call \in calls}

\* The words on the identity line.
Standing ==
  CASE auth = "required" -> "Login required"
    [] auth = "authenticated" -> "Authenticated"
    [] auth \in {"refused", "refused asking"} -> "Login refused"
    [] OTHER -> "nothing"

\* A row's fourth fact, on the claims that were made.
Unreached(c) ==
  IF c = "resume" /\ "load" \in claims THEN "prefers load"
  ELSE IF c \in {"close", "delete"} /\ "list" \notin claims THEN "no listing row"
  ELSE "reached"
Fourth(c) ==
  IF c \notin claims THEN "nothing"
  ELSE IF Unreached(c) # "reached" THEN Unreached(c)
  ELSE IF c = "auth" THEN AuthDriven ELSE driven[c]

Keeps(which, c) ==
  \/ which = "everything"
  \/ which = "advertised" /\ c \in claims
  \/ which = "unadvertised" /\ c \notin claims
  \/ which = "refused" /\ Fourth(c) = "refused"
Counts(which) == Cardinality({c \in Caps : Keeps(which, c)})

\* A chip that would leave nothing is not offered.
Chips == {w \in Narrowings : Counts(w) > 0 \/ w = "everything"}
Narrow(which) ==
  /\ described /\ which # only
  /\ which = "everything" \/ (which \in Chips /\ Cardinality(Chips) > 1)
  /\ only' = which
  /\ UNCHANGED <<agents, described, connected, claims, driven, login, live, rows, supplied>>

\* A reason all rows of a run share is said once above it, and the rows are
\* hushed; decided on the rows the narrowing left.
Left(run) == {c \in run : Keeps(only, c)}
Shared(run) ==
  LET why == {Fourth(c) : c \in Left(run)}
  IN IF Cardinality(Left(run)) > 1 /\ Cardinality(why) = 1
     THEN why \ (Outcomes \cup {"nothing"}) ELSE {}
Read(run, c) == IF Shared(run) # {} THEN CHOOSE why \in Shared(run) : TRUE ELSE Fourth(c)

Next ==
  \/ Leaves
  \/ \E adv \in Claimable, describes \in BOOLEAN : Connects(adv, describes)
  \/ \E outcome \in Answers : NewSession(outcome) \/ Authenticated(outcome) \/ LoggedOut(outcome)
  \/ \E c \in Caps, outcome \in Answers : Drive(c, outcome)
  \/ \E call \in AuthCalls : Press(call)
  \/ \E text \in {"other", "none"} : Type(text)
  \/ \E which \in Narrowings : Narrow(which)

Spec == Init /\ [][Next]_vars

-----------------------------------------------------------------------------
\* However the account is narrowed, and wherever a reason is said, each row on
\* the screen reads as what became of its own claim, and a claim that was not
\* made says nothing (rows.rs `shared_reason`, `hushed`).
RowsReadTrue == \A run \in Runs : \A c \in Left(run) : Read(run, c) = Fourth(c)

\* A resume is never sent beside an advertised load, as its row says.
ResumeYields == Fourth("resume") = "prefers load" => driven["resume"] = "unasked"

\* While the agent wants a login the window says so and offers the way through,
\* whatever call it said it of and whether or not it described itself; and each
\* authentication call in flight has its line and is told at its button.
LoginIsTold ==
  /\ said = "wanted" => NeedsLogin /\ LoginDrawn
  /\ NeedsLogin => said = "wanted" /\ (described => Standing # "nothing")
  /\ calls # {} => LoginDrawn /\ Busy = calls

AccountIsSafe == TypeOK /\ RowsReadTrue /\ ResumeYields /\ LoginIsTold

\* docs/architecture.md:653-656: "Both affordances hang off a listing row ... so an
\* agent that advertises close or delete without advertising session/list has the
\* capability displayed and no row to press it on."
UnreachedIsNotDriven ==
  \A c \in claims : Unreached(c) # "reached" => driven[c] = "unasked"

\* auth.rs:74-75: "`Required` is not driven: nobody has sent `authenticate` yet."
\* It may have been sent and accepted, and the agent have asked again; a logout
\* too makes its row read "not called".
AuthenticateStaysDriven ==
  [][agents' = agents /\ AuthDriven # "unasked" => AuthDriven' # "unasked"]_vars
=============================================================================
