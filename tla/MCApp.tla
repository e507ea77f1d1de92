------------------------------- MODULE MCApp --------------------------------
(***************************************************************************)
(* What stands around the inspector, on instances small enough for TLC:    *)
(* launches, files and quitting (Window), calls in flight (Work), the      *)
(* account of what was advertised (Account), controls (Controls), the      *)
(* files kept (Kept), turns on threads of their own (Turn), the launch     *)
(* form (LaunchForm), exported traces (TraceFile), the inspector's calls   *)
(* over a reconnect (Facade) and the command line's arguments (Arguments). *)
(* They share no state: `part` is the one a behaviour is about, and the    *)
(* slots s1, s2, ... are its variables, in the order it declares them.     *)
(***************************************************************************)
EXTENDS Naturals

CONSTANTS
  Methods, Options, Values, Invocations, Users   \* model values

SomeClaims ==
  {{"close", "delete", "image"}, {"load", "resume", "list", "roots", "auth"},
   {"auth", "logout", "http"}}

Frame(way, kind, method, hand, lossy) ==
  [way |-> way, kind |-> kind, method |-> method, hand |-> hand, lossy |-> lossy]
SomeFrames ==
  {Frame("toAgent", "call", "prompt", hand, FALSE) : hand \in BOOLEAN}
  \cup {Frame("fromAgent", "result", "none", FALSE, lossy) : lossy \in BOOLEAN}
  \cup {Frame("toAgent", "call", "initialize", FALSE, FALSE),
        Frame("toAgent", "result", "none", FALSE, FALSE),
        Frame("fromAgent", "call", "permission", FALSE, FALSE),
        Frame("fromAgent", "omitted", "none", FALSE, FALSE)}

Word(text) == [text |-> text, name |-> "", inline |-> "none"]
Flag(text) == [text |-> text, name |-> text, inline |-> "none"]
Valued(text, name, value) == [text |-> text, name |-> name, inline |-> value]
SomeWords ==
  {Word(text) : text \in {"run", "inspect", "agent", "-", "bytes", "A=1"}}
  \cup {Flag(text) : text \in {"--", "--json", "--cwd", "--prompt", "--prompt-file", "--env",
                               "--help", "--version"}}
  \cup {Valued("--prompt-file=-", "--prompt-file", "-"), Valued("--cwd=d", "--cwd", "d"),
        Valued("--permission=allow", "--permission", "allow")}

VARIABLES part, s1, s2, s3, s4, s5, s6, s7, s8, s9, s10, s11, s12, s13, s14, s15, s16, s17, s18,
          s19, s20, s21

W == INSTANCE Window WITH
       MaxLaunches <- 2, MaxFrames <- 1, MaxActs <- 1,
       live <- s1, answered <- s2, running <- s3, stopping <- s4, recorded <- s5, dropped <- s6,
       shown <- s7, launches <- s8, task <- s9, launching <- s10, remembered <- s11,
       watched <- s12, opened <- s13, opening <- s14, work <- s15, snapshot <- s16, saved <- s17,
       acts <- s18, quit <- s19, asking <- s20, forced <- s21
K == INSTANCE Work WITH
       MaxCalls <- 2, MaxLaunches <- 2, MaxSwitches <- 2,
       connected <- s1, switches <- s2, shown <- s3, launches <- s4, flight <- s5, begun <- s6,
       auth <- s7, listing <- s8, settings <- s9, failed <- s10, dialog <- s11
A == INSTANCE Account WITH
       MaxAgents <- 1, Claimable <- SomeClaims,
       agents <- s1, described <- s2, connected <- s3, claims <- s4, driven <- s5, auth <- s6,
       calls <- s7, said <- s8, live <- s9, rows <- s10, supplied <- s11, only <- s12
C == INSTANCE Controls WITH
       MaxArmings <- 2, MaxStates <- 2, MaxOffered <- 2,
       connected <- s1, armed <- s2, arming <- s3, timers <- s4, ended <- s5, offered <- s6,
       current <- s7, stated <- s8, epoch <- s9, selected <- s10, chosen <- s11, sent <- s12,
       walked <- s13
F == INSTANCE Kept WITH
       Capacity <- 2, MaxEdits <- 3, MaxStarts <- 2,
       up <- s1, starts <- s2, loaded <- s3, held <- s4, file <- s5, staged <- s6, holder <- s7,
       unsaved <- s8, queue <- s9, edits <- s10, asked <- s11, promised <- s12, aside <- s13
T == INSTANCE Turn WITH
       MaxPrompts <- 2, MaxCancels <- 1, OneThread <- FALSE, Stalls <- FALSE,
       Leaves <- {"restore"}, Hasty <- FALSE,
       turn <- s1, awaiting <- s2, armed <- s3, sent <- s4, pending <- s5, closed <- s6,
       result <- s7, open <- s8, rows <- s9, notes <- s10, user <- s11, cancels <- s12,
       reader <- s13, finisher <- s14, up <- s15, agent <- s16
L == INSTANCE LaunchForm WITH
       Programs <- {"p"}, Names <- {"n"}, MaxRecent <- 2, MaxHeld <- 1,
       MaxLaunches <- 2, MaxLines <- 2, MaxActs <- 2,
       form <- s1, missing <- s2, confirmed <- s3, followed <- s4, filled <- s5, launched <- s6,
       prefill <- s7, recent <- s8, task <- s9, launch <- s10, mark <- s11, fresh <- s12,
       lines <- s13, gone <- s14, seen <- s15, described <- s16, status <- s17, problem <- s18,
       recalled <- s19, acts <- s20
X == INSTANCE TraceFile WITH
       Shapes <- SomeFrames, Ids <- {1, 2}, MaxFrames <- 3, MaxSaid <- 1,
       MaxConnections <- 2, MaxSaves <- 1, MaxDoc <- 1, MaxNames <- 2,
       frames <- s1, gone <- s2, said <- s3, now <- s4, connection <- s5, next <- s6, owed <- s7,
       disk <- s8, writing <- s9, saves <- s10, told <- s11, left <- s12
D == INSTANCE Facade WITH
       Choices <- {{}, {"readTextFile", "terminal"}}, Drafts <- {"empty", "http"},
       Families <- {{"load", "close", "list"}},
       Asks <- {"new", "load", "close", "set", "prompt"}, Stalls <- TRUE,
       MaxConnections <- 2, MaxCalls <- 2, MaxChoices <- 1, MaxRows <- 1,
       made <- s1, live <- s2, draft <- s3, chosen <- s4, choices <- s5, given <- s6,
       offers <- s7, agent <- s8, claim <- s9, policy <- s10, session <- s11, listing <- s12,
       auth <- s13, turn <- s14, settings <- s15, driven <- s16, rows <- s17, call <- s18,
       registered <- s19, starting <- s20, carried <- s21
G == INSTANCE Arguments WITH
       Words <- SomeWords, Readable <- {"agent", "2"}, MaxWords <- 4,
       line <- s1, reading <- s2, awaiting <- s3, run <- s4, command <- s5, path <- s6,
       args <- s7, verdict <- s8, texts <- s9, drained <- s10, does <- s11

Init ==
  \/ part = "window" /\ W!Init
  \/ part = "calls" /\ K!Init
     /\ s12 = 0 /\ s13 = 0 /\ s14 = 0 /\ s15 = 0 /\ s16 = 0 /\ s17 = 0 /\ s18 = 0 /\ s19 = 0
     /\ s20 = 0 /\ s21 = 0
  \/ part = "account" /\ A!Init
     /\ s13 = 0 /\ s14 = 0 /\ s15 = 0 /\ s16 = 0 /\ s17 = 0 /\ s18 = 0 /\ s19 = 0 /\ s20 = 0
     /\ s21 = 0
  \/ part = "controls" /\ C!Init
     /\ s14 = 0 /\ s15 = 0 /\ s16 = 0 /\ s17 = 0 /\ s18 = 0 /\ s19 = 0 /\ s20 = 0 /\ s21 = 0
  \/ part = "files" /\ F!Init
     /\ s14 = 0 /\ s15 = 0 /\ s16 = 0 /\ s17 = 0 /\ s18 = 0 /\ s19 = 0 /\ s20 = 0 /\ s21 = 0
  \/ part = "turn" /\ T!Init
     /\ s17 = 0 /\ s18 = 0 /\ s19 = 0 /\ s20 = 0 /\ s21 = 0
  \/ part = "form" /\ L!Init
     /\ s21 = 0
  \/ part = "export" /\ X!Init
     /\ s13 = 0 /\ s14 = 0 /\ s15 = 0 /\ s16 = 0 /\ s17 = 0 /\ s18 = 0 /\ s19 = 0 /\ s20 = 0
     /\ s21 = 0
  \/ part = "facade" /\ D!Init
  \/ part = "line" /\ G!Init
     /\ s12 = 0 /\ s13 = 0 /\ s14 = 0 /\ s15 = 0 /\ s16 = 0 /\ s17 = 0 /\ s18 = 0 /\ s19 = 0
     /\ s20 = 0 /\ s21 = 0

Next ==
  /\ UNCHANGED part
  /\ \/ part = "window" /\ W!Next
     \/ part = "calls" /\ K!Next
        /\ UNCHANGED <<s12, s13, s14, s15, s16, s17, s18, s19, s20, s21>>
     \/ part = "account" /\ A!Next
        /\ UNCHANGED <<s13, s14, s15, s16, s17, s18, s19, s20, s21>>
     \/ part = "controls" /\ C!Next
        /\ UNCHANGED <<s14, s15, s16, s17, s18, s19, s20, s21>>
     \/ part = "files" /\ F!Next
        /\ UNCHANGED <<s14, s15, s16, s17, s18, s19, s20, s21>>
     \/ part = "turn" /\ T!Next
        /\ UNCHANGED <<s17, s18, s19, s20, s21>>
     \/ part = "form" /\ L!Next
        /\ UNCHANGED <<s21>>
     \/ part = "export" /\ X!Next
        /\ UNCHANGED <<s13, s14, s15, s16, s17, s18, s19, s20, s21>>
     \/ part = "facade" /\ D!Next
     \/ part = "line" /\ G!Next
        /\ UNCHANGED <<s12, s13, s14, s15, s16, s17, s18, s19, s20, s21>>

Spec == Init /\ [][Next]_<<part, s1, s2, s3, s4, s5, s6, s7, s8, s9, s10, s11, s12, s13, s14, s15,
                          s16, s17, s18, s19, s20, s21>>

-----------------------------------------------------------------------------
\* Quitting leaves no agent behind and loses no frame unasked, and one launch is
\* in flight at a time (quit.rs, export.rs, launch.rs).
QuitLosesNothing == part = "window" => W!QuitLosesNothing

\* What is said of a call is of that call: what the window counts as in flight
\* is what is, every row of the account and every control says what became of
\* its own claim, arming or choice, and a call's outcome is told of the agent
\* it was made to (claims.rs, rows.rs, deletion.rs, inspector/mod.rs).
EverythingReadsTrue ==
  /\ part = "calls" => K!WorkIsSafe
  /\ part = "account" => A!AccountIsSafe
  /\ part = "controls" => C!ControlsAreSafe
  /\ part = "facade" => D!CallsTellTheirAgent

\* What does not depend on the state, said once.
BytesReadBack == X!BytesReadBack

\* What is written is read again as it was: the files kept are whole whatever
\* is edited or lost in a crash, a launch is remembered as it was launched, an
\* exported trace is the trace, and a command line runs as it was written
\* (kept.rs, recent.rs, spawn.rs, export.rs, args.rs).
WhatIsWrittenIsRead ==
  /\ part = "files" => F!KeptIsSafe
  /\ part = "form" => L!LaunchFormIsSafe
  /\ part = "export" => X!FilesAreHonest /\ BytesReadBack
  /\ part = "line" => G!LineIsHeard

\* On threads of their own, as in the app: the answer a turn awaits is still to
\* come, whoever settles, cancels or restores meanwhile (client/turn.rs).
AwaitedIsPending == part = "turn" => T!AwaitedIsPending
=============================================================================
