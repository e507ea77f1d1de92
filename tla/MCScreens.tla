----------------------------- MODULE MCScreens ------------------------------
(***************************************************************************)
(* What the screens hold beside what they draw, on instances small enough  *)
(* for TLC: the Console's pages (Evidence) and its calls and Clear (Wire), *)
(* the composer (Prompt), the Timeline's page (Flow), the forms of a       *)
(* request (Forms) and its cards (Cards), the MCP servers' rows (Servers), *)
(* where the window looks (Navigation), its commands (Commands), what a    *)
(* frame is read as (Envelope), the sessions listed (Panel), the settings  *)
(* beside the turn (Rail) and the rules of the client services (Rules).    *)
(* They share no state: `part` is the one a behaviour is about, and the    *)
(* slots s1, s2, ... are its variables, in the order it declares them.     *)
(***************************************************************************)
EXTENDS Naturals

TwoCalls == {[method |-> "m", way |-> "out", word |-> "x"],
             [method |-> "n", way |-> "in", word |-> "y"]}

File(bytes, begins, named, reads) ==
  [bytes |-> bytes, begins |-> begins, named |-> named, reads |-> reads]
SomeFiles ==
  {File(1, "image", "other", "bytes"), File(2, "none", "other", "text"),
   File(1, "none", "media", "text")}
SomeLists == {<<>>, <<<<"a">>>>, <<<<"a">>, <<"a", "b">>>>}
SomeTexts == {<<>>, <<"/">>, <<"/", "a", "b">>, <<"x">>}
SomeBudgets == {<<0, 4>>, <<1, 3>>, <<3, 0>>}

Row(id, title, roots) == [id |-> id, title |-> title, roots |-> roots]
SomeRows == {Row("s1", "listed", "here"), Row("s1", "listed", "there"), Row("s2", "none", "none")}

Option(id, kind, current, offers) ==
  [id |-> id, kind |-> kind, current |-> current, offers |-> offers]
SomeOptions ==
  {<<>>, <<Option("o", "grouped", "x", <<"x", "y">>)>>,
   <<Option("o", "grouped", "z", <<"y", "x">>)>>,
   <<Option("o", "boolean", "true", <<>>), Option("o", "select", "y", <<"x", "y">>)>>}
SomeSetups ==
  {[modes |-> <<>>, options |-> <<>>],
   [modes |-> <<[offered |-> {"m", "n"}, current |-> "m"]>>,
    options |-> <<<<Option("o", "grouped", "x", <<"x", "y">>)>>>>],
   [modes |-> <<[offered |-> {"n"}, current |-> "m"]>>, options |-> <<<<>>>>]}

Absent == <<"absent">>
Names(n) == UNION {[1..k -> {"a", "b"}] : k \in 0..n}
Globs(n) == UNION {[1..k -> {"a", "b", "*"}] : k \in 0..n}
Rule(method, path, command, answer, keys) ==
  [method |-> method, path |-> path, command |-> command, answer |-> answer, keys |-> keys]
Plain(method, path, command) == Rule(method, path, command, "result", "known")
RulesFile(sound, unmatched, rules) == [sound |-> sound, unmatched |-> unmatched, rules |-> rules]
SomeRules ==
  {RulesFile("object", "manual", <<Plain(glob, Absent, Absent)>>) : glob \in Globs(3)}
  \cup {RulesFile("object", unmatched, 
                  <<Plain(<<"a">>, path, command), Plain(glob, other, Absent)>>) :
          unmatched \in {"manual", "method-not-found"}, path \in {Absent, <<"a", "*">>},
          command \in {Absent, <<"c">>}, glob \in {<<"a">>, <<"*">>, <<"b">>},
          other \in {Absent, <<"b">>}}
  \cup {RulesFile("notJson", "manual", <<>>), RulesFile("object", "wrong", <<>>),
        RulesFile("object", "manual",
                  <<Plain(<<"a">>, Absent, Absent),
                    Rule(<<"wrong">>, Absent, Absent, "result", "known")>>),
        RulesFile("object", "manual",
                  <<Plain(<<"a">>, Absent, Absent),
                    Rule(<<"b">>, Absent, Absent, "both", "known")>>)}
SomeRequests ==
  {[method |-> name, path |-> Absent, words |-> Absent] : name \in Names(3)}
  \cup {[method |-> <<"a">>, path |-> path, words |-> words] :
          path \in {Absent, <<"a", "b">>, <<"b">>},
          words \in {Absent, <<"c">>, <<"c", "d">>, <<"d">>}}

Choice(id, kind) == [id |-> id, kind |-> kind]
Question(kind, id, options, page) == [kind |-> kind, id |-> id, options |-> options, page |-> page]
Offered == <<Choice("y", "allow_always"), Choice("o", "allow_once"), Choice("o", "reject_once")>>
SomeAsks ==
  {<<Question("permission", "1", Offered, "none")>>,
   <<Question("form", "1", <<>>, "none"), Question("form", "2", <<>>, "none")>>,
   <<Question("service", "1", <<>>, "none")>>, <<Question("service", "1", <<>>, "rule")>>,
   <<Question("url", "1", <<>>, "https")>>, <<Question("url", "1", <<>>, "file")>>}

VARIABLES part, s1, s2, s3, s4, s5, s6, s7, s8, s9, s10, s11, s12, s13, s14, s15, s16, s17, s18,
          s19, s20, s21, s22

E == INSTANCE Evidence WITH
       Words <- {"x", "y"}, Calls <- TwoCalls, Size <- 1, Held <- 2, HeldLines <- 1,
       MaxFrames <- 3, MaxLines <- 1, MaxActs <- 2,
       log <- s1, view <- s2, memo <- s3, acts <- s4
Q == INSTANCE Wire WITH
       MaxConnections <- 2, MaxCalls <- 1, MaxPresses <- 3,
       connected <- s1, connection <- s2, viewing <- s3, nextId <- s4, waiting <- s5,
       frames <- s6, dropped <- s7, dispatching <- s8, due <- s9, pending <- s10, draft <- s11,
       composing <- s12, sending <- s13, sent <- s14, asked <- s15, cancelling <- s16,
       cancelled <- s17, armed <- s18, arming <- s19, timers <- s20, ended <- s21, presses <- s22
P == INSTANCE Prompt WITH
       MaxAttachments <- 2, MaxTotalBytes <- 2, MaxBytes <- 2, Files <- SomeFiles,
       Prompts <- {{"image", "embedded"}, {"embedded"}}, Lists <- SomeLists, Texts <- SomeTexts,
       Budgets <- SomeBudgets, MaxKeys <- 3, MaxArrivals <- 2, MaxTurns <- 2, MaxSessions <- 2,
       session <- s1, turn <- s2, caps <- s3, rows <- s4, next <- s5, completed <- s6,
       queued <- s7, reader <- s8, overflow <- s9, pasting <- s10, deferred <- s11,
       clipboard <- s12, text <- s13, commands <- s14, highlighted <- s15, dismissed <- s16,
       drawn <- s17, prompts <- s18, arrivals <- s19, keys <- s20
L == INSTANCE Flow WITH
       Size <- 2, Capacity <- 2, Messages <- {0, 1}, Requests <- {1},
       MaxEntries <- 3, MaxTurns <- 2, MaxAsks <- 1,
       entries <- s1, turns <- s2, open <- s3, held <- s4, sought <- s5, anchor <- s6,
       focused <- s7, landed <- s8, arrived <- s9, asks <- s10
R == INSTANCE Forms WITH
       Values <- {1}, Policies <- {"ask", "allow"}, Scripts <- {"rules"}, MaxActs <- 4,
       state <- s1, seen <- s2, form <- s3, engine <- s4, ready <- s5, frozen <- s6, filled <- s7,
       written <- s8, shown <- s9, presses <- s10, sent <- s11, hand <- s12, policy <- s13,
       control <- s14, draft <- s15, reading <- s16, claimed <- s17, acts <- s18
S == INSTANCE Servers WITH
       MaxServers <- 2, MaxRows <- 2, MaxActs <- 3,
       draft <- s1, next <- s2, drawn <- s3, wanted <- s4, agent <- s5, capabilities <- s6,
       attempted <- s7, touched <- s8, at <- s9, task <- s10, snapshot <- s11, refused <- s12,
       acts <- s13
N == INSTANCE Navigation WITH
       MaxScripts <- 2, MaxActs <- 1,
       width <- s1, spine <- s2, region <- s3, console <- s4, rail <- s5, drawer <- s6,
       collapsed <- s7, revealed <- s8, sought <- s9, active <- s10, waiting <- s11,
       enabled <- s12, dialog <- s13, focus <- s14, owner <- s15, scripts <- s16, asked <- s17,
       acts <- s18
M == INSTANCE Commands WITH
       Methods <- {"m1"}, Groups <- {"Session"},
       facts <- s1, drawn <- s2, enabled <- s3, settled <- s4, palette <- s5, silent <- s6
V == INSTANCE Envelope WITH
       MaxMembers <- 3, MaxDepth <- 1, Width <- 7, Power <- 2, MaxExplicit <- 9,
       read <- s1
I == INSTANCE Panel WITH
       Ids <- {"s1", "s2"}, Rows <- SomeRows, Restores <- {"load", "none"}, MaxPage <- 2,
       MaxListed <- 3, MaxAsks <- 2, MaxUpdates <- 1, MaxActs <- 1,
       connected <- s1, restores <- s2, listing <- s3, next <- s4, asks <- s5, reports <- s6,
       live <- s7, opening <- s8, fields <- s9, asked <- s10, updates <- s11, acts <- s12,
       said <- s13, last <- s14, sent <- s15
O == INSTANCE Rail WITH
       Modes <- {"m", "n"}, Setups <- SomeSetups, Lists <- SomeOptions, MaxCalls <- 2,
       MaxStates <- 1, MaxSessions <- 2, MaxLooks <- 1,
       agent <- s1, sessions <- s2, live <- s3, modes <- s4, options <- s5, modeChange <- s6,
       refusal <- s7, unoffered <- s8, changing <- s9, setting <- s10, flights <- s11,
       calls <- s12, states <- s13, looks <- s14, tab <- s15, wide <- s16, chosen <- s17,
       picked <- s18, lastStated <- s19, lastOption <- s20
U == INSTANCE Rules WITH
       Files <- SomeRules, Requests <- SomeRequests, Claims <- {{}, {<<"a">>}}, Capacity <- 1,
       MaxRequests <- 2,
       script <- s1, refused <- s2, claimed <- s3, unserviced <- s4, asked <- s5, rule <- s6,
       member <- s7, p <- s8, t <- s9, star <- s10, given <- s11, waiting <- s12, asks <- s13
Y == INSTANCE Cards WITH
       Asks <- SomeAsks, Policies <- {"allow_once"}, MaxPresses <- 1, MaxEdits <- 1,
       asked <- s1, policy <- s2, arrived <- s3, rows <- s4, up <- s5, core <- s6, claim <- s7,
       deciding <- s8, wire <- s9, cards <- s10, presses <- s11, pressed <- s12, edits <- s13

Init ==
  \/ part = "evidence" /\ E!Init
     /\ s5 = 0 /\ s6 = 0 /\ s7 = 0 /\ s8 = 0 /\ s9 = 0 /\ s10 = 0 /\ s11 = 0 /\ s12 = 0 /\ s13 = 0
     /\ s14 = 0 /\ s15 = 0 /\ s16 = 0 /\ s17 = 0 /\ s18 = 0 /\ s19 = 0 /\ s20 = 0 /\ s21 = 0
     /\ s22 = 0
  \/ part = "wire" /\ Q!Init
  \/ part = "prompt" /\ P!Init
     /\ s21 = 0 /\ s22 = 0
  \/ part = "flow" /\ L!Init
     /\ s11 = 0 /\ s12 = 0 /\ s13 = 0 /\ s14 = 0 /\ s15 = 0 /\ s16 = 0 /\ s17 = 0 /\ s18 = 0
     /\ s19 = 0 /\ s20 = 0 /\ s21 = 0 /\ s22 = 0
  \/ part = "forms" /\ R!Init
     /\ s19 = 0 /\ s20 = 0 /\ s21 = 0 /\ s22 = 0
  \/ part = "servers" /\ S!Init
     /\ s14 = 0 /\ s15 = 0 /\ s16 = 0 /\ s17 = 0 /\ s18 = 0 /\ s19 = 0 /\ s20 = 0 /\ s21 = 0
     /\ s22 = 0
  \/ part = "places" /\ N!Init
     /\ s19 = 0 /\ s20 = 0 /\ s21 = 0 /\ s22 = 0
  \/ part = "commands" /\ M!Init
     /\ s7 = 0 /\ s8 = 0 /\ s9 = 0 /\ s10 = 0 /\ s11 = 0 /\ s12 = 0 /\ s13 = 0 /\ s14 = 0
     /\ s15 = 0 /\ s16 = 0 /\ s17 = 0 /\ s18 = 0 /\ s19 = 0 /\ s20 = 0 /\ s21 = 0 /\ s22 = 0
  \/ part = "envelope" /\ V!Init
     /\ s2 = 0 /\ s3 = 0 /\ s4 = 0 /\ s5 = 0 /\ s6 = 0 /\ s7 = 0 /\ s8 = 0 /\ s9 = 0 /\ s10 = 0
     /\ s11 = 0 /\ s12 = 0 /\ s13 = 0 /\ s14 = 0 /\ s15 = 0 /\ s16 = 0 /\ s17 = 0 /\ s18 = 0
     /\ s19 = 0 /\ s20 = 0 /\ s21 = 0 /\ s22 = 0
  \/ part = "sessions" /\ I!Init
     /\ s16 = 0 /\ s17 = 0 /\ s18 = 0 /\ s19 = 0 /\ s20 = 0 /\ s21 = 0 /\ s22 = 0
  \/ part = "rail" /\ O!Init
     /\ s21 = 0 /\ s22 = 0
  \/ part = "rules" /\ U!Init
     /\ s14 = 0 /\ s15 = 0 /\ s16 = 0 /\ s17 = 0 /\ s18 = 0 /\ s19 = 0 /\ s20 = 0 /\ s21 = 0
     /\ s22 = 0
  \/ part = "cards" /\ Y!Init
     /\ s14 = 0 /\ s15 = 0 /\ s16 = 0 /\ s17 = 0 /\ s18 = 0 /\ s19 = 0 /\ s20 = 0 /\ s21 = 0
     /\ s22 = 0

Next ==
  /\ UNCHANGED part
  /\ \/ part = "evidence" /\ E!Next
        /\ UNCHANGED <<s5, s6, s7, s8, s9, s10, s11, s12, s13, s14, s15, s16, s17, s18, s19, s20,
                        s21, s22>>
     \/ part = "wire" /\ Q!Next
     \/ part = "prompt" /\ P!Next
        /\ UNCHANGED <<s21, s22>>
     \/ part = "flow" /\ L!Next
        /\ UNCHANGED <<s11, s12, s13, s14, s15, s16, s17, s18, s19, s20, s21, s22>>
     \/ part = "forms" /\ R!Next
        /\ UNCHANGED <<s19, s20, s21, s22>>
     \/ part = "servers" /\ S!Next
        /\ UNCHANGED <<s14, s15, s16, s17, s18, s19, s20, s21, s22>>
     \/ part = "places" /\ N!Next
        /\ UNCHANGED <<s19, s20, s21, s22>>
     \/ part = "commands" /\ M!Next
        /\ UNCHANGED <<s7, s8, s9, s10, s11, s12, s13, s14, s15, s16, s17, s18, s19, s20, s21,
                        s22>>
     \/ part = "envelope" /\ V!Next
        /\ UNCHANGED <<s2, s3, s4, s5, s6, s7, s8, s9, s10, s11, s12, s13, s14, s15, s16, s17,
                        s18, s19, s20, s21, s22>>
     \/ part = "sessions" /\ I!Next
        /\ UNCHANGED <<s16, s17, s18, s19, s20, s21, s22>>
     \/ part = "rail" /\ O!Next
        /\ UNCHANGED <<s21, s22>>
     \/ part = "rules" /\ U!Next
        /\ UNCHANGED <<s14, s15, s16, s17, s18, s19, s20, s21, s22>>
     \/ part = "cards" /\ Y!Next
        /\ UNCHANGED <<s14, s15, s16, s17, s18, s19, s20, s21, s22>>

Spec == Init /\ [][Next]_<<part, s1, s2, s3, s4, s5, s6, s7, s8, s9, s10, s11, s12, s13, s14, s15,
                          s16, s17, s18, s19, s20, s21, s22>>

-----------------------------------------------------------------------------
\* What does not depend on the state, said once.
KeysAreTheirOwn == M!KeysAreTheirOwn
IdsAreTold == V!IdsAreTold

\* What is drawn is what was asked for: a page, a place, a command, a listed
\* session or a setting stays the one meant while logs drop from the front,
\* agents restate and answers come late, and a frame is read as what it is
\* (console.rs, timeline.rs, navigation.rs, palette.rs, sessions.rs, rail.rs).
PagesHoldWhatIsAsked ==
  /\ part = "evidence" => E!EvidenceIsSafe
  /\ part = "flow" => L!FlowIsSafe
  /\ part = "places" => N!NavigationIsSafe
  /\ part = "commands" => M!CommandsAreOffered /\ KeysAreTheirOwn
  /\ part = "envelope" => V!FramesAreReadRight /\ IdsAreTold
  /\ part = "sessions" => I!PanelIsSafe
  /\ part = "rail" => O!RailIsSafe

\* What is sent is what the reader saw: no attachment still read, no calls of
\* another connection, no answer but the one filled in on its own card, no rule
\* but the first that matches (composer.rs, wire.rs, elicitation.rs, rules.rs).
SentIsWhatWasSeen ==
  /\ part = "wire" => Q!WireIsSafe
  /\ part = "prompt" => P!PromptIsSafe
  /\ part = "forms" => R!FormsAreSafe
  /\ part = "servers" => S!ServersAreSafe
  /\ part = "rules" => U!RulesAreKept
  /\ part = "cards" => Y!CardsAreSafe
=============================================================================
