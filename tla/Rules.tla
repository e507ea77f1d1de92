-------------------------------- MODULE Rules --------------------------------
(***************************************************************************)
(* A rules file and the requests it answers (core script.rs, with          *)
(* client/requests.rs `service` and services.rs): the file is read         *)
(* strictly, the first rule that matches answers, and what none matches    *)
(* goes to a card or is refused.  `glob` is the code's own loop, a step of *)
(* it at a time; `Matched` is what it should compute.                      *)
(*                                                                         *)
(* A text is a sequence of characters, a pattern may hold Star.            *)
(***************************************************************************)
EXTENDS Naturals, Sequences, FiniteSets, TLC

CONSTANTS
  Files,         \* rules files: [sound, unmatched, rules]
  Requests,      \* requests: [method, path, words], Absent where not named
  Claims,        \* the methods a launch may claim, each a set
  Capacity,      \* how many requests may wait for the reader
  MaxRequests    \* bound

Star == "*"
Absent == <<"absent">>      \* no such member
Wrong == <<"wrong">>        \* a member of another type
NoFile == [rules |-> <<>>, unmatched |-> "manual"]

VARIABLES
  script,       \* what the launch holds: the rules in order, and the unmatched
  refused,      \* why the file could not be used: "", "file" or the rule's number
  claimed, unserviced,   \* the launch's claims; answer other requests by hand
  asked,        \* the request being served: <<>> or <<request>>
  rule,         \* the rule being tried
  member,       \* method, path or command: what of it is compared
  p, t, star,   \* glob's cursors, and where the last star was and how much it ate
  given,        \* what became of the last one: <<>>, or <<[of, how, rule]>>
  waiting,      \* cards the reader has to answer
  asks

launch == <<script, refused, claimed, unserviced>>
glob == <<p, t, star>>
trying == <<rule, member>>
vars == <<launch, asked, trying, glob, given, waiting, asks>>

TypeOK ==
  /\ rule \in Nat /\ member \in {"method", "path", "command"}
  /\ p \in Nat /\ t \in Nat /\ Len(star) \in {0, 2}
  /\ waiting \in 0..Capacity /\ asks \in 0..MaxRequests
  /\ Len(asked) <= 1 /\ Len(given) <= 1
  /\ \A i \in DOMAIN given : given[i].how \in {"scripted", "card", "notFound", "capacity"}

Init ==
  /\ script = NoFile /\ refused = "" /\ claimed \in Claims /\ unserviced \in BOOLEAN
  /\ asked = <<>> /\ rule = 1 /\ member = "method" /\ p = 1 /\ t = 1 /\ star = <<>>
  /\ given = <<>> /\ waiting = 0 /\ asks = 0

(***************************************************************************)
(* Reading the file.                                                       *)
(***************************************************************************)
\* A rule has a method, text where it has a path or a command, no key but the
\* known ones, and one of a result and an error.
WellFormed(r) ==
  /\ r.keys = "known" /\ r.method \notin {Absent, Wrong} /\ r.path # Wrong /\ r.command # Wrong
  /\ r.answer \in {"result", "error"}

Read(file) ==
  /\ asks = 0 /\ script = NoFile /\ refused = "" /\ UNCHANGED <<claimed, unserviced>>
  /\ LET bad == {i \in DOMAIN file.rules : ~WellFormed(file.rules[i])}
     IN IF file.sound # "object" \/ file.unmatched = "wrong" THEN refused' = "file" /\ UNCHANGED script
        ELSE IF bad # {}
        THEN refused' = ToString(CHOOSE i \in bad : \A j \in bad : i <= j) /\ UNCHANGED script
        ELSE script' = [rules |-> file.rules, unmatched |-> file.unmatched] /\ UNCHANGED refused
  /\ UNCHANGED <<asked, trying, glob, given, waiting, asks>>

(***************************************************************************)
(* The first rule that matches.                                            *)
(***************************************************************************)
Request == asked[1]
Rule == script.rules[rule]
Compared == rule <= Len(script.rules)
Pattern == IF member = "method" THEN Rule.method ELSE Rule.path
Text == IF member = "method" THEN Request.method ELSE Request.path

Rewind == p' = 1 /\ t' = 1 /\ star' = <<>>
Tries(n, of) == rule' = n /\ member' = of /\ Rewind

Ask(r) ==
  /\ asked = <<>> /\ asks < MaxRequests /\ asks' = asks + 1
  /\ asked' = <<r>> /\ given' = <<>> /\ Tries(1, "method")
  /\ UNCHANGED <<launch, waiting>>

\* What a rule says after one of its members agreed.
Onward ==
  IF member = "method" /\ Rule.path # Absent THEN "path"
  ELSE IF member # "command" /\ Rule.command # Absent THEN "command"
  ELSE "all"

Answers(how, n, cards) ==
  /\ given' = <<[of |-> Request, how |-> how, rule |-> n]>> /\ asked' = <<>> /\ waiting' = waiting + cards
  /\ Tries(1, "method")

Agrees ==
  IF Onward = "all" THEN Answers("scripted", rule, 0) /\ UNCHANGED <<launch, asks>>
  ELSE Tries(rule, Onward) /\ UNCHANGED <<launch, asked, given, waiting, asks>>
Disagrees == Tries(rule + 1, "method") /\ UNCHANGED <<launch, asked, given, waiting, asks>>

Globbing ==
  /\ asked # <<>> /\ Compared
  /\ member = "method" \/ (member = "path" /\ Request.path # Absent)
Reading == Globbing /\ t <= Len(Text)

\* A star is tried with nothing first, then with one character more each time.
AtStar == p <= Len(Pattern) /\ Pattern[p] = Star
AtSame == p <= Len(Pattern) /\ Pattern[p] # Star /\ Pattern[p] = Text[t]

Stars ==
  /\ Reading /\ AtStar /\ star' = <<p, t>> /\ p' = p + 1
  /\ UNCHANGED <<t, launch, asked, trying, given, waiting, asks>>

Same ==
  /\ Reading /\ AtSame /\ p' = p + 1 /\ t' = t + 1
  /\ UNCHANGED <<star, launch, asked, trying, given, waiting, asks>>

Back ==
  /\ Reading /\ ~AtStar /\ ~AtSame /\ star # <<>>
  /\ p' = star[1] + 1 /\ t' = star[2] + 1 /\ star' = <<star[1], star[2] + 1>>
  /\ UNCHANGED <<launch, asked, trying, given, waiting, asks>>

Misses == Reading /\ ~AtStar /\ ~AtSame /\ star = <<>> /\ Disagrees

\* The text is over: what is left of the pattern is stars, or it is no match.
TextOver ==
  /\ Globbing /\ t > Len(Text)
  /\ IF \A i \in p..Len(Pattern) : Pattern[i] = Star THEN Agrees ELSE Disagrees

\* A path is wanted where the request names none.
NoPath == asked # <<>> /\ Compared /\ member = "path" /\ Request.path = Absent /\ Disagrees

Begins(prefix, words) == Len(prefix) <= Len(words) /\ SubSeq(words, 1, Len(prefix)) = prefix

CommandLine ==
  /\ asked # <<>> /\ Compared /\ member = "command"
  /\ IF Request.words # Absent /\ Begins(Rule.command, Request.words) THEN Agrees ELSE Disagrees

\* No rule matched: the launch's settings decide, unless the file says not found.
ByHand == (Request.method \in claimed \/ unserviced) /\ script.unmatched # "method-not-found"

Unmatched ==
  /\ asked # <<>> /\ ~Compared /\ UNCHANGED <<launch, asks>>
  /\ IF ~ByHand THEN Answers("notFound", 0, 0)
     ELSE IF waiting = Capacity THEN Answers("capacity", 0, 0)
     ELSE Answers("card", 0, 1)

\* The reader answers a card.
Answered ==
  /\ asked = <<>> /\ waiting > 0 /\ waiting' = waiting - 1
  /\ UNCHANGED <<launch, asked, trying, glob, given, asks>>

Next ==
  \/ \E file \in Files : Read(file)
  \/ \E r \in Requests : Ask(r)
  \/ Stars \/ Same \/ Back \/ Misses \/ TextOver \/ NoPath \/ CommandLine \/ Unmatched \/ Answered

Spec == Init /\ [][Next]_vars

(***************************************************************************)
(* The reference: Matched(pattern, text) by what a star stands for.        *)
(***************************************************************************)
Matched(pattern, text) ==
  LET m[i \in 1..(Len(pattern) + 1), j \in 1..(Len(text) + 1)] ==
        IF i > Len(pattern) THEN j > Len(text)
        ELSE IF pattern[i] = Star THEN \E k \in j..(Len(text) + 1) : m[i + 1, k]
        ELSE j <= Len(text) /\ pattern[i] = text[j] /\ m[i + 1, j + 1]
  IN m[1, 1]

RuleMatches(r, request) ==
  /\ Matched(r.method, request.method)
  /\ r.path # Absent => request.path # Absent /\ Matched(r.path, request.path)
  /\ r.command # Absent => request.words # Absent /\ Begins(r.command, request.words)
-----------------------------------------------------------------------------
\* A request is answered by the first rule that matches it, and otherwise by what
\* the launch says; a card only where the service was claimed or asked for, and
\* never where the file says not found.
FirstMatchAnswers ==
  \A i \in DOMAIN given :
    LET request == given[i].of
        matching == {n \in DOMAIN script.rules : RuleMatches(script.rules[n], request)}
    IN /\ given[i].how = "scripted" <=> matching # {}
       /\ given[i].how = "scripted" => /\ given[i].rule \in matching
                                       /\ \A n \in matching : given[i].rule <= n
       /\ given[i].how = "card" => /\ request.method \in claimed \/ unserviced
                                   /\ script.unmatched = "manual"

\* A rule is passed over only where it does not match.
PassedOver ==
  asked # <<>> =>
    /\ \A n \in 1..(rule - 1) : n <= Len(script.rules) => ~RuleMatches(script.rules[n], Request)
    /\ Compared /\ member # "method" => Matched(Rule.method, Request.method)

\* A file is used whole or not at all: no rule with a typo stands in it, and one
\* that was refused answers nothing.
UsedWholeOrNot ==
  /\ \A n \in DOMAIN script.rules : WellFormed(script.rules[n])
  /\ script # NoFile => \E file \in Files : file.rules = script.rules
  /\ refused # "" => script = NoFile

RulesAreKept == TypeOK /\ FirstMatchAnswers /\ PassedOver /\ UsedWholeOrNot
=============================================================================
