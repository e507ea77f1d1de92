---------------------------- MODULE SessionProofs ----------------------------
(***************************************************************************)
(* What Session promises for any number of calls, sessions and updates:    *)
(* every outcome is recorded once, however opens overlap; and, with one    *)
(* open in flight at a time, the settings on show and the notes of what a  *)
(* load replayed are true.                                                 *)
(***************************************************************************)
EXTENDS Session, FiniteSetTheorems, TLAPS

USE SessionAssumption

(***************************************************************************)
(* The types, closer than TypeOK's.                                        *)
(***************************************************************************)
AnyOp == Opens \cup Ends \cup Sets \cup {"list", "login", "logout"}
Session0 == Sessions \cup {None}
Mode0 == Modes \cup {None}
Option0 == Options \cup {None}
Word == {"ok", "garbled", "refused", "auth", "dropped"}

Reply == [how : Word \cup {"none", "gone"}, on : Session0, modes : Mode0, opts : Option0]
Record == [op : AnyOp \cup {"none"}, on : Session0, ask : {None} \cup 0..Pages,
           caps : SUBSET Capabilities, at : Steps, got : Reply]
Frame(kind, who, reply, on, says) ==
  [kind : {kind}, call : who, reply : reply, on : on, says : says]
AnswerFrame == Frame("answer", Calls, {r \in Reply : r.how \in Word}, Session0, {None})
TalkFrame == Frame("talk", {0}, {Unheard}, Sessions, {None})
ModeFrame == Frame("mode", {0}, {Unheard}, Sessions, Modes)
OptionFrame == Frame("options", {0}, {Unheard}, Sessions, Options)
Frames == AnswerFrame \cup TalkFrame \cup ModeFrame \cup OptionFrame

SettingsType == [of : Session0, modes : Mode0, opts : Option0, unoffered : Mode0,
                 change : [how : {"none", "acknowledged", "refused"}, by : 0..MaxCalls],
                 refusal : 0..MaxCalls]

StoresTyped ==
  /\ live \in Session0 /\ openedLast \in Session0 /\ settings \in SettingsType
  /\ driven \in [Capabilities -> {"unasked", "answered", "refused"}]
  /\ auth \in {"unasked", "required", "authenticated", "refused"}
  /\ listing \in [pages : Seq(1..Pages), next : 0..Pages]
  /\ notes \subseteq Calls /\ conversed \subseteq Sessions
SlotsTyped ==
  /\ opening \subseteq [call : Calls, how : Opens, on : Session0, stated : Mode0]
  /\ loading \subseteq [call : Calls, on : Session0, replayed : BOOLEAN]
  /\ changing \subseteq [call : Calls, restated : BOOLEAN]
  /\ setting \subseteq Calls
CallsTyped ==
  /\ call \in [Calls -> Record] /\ driving \in [Calls -> SUBSET Capabilities]
  /\ told \in [Calls -> Nat]
  /\ pending \subseteq Calls /\ asked \subseteq Calls /\ lost \subseteq Calls /\ heardIn \subseteq Calls
WireTyped ==
  /\ up \in Seq(Frames) /\ said \in 0..MaxSaid /\ conn \in {"open", "closing", "down"}
Types == StoresTyped /\ SlotsTyped /\ CallsTyped /\ WireTyped

\* A slot holds one call.
AtMostOne(S) == \A x, y \in S : x = y
OneEach == AtMostOne(opening) /\ AtMostOne(loading) /\ AtMostOne(changing) /\ AtMostOne(setting)

(***************************************************************************)
(* The calls.                                                              *)
(***************************************************************************)
\* A call that has been made has one of the operations and fits it.
Fits(c) ==
  /\ call[c].op \in AnyOp /\ call[c].ask \in 0..Pages
  /\ call[c].op \in Sets => call[c].caps = {} /\ (call[c].at = "failed" \/ call[c].on # None)
  /\ call[c].at = "leaving" => call[c].op \in Opens
CallsFit ==
  /\ \E n \in 0..MaxCalls : Made = 1..n
  /\ \A c \in Made : Fits(c)

\* Where a call is: not registered yet, about to arm, sent or over.
Early(c) == call[c].at \in {"none", "begun", "prepared"} \/ (call[c].at = "leaving" /\ call[c].op = "new")
Away(c) == call[c].at = "waiting" \/ Over(c)
Armed(c) == call[c].at = "armed" \/ Away(c)
Answered(c) == call[c].got.how \in Word

\* The slots hold calls that armed them; the agent, calls that were sent.
SlotsHoldTheirs ==
  /\ \A o \in opening : /\ Armed(o.call) /\ call[o.call].op = o.how /\ call[o.call].on = o.on
  /\ \A l \in loading : /\ Armed(l.call) /\ call[l.call].op = "load" /\ call[l.call].on = l.on
  /\ \A m \in changing : Armed(m.call) /\ call[m.call].op = "mode"
  /\ \A c \in setting : Armed(c) /\ call[c].op = "option"
Answering == {up[k].call : k \in {j \in DOMAIN up : up[j].kind = "answer"}}
SentIsAway == \A c \in asked \cup Answering : Away(c)
HeardAreArmed == \A c \in heardIn : Armed(c)

(***************************************************************************)
(* The ledger of outcomes.                                                 *)
(***************************************************************************)
Held0(c) == driving[c] # {} \/ c \in Waited
Ledger(c) ==
  /\ told[c] <= 1
  /\ driving[c] \subseteq call[c].caps
  /\ Early(c) => told[c] = 0 /\ driving[c] = {}
  /\ told[c] = 1 => ~Held0(c) /\ (call[c].op \in Sets => Armed(c))
  /\ Answered(c) \/ Over(c) => ~Held0(c)
  /\ Answered(c) => Away(c)
  /\ told[c] = 0 /\ Owed(c) /\ c \notin lost =>
       Early(c) \/ (call[c].op \in Sets /\ call[c].at = "left") \/ Held0(c)
Ledgers == \A c \in Calls : Ledger(c)

IInv == Types /\ OneEach /\ CallsFit /\ SlotsHoldTheirs /\ SentIsAway /\ HeardAreArmed /\ Ledgers

(***************************************************************************)
(* With one open in flight at a time: what a load hears, and whose the     *)
(* settings are.                                                           *)
(***************************************************************************)
Settled(c) == call[c].at \in {"done", "failed"}
Opener(c) == call[c].at # "none" /\ call[c].op \in Opens
OneOpen == \A c, d \in Calls : Opener(c) /\ Opener(d) /\ c # d => Settled(c) \/ Settled(d)

\* Each call is in the table from when it is prepared until it is answered, and
\* the agent holds it, or its answer is on its way, only once.
Unasked(c) == call[c].at \in {"none", "begun"} \/ (call[c].at = "leaving" /\ call[c].op = "new")
Prepared(c) == call[c].at \in {"prepared", "leaving", "left", "armed", "waiting"} /\ ~Unasked(c)
IsAnswer(k) == k \in DOMAIN up /\ up[k].kind = "answer"
AnsweredOnce ==
  /\ \A c \in Calls : call[c].got.how = "gone" => conn # "open"
  /\ \A c \in Calls : Unasked(c) => c \notin pending /\ call[c].got = Unheard
  /\ \A c \in pending : call[c].got = Unheard
  /\ \A c \in Calls : conn = "open" /\ Prepared(c) /\ ~Answered(c) => c \in pending
  /\ conn # "open" => up = <<>> /\ pending = {}
  /\ \A c \in asked \cup Answering : call[c].at = "waiting" /\ c \in pending
  /\ asked \cap Answering = {}
  /\ \A j, k \in DOMAIN up : IsAnswer(j) /\ IsAnswer(k) /\ up[j].call = up[k].call => j = k
  /\ \A k \in DOMAIN up : IsAnswer(k) => up[k].on = up[k].reply.on

\* While the connection lasts, an open that waits has its slot, and the slots
\* are of calls that still wait.
Awaited ==
  /\ \A c \in Calls : conn = "open" /\ call[c].at \in {"armed", "waiting"} /\ call[c].op \in Opens /\ ~Answered(c)
       => \E o \in opening : o.call = c
  /\ \A slot \in opening \cup loading : ~Answered(slot.call) /\ (Over(slot.call) => conn # "open")
  /\ conn = "open" => \A l \in loading : \E o \in opening : o.call = l.call

\* A load heard of has replayed something, and one noted to have replayed
\* nothing was not heard of and waits no more.
NotesFollow ==
  /\ \A l \in loading : l.call \in heardIn => l.replayed
  /\ \A c \in notes : /\ call[c].op = "load" /\ Away(c) /\ c \notin heardIn
                      /\ \A l \in loading : l.call # c

NInv == IInv /\ OneOpen /\ AnsweredOnce /\ Awaited /\ NotesFollow

\* The answer to a session/new names a session nobody used yet.
LiveIsMinted ==
  live # None => \E c \in Made : live = call[c].on \/ live = call[c].got.on
Uses(s) == \/ live = s
           \/ \E c \in Calls : call[c].op \in Sets /\ call[c].on = s
UnusedSessions ==
  \A k \in DOMAIN up : IsAnswer(k) /\ call[up[k].call].op = "new" /\ up[k].on # None => ~Uses(up[k].on)

\* The settings are the session's the connection opened last, and the live
\* one's once its open has returned.
OpenedBy(c) == IF call[c].op = "new" THEN call[c].got.on ELSE call[c].on
Returns(c) == call[c].at = "waiting" /\ call[c].op \in Opens /\ call[c].got.how \in {"ok", "garbled"}
SettingsFollow ==
  /\ settings.of # None => settings.of = openedLast
  /\ settings.of # None => settings.of = live \/ \E c \in Calls : Returns(c) /\ OpenedBy(c) = settings.of
  /\ \A c \in Calls : Returns(c) => settings.of \in {None, OpenedBy(c)}

\* A set is asked of the live session, and leaving a session leaves none.
Leaves(c) == \/ call[c].op = "new" /\ call[c].at \in {"begun", "prepared", "left"}
             \/ call[c].op \in Restores /\ call[c].at = "left"
SetsFollowLive ==
  /\ \A c \in Calls : call[c].op \in Sets /\ call[c].at \in {"begun", "prepared", "left", "armed"}
       => call[c].on = live
  /\ live = None => changing = {}
  /\ \A c \in Calls : Leaves(c) => changing = {}
  /\ \A m \in changing : call[m.call].on # None
\* A set heard of without its answer knowing was of a session the settings
\* are not of.
HeardSetsAreRestated ==
  /\ \A m \in changing : m.call \in heardIn /\ ~m.restated => call[m.call].on # settings.of
  /\ \A m \in changing, o \in opening :
       call[m.call].on = o.on /\ m.call \in heardIn => m.restated
ShownIsASet == settings.change.how = "acknowledged" =>
                 Shown \in Calls /\ call[Shown].op = "mode" /\ Armed(Shown)

JInv == NInv /\ LiveIsMinted /\ UnusedSessions /\ SettingsFollow /\ SetsFollowLive /\ HeardSetsAreRestated
        /\ ShownIsASet /\ RestatementStands

(***************************************************************************)
(* The types.                                                              *)
(***************************************************************************)
LEMMA HeadIsOne ==
  ASSUME NEW S, NEW s \in Seq(S), s # <<>>
  PROVE  /\ Head(s) \in S /\ Tail(s) \in Seq(S) /\ Head(s) = s[1] /\ 1 \in DOMAIN s
         /\ \A k \in DOMAIN Tail(s) : k + 1 \in DOMAIN s /\ Tail(s)[k] = s[k + 1]
OBVIOUS

\* An answer made to a call is an answer of the wire's type.
LEMMA RepliesTyped ==
  ASSUME Types, NEW c \in Calls
  PROVE  Replies(c) \subseteq {r \in Reply : r.how \in Word}
<1>1. call[c].on \in Session0
  BY DEF Types, CallsTyped, Record
<1> DEFINE Said == {r \in Reply : r.how \in Word}
<1>2. ASSUME NEW h \in Word PROVE [Unheard EXCEPT !.how = h] \in Said
  BY DEF Reply, Word, Unheard, Session0, Mode0, Option0
<1>3. ASSUME NEW setup \in Setups, NEW on \in Session0
      PROVE  [how |-> "ok", modes |-> setup.modes, opts |-> setup.opts, on |-> on] \in Said
  <2>1. setup.modes \in Mode0 /\ setup.opts \in Option0
    BY SessionAssumption DEF Mode0, Option0
  <2> QED BY <2>1 DEF Reply, Word
<1>4. ASSUME NEW o \in Option0 PROVE [Unheard EXCEPT !.how = "ok", !.opts = o] \in Said
  BY <1>4 DEF Reply, Word, Unheard, Session0, Mode0, Option0
<1>5. Answers \subseteq Word /\ Options \cup {None} = Option0
  BY SessionAssumption DEF Word, Option0
<1>6. (IF call[c].op = "new" THEN Sessions \ Minted ELSE {call[c].on}) \subseteq Session0
  BY <1>1 DEF Session0
<1> HIDE DEF Said
<1> DEFINE Ons == IF call[c].op = "new" THEN Sessions \ Minted ELSE {call[c].on}
           Opts == IF call[c].op = "option" THEN Options ELSE {None}
<1>7. {[Unheard EXCEPT !.how = h] : h \in Answers \ {"ok"}} \subseteq Said
  BY <1>2, <1>5
<1>8. {[how |-> "ok", modes |-> setup.modes, opts |-> setup.opts, on |-> on] : setup \in Setups, on \in Ons}
        \subseteq Said
  <2> HIDE DEF Ons
  <2>1. Ons \subseteq Session0
    BY <1>6 DEF Ons
  <2> QED BY <1>3, <2>1
<1>9. {[Unheard EXCEPT !.how = "ok", !.opts = o] : o \in Opts} \subseteq Said
  BY <1>4, <1>5
<1>10. Replies(c) \subseteq Said
  <2>1. CASE call[c].op \in Opens
    BY <1>7, <1>8, <2>1 DEF Replies
  <2>2. CASE call[c].op \notin Opens
    <3>1. Replies(c) = {[Unheard EXCEPT !.how = h] : h \in Answers \ {"ok"}}
                         \cup {[Unheard EXCEPT !.how = "ok", !.opts = o] : o \in Opts}
      BY <2>2 DEF Replies
    <3> HIDE DEF Opts
    <3> QED BY <1>7, <1>9, <3>1
  <2> QED BY <2>1, <2>2
<1> QED BY <1>10 DEF Said

\* Every step leaves the wire holding frames of their kinds.
LEMMA WireKeeps ==
  Types /\ [Next]_vars => WireTyped'
<1> SUFFICES ASSUME Types, [Next]_vars PROVE WireTyped'
  OBVIOUS
<1> USE DEF Types, WireTyped
<1>1. ASSUME NEW c \in Calls, Answer(c) PROVE WireTyped'
  <2>1. PICK reply \in Replies(c) :
          up' = Append(up, [kind |-> "answer", call |-> c, reply |-> reply, on |-> reply.on, says |-> None])
    BY <1>1 DEF Answer
  <2>2. reply \in Reply /\ reply.how \in Word
    BY RepliesTyped
  <2>3. [kind |-> "answer", call |-> c, reply |-> reply, on |-> reply.on, says |-> None] \in Frames
    BY <2>2 DEF Frames, AnswerFrame, Frame, Reply
  <2> QED BY <1>1, <2>1, <2>3 DEF Answer
<1>2. ASSUME NEW s \in Sessions, NEW kind, NEW what, Announce(s, kind, what),
             [kind |-> kind, call |-> 0, reply |-> Unheard, on |-> s, says |-> what] \in Frames
      PROVE  WireTyped'
  BY <1>2 DEF Announce
<1>3. ASSUME NEW s \in Sessions, Announce(s, "talk", None) PROVE WireTyped'
  BY <1>2, <1>3 DEF Frames, TalkFrame, Frame
<1>4. ASSUME NEW s \in Sessions, NEW m \in Modes, Announce(s, "mode", m) PROVE WireTyped'
  BY <1>2, <1>4 DEF Frames, ModeFrame, Frame
<1>5. ASSUME NEW s \in Sessions, NEW o \in Options, Announce(s, "options", o) PROVE WireTyped'
  BY <1>2, <1>5 DEF Frames, OptionFrame, Frame
<1>6. CASE ReadUpdate \/ ReadAnswer \/ ReadDropped
  <2>1. up # <<>> /\ up' = Tail(up) /\ UNCHANGED <<said, conn>>
    BY <1>6 DEF ReadUpdate, ReadAnswer, ReadDropped, Heads
  <2> QED BY <2>1, HeadIsOne
<1>7. CASE Close \/ Disconnected
  <2>1. (up' = <<>> \/ up' = up) /\ said' = said /\ conn' \in {"closing", "down"}
    BY <1>7 DEF Close, Disconnected
  <2>2. <<>> \in Seq(Frames)
    OBVIOUS
  <2> QED BY <2>1, <2>2
<1>8. ASSUME UNCHANGED <<up, said, conn>> PROVE WireTyped'
  BY <1>8
<1>9. CASE UNCHANGED vars
  BY <1>8, <1>9 DEF vars, wire
<1>10. ASSUME NEW c \in Calls,
          \/ Asks(c) \/ Prepare(c) \/ Register(c) \/ Leave(c) \/ Arm(c) \/ Send(c) \/ Fail(c) \/ GoLive(c)
          \/ SetReturns(c) \/ EndReturns(c) \/ Ended(c) \/ Refresh(c) \/ ListReturns(c) \/ LoginReturns(c)
       PROVE  WireTyped'
  BY <1>8, <1>10 DEF Asks, Begin, Prepare, Register, Leave, Arm, Send, Fail, GoLive, SetReturns, EndReturns,
     Ended, Refresh, ListReturns, LoginReturns, wire
<1> QED BY <1>1, <1>3, <1>4, <1>5, <1>6, <1>7, <1>9, <1>10 DEF Next

\* What the agent may name is a session.
LEMMA MintedTyped ==
  ASSUME Types
  PROVE  Minted \subseteq Session0
<1>1. \A c \in Calls : call[c].on \in Session0 /\ call[c].got.on \in Session0
  BY DEF Types, CallsTyped, Record, Reply
<1>2. \A k \in DOMAIN up : up[k].on \in Session0
  <2>1. \A f \in Frames : f.on \in Session0
    BY DEF Frames, AnswerFrame, TalkFrame, ModeFrame, OptionFrame, Frame, Session0
  <2> QED BY <2>1 DEF Types, WireTyped
<1> QED BY <1>1, <1>2, SessionAssumption DEF Minted, Session0

(***************************************************************************)
(* The calls: how each step moves them.                                    *)
(***************************************************************************)
LEMMA NextIsUnmade ==
  ASSUME CallsFit
  PROVE  /\ Cardinality(Made) \in Nat
         /\ \A c \in Calls : c = Cardinality(Made) + 1 =>
              /\ c \notin Made /\ c \in 1..MaxCalls /\ Made \cup {c} = 1..c
<1>1. PICK n \in 0..MaxCalls : Made = 1..n
  BY DEF CallsFit
<1>2. Cardinality(Made) = n
  BY <1>1, FS_Interval, SessionAssumption
<1>3. ASSUME NEW c \in Calls, c = n + 1
      PROVE  c \notin Made /\ c \in 1..MaxCalls /\ Made \cup {c} = 1..c
  BY <1>1, <1>3 DEF Calls
<1> QED BY <1>2, <1>3

\* What a caller does of its own call: a step further, in its turn.
Moves(c) == \/ Prepare(c) \/ Register(c) \/ Leave(c) \/ Arm(c) \/ Send(c) \/ Fail(c) \/ GoLive(c)
            \/ SetReturns(c) \/ EndReturns(c) \/ Ended(c) \/ ListReturns(c) \/ LoginReturns(c)

\* A call's own step finds it made and leaves it under way or settled.
LEMMA MovesStep ==
  ASSUME NEW c \in Calls, Moves(c)
  PROVE  \E step \in Steps \ {"none"} :
           /\ AtStep(c, step) /\ Runs(c) /\ call[c].at \notin {"none", "done", "failed"}
           /\ step = "leaving" => call[c].op \in Restores
<1>1. CASE Prepare(c) \/ Register(c) \/ Leave(c) \/ Arm(c) \/ Send(c)
  BY <1>1 DEF Prepare, Register, Leave, Arm, Send, Steps
<1>2. CASE Fail(c) \/ GoLive(c) \/ SetReturns(c)
  BY <1>2 DEF Fail, GoLive, SetReturns, Ready, Steps
<1>3. CASE EndReturns(c) \/ Ended(c) \/ ListReturns(c) \/ LoginReturns(c)
  BY <1>3 DEF EndReturns, Ended, ListReturns, LoginReturns, Ready, Steps
<1> QED BY <1>1, <1>2, <1>3 DEF Moves

\* A call made is one more, and fits its operation.
LEMMA AsksMakes ==
  ASSUME Types, CallsFit, NEW c \in Calls, Asks(c)
  PROVE  \E r \in Record :
           /\ call' = [call EXCEPT ![c] = r] /\ Made \cup {c} = 1..c /\ c \notin Made
           /\ r.op \in AnyOp /\ r.ask \in 0..Pages /\ r.at \in {"leaving", "failed", "begun"}
           /\ r.caps = Drives(r.op) /\ r.got = Unheard
           /\ r.at = "leaving" => r.op = "new" /\ live # None
           /\ r.op \in Sets => r.on = live /\ (r.at = "failed" <=> live = None)
           /\ r.at = "failed" <=> r.op \in Sets /\ live = None
<1>1. PICK op, on, ask : Begin(c, op, on, ask) /\ op \in Ops[c] /\ ask \in {0, listing.next}
                         /\ on \in Minted \cup {None}
  BY DEF Asks
<1>2. op \in AnyOp
  BY <1>1, SessionAssumption DEF AnyOp
<1>3. on \in Session0
  BY <1>1, SessionAssumption, MintedTyped DEF Session0
<1>4. ask \in 0..Pages
  BY <1>1, SessionAssumption DEF Types, StoresTyped
<1> DEFINE at == CASE op = "new" /\ live # None -> "leaving"
                   [] op \in Sets /\ live = None -> "failed"
                   [] OTHER -> "begun"
           r == [op |-> op, on |-> IF op \in Sets THEN live ELSE on, ask |-> ask,
                 caps |-> Drives(op), got |-> Unheard, at |-> at]
<1>5. /\ at \in {"leaving", "failed", "begun"}
      /\ at = "leaving" => op = "new" /\ live # None
      /\ at = "failed" <=> op \in Sets /\ live = None
  BY DEF Sets
<1>6. Drives(op) \in SUBSET Capabilities
  BY DEF Drives, Capabilities
<1>7. Unheard \in Reply
  BY DEF Unheard, Reply, Session0, Mode0, Option0
<1>8. r \in Record
  BY <1>2, <1>3, <1>4, <1>5, <1>6, <1>7 DEF Record, Steps, Types, StoresTyped
<1>9. call' = [call EXCEPT ![c] = r]
  BY <1>1 DEF Begin
<1>10. Made \cup {c} = 1..c /\ c \notin Made
  BY NextIsUnmade DEF Asks
<1> HIDE DEF at
<1> QED BY <1>2, <1>4, <1>5, <1>8, <1>9, <1>10 DEF Record

\* What a step leaves of a call that was made.
Kept(d) == /\ call'[d].op = call[d].op /\ call'[d].on = call[d].on /\ call'[d].ask = call[d].ask
           /\ call'[d].caps = call[d].caps /\ call'[d].at # "none"

\* Reading an answer changes the call it is for, and only what that call got.
LEMMA ReadsAnswer ==
  ASSUME Types, ReadAnswer \/ ReadDropped
  PROVE  /\ Head(up).call \in Calls /\ Head(up) \in AnswerFrame /\ Head(up).reply.how \in Word
         /\ Handed(Head(up).reply) \in Reply
         /\ call' = [call EXCEPT ![Head(up).call].got = IF Head(up).call \in pending THEN Handed(Head(up).reply) ELSE @]
<1>1. up # <<>> /\ Head(up).kind = "answer"
  BY DEF ReadAnswer, ReadDropped, Heads
<1>2. Head(up) \in Frames
  BY <1>1, HeadIsOne DEF Types, WireTyped
<1>3. Head(up) \in AnswerFrame
  BY <1>1, <1>2 DEF Frames, TalkFrame, ModeFrame, OptionFrame, Frame
<1>4. Head(up).call \in Calls /\ Head(up).reply \in Reply /\ Head(up).reply.how \in Word
  BY <1>3 DEF AnswerFrame, Frame
<1>5. Handed(Head(up).reply) \in Reply
  BY <1>4 DEF Handed, Reply, Unheard, Mode0, Option0
<1> QED BY <1>3, <1>4, <1>5 DEF ReadAnswer, ReadDropped

\* Every step leaves the calls typed and fitting, and what a call was made for
\* unchanged.
LEMMA CallsMove ==
  Types /\ CallsFit /\ [Next]_vars =>
    /\ call' \in [Calls -> Record] /\ CallsFit' /\ \A d \in Calls : call[d].at # "none" => Kept(d)
<1> SUFFICES ASSUME Types, CallsFit, [Next]_vars
             PROVE  /\ call' \in [Calls -> Record] /\ CallsFit'
                    /\ \A d \in Calls : call[d].at # "none" => Kept(d)
  OBVIOUS
<1> DEFINE P == /\ call' \in [Calls -> Record] /\ CallsFit'
                /\ \A d \in Calls : call[d].at # "none" => Kept(d)
           Steady(d) == \/ call[d].at = "none" /\ call'[d].at = "none"
                        \/ /\ call[d].at # "none" /\ Kept(d)
                           /\ call[d].at = "failed" => call'[d].at = "failed"
                           /\ call'[d].at = "leaving" => call[d].op \in Opens
<1>t. call \in [Calls -> Record]
  BY DEF Types, CallsTyped
<1>z. 0 \in 0..Pages
  BY SessionAssumption
<1>s. ASSUME NEW d \in Calls, call'[d] = call[d] PROVE Steady(d)
  BY <1>s DEF Kept, CallsFit, Fits, Made
\* Steps and answers of calls made, and nothing else.
<1>1. ASSUME call' \in [Calls -> Record], \A d \in Calls : Steady(d) PROVE P
  <2>1. \A d \in Calls : call[d].at # "none" => Kept(d)
    BY <1>1
  <2>2. Made' = Made
    BY <1>1 DEF Made, Kept
  <2>3. ASSUME NEW d \in Made' PROVE Fits(d)'
    BY <1>1, <2>2, <2>3 DEF CallsFit, Fits, Kept, Made
  <2> QED BY <1>1, <2>1, <2>2, <2>3 DEF CallsFit
<1>2. ASSUME NEW c \in Calls, Moves(c) PROVE P
  <2>1. PICK step \in Steps \ {"none"} :
          /\ AtStep(c, step) /\ call[c].at \notin {"none", "done", "failed"}
          /\ step = "leaving" => call[c].op \in Restores
    BY <1>2, MovesStep
  <2>2. \A d \in Calls \ {c} : call'[d] = call[d]
    BY <1>t, <2>1 DEF AtStep
  <2>3. Steady(c)
    BY <1>t, <2>1 DEF AtStep, Record, Kept, Opens
  <2>4. call' \in [Calls -> Record]
    BY <1>t, <2>1 DEF AtStep, Record
  <2> HIDE DEF Steady
  <2> QED BY <1>s, <1>1, <2>2, <2>3, <2>4
\* A call made fits, and those made before are as they were.
<1>3. ASSUME NEW c \in Calls, c \notin Made, Made \cup {c} = 1..c,
             call' \in [Calls -> Record], call'[c].at # "none", Fits(c)', \A d \in Calls \ {c} : Steady(d)
      PROVE  P
  <2>1. \A d \in Calls : call[d].at # "none" => Kept(d)
    BY <1>3 DEF Made
  <2>2. Made' = 1..c /\ c \in 0..MaxCalls
    BY <1>3, SessionAssumption DEF Made, Kept, Calls
  <2>3. ASSUME NEW d \in Made' PROVE Fits(d)'
    BY <1>3, <2>3 DEF CallsFit, Fits, Kept, Made
  <2> QED BY <1>3, <2>1, <2>2, <2>3 DEF CallsFit
<1>4. ASSUME NEW c \in Calls, Asks(c) PROVE P
  <2>1. PICK r \in Record :
           /\ call' = [call EXCEPT ![c] = r] /\ Made \cup {c} = 1..c /\ c \notin Made
           /\ r.op \in AnyOp /\ r.ask \in 0..Pages /\ r.at \in {"leaving", "failed", "begun"}
           /\ r.caps = Drives(r.op)
           /\ r.at = "leaving" => r.op = "new"
           /\ r.op \in Sets => r.on = live /\ (r.at = "failed" <=> live = None)
    BY <1>4, AsksMakes
  <2>2. r.op \in Sets => r.caps = {}
    BY <2>1 DEF Drives, Capabilities, Sets, Opens, Restores, Ends
  <2>3. call' \in [Calls -> Record] /\ call'[c] = r /\ \A d \in Calls \ {c} : call'[d] = call[d]
    BY <1>t, <2>1
  <2>4. Fits(c)'
    BY <2>1, <2>2, <2>3, SessionAssumption DEF Fits, Opens
  <2> HIDE DEF Steady
  <2> QED BY <1>s, <1>3, <2>1, <2>3, <2>4
<1>5. ASSUME NEW c \in Calls, Refresh(c) PROVE P
  <2> DEFINE next == Cardinality(Made) + 1
  <2>1. call[c].at = "emptied" /\ Cardinality(Made) \in Nat
    BY <1>5, NextIsUnmade DEF Refresh
  <2>2. call' = [d \in Calls |-> IF d = c THEN [call[d] EXCEPT !.at = "done"]
                                ELSE IF d = next THEN Relisting ELSE call[d]]
    BY <1>5 DEF Refresh
  <2>3. /\ Relisting \in Record /\ Relisting.op = "list" /\ Relisting.ask = 0 /\ Relisting.at = "begun"
    <3>1. Unheard \in Reply
      BY DEF Unheard, Reply, Session0, Mode0, Option0
    <3> QED BY <1>z, <3>1 DEF Relisting, Record, Steps, AnyOp, Session0
  <2>4. call' \in [Calls -> Record]
    BY <1>t, <2>2, <2>3 DEF Record, Steps
  <2>5. Steady(c)
    BY <1>t, <2>1, <2>2 DEF Kept, Record
  <2> HIDE DEF Steady
  <2>6. CASE next \notin Calls
    <3>1. \A d \in Calls \ {c} : call'[d] = call[d]
      BY <2>2, <2>6
    <3> QED BY <1>s, <1>1, <2>4, <2>5, <3>1
  <2>7. CASE next \in Calls
    <3>1. PICK n \in Calls : n = next
      BY <2>7
    <3>2. n # c /\ n \notin Made /\ Made \cup {n} = 1..n
      BY <2>1, <3>1, NextIsUnmade DEF Made
    <3>3. call'[n] = Relisting /\ \A d \in Calls \ {c, n} : call'[d] = call[d]
      BY <2>2, <3>1, <3>2
    <3> HIDE DEF next
    <3>4. Fits(n)'
      BY <1>z, <2>3, <3>3 DEF Fits, AnyOp, Sets
    <3> QED BY <1>s, <1>3, <2>3, <2>4, <2>5, <3>2, <3>3, <3>4
  <2> QED BY <2>6, <2>7
<1>6. CASE ReadAnswer \/ ReadDropped
  <2> DEFINE c == Head(up).call
             g == Handed(Head(up).reply)
  <2>1. c \in Calls /\ g \in Reply /\ call' = [call EXCEPT ![c].got = IF c \in pending THEN g ELSE @]
    BY <1>6, ReadsAnswer
  <2> HIDE DEF c, g
  <2>2. call' \in [Calls -> Record]
    BY <1>t, <2>1 DEF Record
  <2>3. \A d \in Calls : Steady(d)
    BY <1>t, <2>1 DEF Record, Kept, CallsFit, Fits, Made
  <2> QED BY <1>1, <2>2, <2>3
<1>7. CASE Close
  <2>1. call' = [d \in Calls |-> IF d \in pending THEN [call[d] EXCEPT !.got.how = "gone"] ELSE call[d]]
    BY <1>7 DEF Close
  <2>2. call' \in [Calls -> Record]
    <3>1. ASSUME NEW r \in Record PROVE [r EXCEPT !.got.how = "gone"] \in Record
      <4>1. r.got \in Reply /\ [r.got EXCEPT !.how = "gone"] \in Reply
        BY <3>1 DEF Record, Reply
      <4> QED BY <4>1 DEF Record
    <3> QED BY <1>t, <2>1, <3>1
  <2>3. \A d \in Calls : Steady(d)
    BY <1>t, <2>1 DEF Record, Kept, CallsFit, Fits, Made
  <2> QED BY <1>1, <2>2, <2>3
<1>8. ASSUME call' = call PROVE P
  <2> HIDE DEF Steady
  <2> QED BY <1>s, <1>t, <1>1, <1>8
<1>9. ASSUME NEW c \in Calls, Answer(c) PROVE P
  BY <1>8, <1>9 DEF Answer
<1>10. ASSUME NEW s, NEW kind, NEW what, Announce(s, kind, what) PROVE P
  BY <1>8, <1>10 DEF Announce
<1>11. CASE ReadUpdate \/ Disconnected \/ UNCHANGED vars
  BY <1>8, <1>11 DEF ReadUpdate, Disconnected, vars
<1> QED BY <1>2, <1>4, <1>5, <1>6, <1>7, <1>9, <1>10, <1>11 DEF Next, Moves

(***************************************************************************)
(* The slots and the stores keep their types.                              *)
(***************************************************************************)
LEMMA ReadsUpdate ==
  ASSUME Types, ReadUpdate
  PROVE  /\ Head(up) \in TalkFrame \cup ModeFrame \cup OptionFrame /\ Head(up).kind \in Updates
         /\ Head(up).on \in Sessions /\ Head(up).on # None
         /\ Head(up).kind = "mode" => Head(up).says \in Modes
         /\ Head(up).kind = "options" => Head(up).says \in Options
<1>1. up # <<>> /\ Head(up).kind \in Updates
  BY DEF ReadUpdate, Heads
<1>2. Head(up) \in Frames
  BY <1>1, HeadIsOne DEF Types, WireTyped
<1> QED BY <1>1, <1>2, SessionAssumption DEF Frames, AnswerFrame, TalkFrame, ModeFrame, OptionFrame, Frame, Updates

\* Every step leaves the slots typed and holding one call each.
LEMMA SlotsKeep ==
  Types /\ OneEach /\ [Next]_vars => SlotsTyped' /\ OneEach'
<1> SUFFICES ASSUME Types, OneEach, [Next]_vars PROVE SlotsTyped' /\ OneEach'
  OBVIOUS
<1> DEFINE P == SlotsTyped' /\ OneEach'
<1>t. SlotsTyped /\ OneEach
  BY DEF Types
<1>1. ASSUME opening' \subseteq opening, loading' \subseteq loading, changing' \subseteq changing,
             setting' \subseteq setting
      PROVE  P
  BY <1>t, <1>1 DEF SlotsTyped, OneEach, AtMostOne
<1>2. ASSUME NEW c \in Calls, Arm(c) PROVE P
  <2>1. call[c].on \in Session0 /\ call[c].op \in AnyOp \cup {"none"}
    BY DEF Types, CallsTyped, Record
  <2>2. /\ [call |-> c, on |-> call[c].on, replayed |-> FALSE] \in [call : Calls, on : Session0, replayed : BOOLEAN]
        /\ call[c].op \in Opens => [call |-> c, how |-> call[c].op, on |-> call[c].on, stated |-> None]
                                     \in [call : Calls, how : Opens, on : Session0, stated : Mode0]
    BY <2>1 DEF Mode0
  <2>3. opening' = opening \/ (call[c].op \in Opens
          /\ opening' = {[call |-> c, how |-> call[c].op, on |-> call[c].on, stated |-> None]})
    BY <1>2 DEF Arm
  <2>4. opening' \subseteq [call : Calls, how : Opens, on : Session0, stated : Mode0] /\ AtMostOne(opening')
    BY <1>t, <2>2, <2>3 DEF SlotsTyped, OneEach, AtMostOne
  <2>5. loading' \subseteq [call : Calls, on : Session0, replayed : BOOLEAN] /\ AtMostOne(loading')
    <3>1. loading' = loading \/ loading' = {[call |-> c, on |-> call[c].on, replayed |-> FALSE]}
      BY <1>2 DEF Arm
    <3> QED BY <1>t, <2>2, <3>1 DEF SlotsTyped, OneEach, AtMostOne
  <2>6. changing' \subseteq [call : Calls, restated : BOOLEAN] /\ AtMostOne(changing')
    <3>1. changing' = changing \/ changing' = {[call |-> c, restated |-> FALSE]}
      BY <1>2 DEF Arm
    <3>2. [call |-> c, restated |-> FALSE] \in [call : Calls, restated : BOOLEAN]
      OBVIOUS
    <3> QED BY <1>t, <3>1, <3>2 DEF SlotsTyped, OneEach, AtMostOne
  <2>7. setting' \subseteq Calls /\ AtMostOne(setting')
    BY <1>t, <1>2 DEF Arm, SlotsTyped, OneEach, AtMostOne
  <2> QED BY <2>4, <2>5, <2>6, <2>7 DEF SlotsTyped, OneEach, AtMostOne
<1>3. CASE ReadUpdate
  <2> DEFINE u == Head(up)
  <2>1. u.says \in Mode0 \/ u.kind # "mode"
    BY <1>3, ReadsUpdate DEF Mode0
  <2>2. /\ loading' = loading \/ loading' = {Replayed(l, u) : l \in loading}
        /\ changing' = changing \/ changing' = {Restated(m) : m \in changing}
        /\ opening' = opening \/ (u.kind = "mode" /\ opening' = {Stated(o, u) : o \in opening})
        /\ setting' = setting
    <3>1. CASE Foreign(u.on)
      BY <1>3, <3>1 DEF ReadUpdate
    <3>2. CASE ~Foreign(u.on)
      BY <1>3, <3>2 DEF ReadUpdate
    <3> QED BY <3>1, <3>2
  <2> HIDE DEF u
  <2>3. opening' \subseteq [call : Calls, how : Opens, on : Session0, stated : Mode0] /\ AtMostOne(opening')
    <3> DEFINE T == [call : Calls, how : Opens, on : Session0, stated : Mode0]
    <3>1. ASSUME u.says \in Mode0, NEW o \in T
          PROVE  Stated(o, u) \in T
      BY <3>1 DEF Stated
    <3>2. opening \subseteq T /\ AtMostOne(opening)
      BY <1>t DEF SlotsTyped, OneEach
    <3> HIDE DEF T
    <3>3. opening' \subseteq T /\ AtMostOne(opening')
      BY <2>1, <2>2, <3>1, <3>2 DEF AtMostOne
    <3> QED BY <3>3 DEF T
  <2>4. loading' \subseteq [call : Calls, on : Session0, replayed : BOOLEAN] /\ AtMostOne(loading')
    <3> DEFINE T == [call : Calls, on : Session0, replayed : BOOLEAN]
    <3>1. ASSUME NEW l \in T PROVE Replayed(l, u) \in T
      <4>1. (l.replayed \/ l.on = u.on) \in BOOLEAN
        OBVIOUS
      <4> QED BY <4>1 DEF Replayed
    <3>2. loading \subseteq T /\ AtMostOne(loading)
      BY <1>t DEF SlotsTyped, OneEach
    <3> HIDE DEF T
    <3>3. loading' \subseteq T /\ AtMostOne(loading')
      BY <2>2, <3>1, <3>2 DEF AtMostOne
    <3> QED BY <3>3 DEF T
  <2>5. changing' \subseteq [call : Calls, restated : BOOLEAN] /\ AtMostOne(changing')
    <3> DEFINE T == [call : Calls, restated : BOOLEAN]
    <3>1. \A m \in T : Restated(m) \in T
      BY DEF Restated
    <3>2. changing \subseteq T /\ AtMostOne(changing)
      BY <1>t DEF SlotsTyped, OneEach
    <3> HIDE DEF T
    <3>3. changing' \subseteq T /\ AtMostOne(changing')
      BY <2>2, <3>1, <3>2 DEF AtMostOne
    <3> QED BY <3>3 DEF T
  <2> QED BY <1>t, <2>2, <2>3, <2>4, <2>5 DEF SlotsTyped, OneEach, AtMostOne
<1>4. CASE ReadAnswer
  BY <1>1, <1>4 DEF ReadAnswer, Loaded, Opened, ChangedMode, SetAnswered
<1>5. CASE ReadDropped \/ Disconnected
  BY <1>1, <1>5 DEF ReadDropped, Disconnected
<1>6. ASSUME NEW c \in Calls, Leave(c) \/ Ended(c) \/ Fail(c) PROVE P
  BY <1>1, <1>6 DEF Leave, Ended, Fail, Forget
<1>7. ASSUME NEW c \in Calls,
             \/ Asks(c) \/ Prepare(c) \/ Register(c) \/ Send(c) \/ GoLive(c) \/ SetReturns(c) \/ EndReturns(c)
             \/ Refresh(c) \/ ListReturns(c) \/ LoginReturns(c) \/ Answer(c)
      PROVE  P
  BY <1>1, <1>7 DEF Asks, Begin, Prepare, Register, Send, GoLive, SetReturns, EndReturns, Refresh, ListReturns,
     LoginReturns, Answer, slots
<1>8. ASSUME NEW s, NEW kind, NEW what, Announce(s, kind, what) PROVE P
  BY <1>1, <1>8 DEF Announce, slots
<1>9. CASE Close \/ UNCHANGED vars
  BY <1>1, <1>9 DEF Close, vars, slots
<1> QED BY <1>2, <1>3, <1>4, <1>5, <1>6, <1>7, <1>8, <1>9 DEF Next

\* Taking a refused set back leaves the settings of their type.
LEMMA SetRefusedTyped ==
  ASSUME NEW held \in SettingsType, NEW c \in Calls
  PROVE  /\ SetRefused(held, c) \in SettingsType /\ SetRefused(held, c).of = held.of
         /\ SetRefused(held, c).change \in {held.change, [how |-> "refused", by |-> c]}
  BY SessionAssumption DEF SetRefused, SettingsType, Calls

\* Publishing an open's answer leaves the settings of their type.
LEMMA PublishedTyped ==
  ASSUME NEW slot \in [call : Calls, how : Opens, on : Session0, stated : Mode0], NEW reply \in Reply
  PROVE  /\ Published(slot, reply) \in SettingsType /\ Published(slot, reply).change.how = "none"
         /\ Published(slot, reply).of \in {None, IF slot.how = "new" THEN reply.on ELSE slot.on}
<1>1. Empty \in SettingsType /\ Empty.change.how = "none" /\ Empty.of = None
  BY SessionAssumption DEF Empty, SettingsType, Session0, Mode0, Option0
<1>2. /\ reply.on \in Session0 /\ reply.modes \in Mode0 /\ reply.opts \in Option0
      /\ slot.on \in Session0 /\ slot.stated \in Mode0 /\ None \in Mode0
  BY DEF Reply, Mode0
<1> QED BY <1>1, <1>2 DEF Published, SettingsType

\* Following a session leaves the settings of their type.
LEMMA NowInTyped ==
  ASSUME NEW held \in SettingsType, NEW mode \in Modes
  PROVE  /\ NowIn(held, mode) \in SettingsType /\ NowIn(held, mode).of = held.of
         /\ NowIn(held, mode).change.how # "acknowledged"
<1>1. Empty.change \in [how : {"none", "acknowledged", "refused"}, by : 0..MaxCalls]
      /\ Empty.change.how = "none"
  BY SessionAssumption DEF Empty
<1> QED BY <1>1 DEF NowIn, SettingsType, Mode0

\* The settings only take values of their type; they say whose they are only
\* where an open is answered or a session ended, and acknowledge only what a
\* set's answer does.
SettingsStep ==
  /\ settings' \in SettingsType
  /\ settings'.of # settings.of =>
       \/ settings'.of = None
       \/ ReadAnswer /\ Opened(Head(up).call, Head(up).reply)
  /\ settings'.change.how = "acknowledged" =>
       \/ settings'.change = settings.change /\ settings'.of = settings.of
       \/ ReadAnswer /\ ChangedMode(Head(up).call, Head(up).reply)

\* Every step leaves the settings of their type.
LEMMA SettingsKeep ==
  Types /\ [Next]_vars => SettingsStep
<1> SUFFICES ASSUME Types, [Next]_vars PROVE SettingsStep
  OBVIOUS
<1>t. settings \in SettingsType /\ SlotsTyped
  BY DEF Types, StoresTyped
<1>1. ASSUME settings' = settings PROVE SettingsStep
  BY <1>t, <1>1 DEF SettingsStep
<1>2. ASSUME NEW c \in Calls, settings' = SetRefused(settings, c) PROVE SettingsStep
  BY <1>t, <1>2, SetRefusedTyped DEF SettingsStep
<1>3. ASSUME NEW c \in Calls, Asks(c) PROVE SettingsStep
  <2>1. PICK op, on, ask : Begin(c, op, on, ask)
    BY <1>3 DEF Asks
  <2>2. \/ settings' = settings \/ settings' = [settings EXCEPT !.refusal = c]
        \/ settings' = [settings EXCEPT !.change = [how |-> "refused", by |-> c]]
    BY <2>1 DEF Begin
  <2> QED BY <1>t, <2>2, SessionAssumption DEF SettingsStep, SettingsType, Calls
<1>4. ASSUME NEW c \in Calls, Prepare(c) PROVE SettingsStep
  <2>1. settings' = settings \/ settings' = SetRefused(settings, c)
    BY <1>4 DEF Prepare
  <2> QED BY <1>1, <1>2, <2>1
<1>5. ASSUME NEW c \in Calls, Fail(c) PROVE SettingsStep
  <2>1. settings' = settings \/ settings' = SetRefused(settings, c)
    BY <1>5 DEF Fail
  <2> QED BY <1>1, <1>2, <2>1
<1>6. ASSUME NEW c \in Calls, Ended(c) PROVE SettingsStep
  <2>1. Empty \in SettingsType /\ Empty.of = None /\ Empty.change.how = "none"
    BY SessionAssumption DEF Empty, SettingsType, Session0, Mode0, Option0
  <2> QED BY <1>6, <2>1 DEF Ended, SettingsStep
<1>7. CASE ReadUpdate
  <2> DEFINE u == Head(up)
  <2>1. \/ settings' = settings
        \/ u.kind = "mode" /\ settings' = NowIn(settings, u.says)
        \/ u.kind = "options" /\ settings' = [settings EXCEPT !.opts = u.says]
    <3>1. u.kind \in Updates
      BY <1>7, ReadsUpdate
    <3>2. CASE Foreign(u.on)
      BY <1>7, <3>2 DEF ReadUpdate
    <3>3. CASE ~Foreign(u.on)
      BY <1>7, <3>1, <3>3 DEF ReadUpdate, Updates
    <3> QED BY <3>2, <3>3
  <2>2. /\ u.kind = "mode" => u.says \in Modes
        /\ u.kind = "options" => u.says \in Option0
    BY <1>7, ReadsUpdate DEF Option0
  <2> HIDE DEF u
  <2>3. CASE u.kind = "mode" /\ settings' = NowIn(settings, u.says)
    BY <1>t, <2>2, <2>3, NowInTyped DEF SettingsStep
  <2>4. CASE u.kind = "options" /\ settings' = [settings EXCEPT !.opts = u.says]
    BY <1>t, <2>2, <2>4 DEF SettingsStep, SettingsType
  <2> QED BY <1>1, <2>1, <2>3, <2>4
<1>8. CASE ReadAnswer
  <2> DEFINE c == Head(up).call
             reply == Head(up).reply
  <2>1. c \in Calls /\ reply \in Reply
    BY <1>8, ReadsAnswer DEF AnswerFrame, Frame
  <2>2. Opened(c, reply) \/ ChangedMode(c, reply) \/ SetAnswered(c, reply) \/ settings' = settings
    BY <1>8 DEF ReadAnswer
  <2> HIDE DEF c, reply
  <2>3. CASE Opened(c, reply)
    <3>1. PICK slot \in opening : settings' = settings \/ settings' = Published(slot, reply)
      BY <2>3 DEF Opened
    <3>2. slot \in [call : Calls, how : Opens, on : Session0, stated : Mode0]
      BY <1>t DEF SlotsTyped
    <3>3. Published(slot, reply) \in SettingsType /\ Published(slot, reply).change.how = "none"
      BY <2>1, <3>2, PublishedTyped
    <3>4. ReadAnswer /\ Opened(Head(up).call, Head(up).reply)
      BY <1>8, <2>3 DEF c, reply
    <3>5. CASE settings' = Published(slot, reply)
      BY <3>3, <3>4, <3>5 DEF SettingsStep
    <3> QED BY <1>1, <3>1, <3>5
  <2>4. CASE ChangedMode(c, reply)
    <3>1. \/ settings' = settings \/ settings' = SetRefused(settings, c)
          \/ settings' = [settings EXCEPT !.change = [how |-> "acknowledged", by |-> c]]
      BY <2>4 DEF ChangedMode
    <3>2. CASE settings' = [settings EXCEPT !.change = [how |-> "acknowledged", by |-> c]]
      <4>1. ReadAnswer /\ ChangedMode(Head(up).call, Head(up).reply)
        BY <1>8, <2>4 DEF c, reply
      <4>2. settings' \in SettingsType /\ settings'.of = settings.of
        BY <1>t, <2>1, <3>2, SessionAssumption DEF SettingsType, Calls
      <4> QED BY <4>1, <4>2 DEF SettingsStep
    <3> QED BY <1>1, <1>2, <2>1, <3>1, <3>2
  <2>5. CASE SetAnswered(c, reply)
    <3>1. settings' = SetRefused(settings, c) \/ settings' = [settings EXCEPT !.opts = reply.opts, !.refusal = 0]
      BY <2>5 DEF SetAnswered
    <3>2. CASE settings' = [settings EXCEPT !.opts = reply.opts, !.refusal = 0]
      <4>1. reply.opts \in Option0 /\ 0 \in 0..MaxCalls
        BY <2>1, SessionAssumption DEF Reply
      <4> QED BY <1>t, <3>2, <4>1 DEF SettingsStep, SettingsType
    <3> QED BY <1>2, <2>1, <3>1, <3>2
  <2> QED BY <1>1, <2>2, <2>3, <2>4, <2>5
<1>9. CASE ReadDropped
  <2>1. Head(up).call \in Calls
    BY <1>9, ReadsAnswer
  <2>2. settings' = settings \/ settings' = SetRefused(settings, Head(up).call)
    BY <1>9 DEF ReadDropped
  <2> QED BY <1>1, <1>2, <2>1, <2>2
<1>10. CASE Disconnected
  <2>1. /\ changing # {} => (CHOOSE slot \in changing : TRUE) \in changing
        /\ setting # {} => (CHOOSE c \in setting : TRUE) \in setting
    OBVIOUS
  <2>2. /\ changing # {} => (CHOOSE slot \in changing : TRUE).call \in 0..MaxCalls
        /\ setting # {} => (CHOOSE c \in setting : TRUE) \in 0..MaxCalls
    <3>1. /\ \A slot \in changing : slot.call \in 0..MaxCalls
          /\ \A c \in setting : c \in 0..MaxCalls
      BY <1>t, SessionAssumption DEF SlotsTyped, Calls
    <3> QED BY <2>1, <3>1
  <2>3. PICK change \in [how : {"none", "acknowledged", "refused"}, by : 0..MaxCalls], refusal \in 0..MaxCalls :
          /\ settings' = [settings EXCEPT !.change = change, !.refusal = refusal]
          /\ change = settings.change \/ change.how = "refused"
    <3> DEFINE change == IF changing = {} THEN settings.change
                         ELSE [how |-> "refused", by |-> (CHOOSE slot \in changing : TRUE).call]
               refusal == IF setting = {} THEN settings.refusal ELSE CHOOSE c \in setting : TRUE
    <3>1. settings.change \in [how : {"none", "acknowledged", "refused"}, by : 0..MaxCalls]
          /\ settings.refusal \in 0..MaxCalls
      BY <1>t DEF SettingsType
    <3>2. settings' = [settings EXCEPT !.change = change, !.refusal = refusal]
      BY <1>10 DEF Disconnected
    <3>3. change \in [how : {"none", "acknowledged", "refused"}, by : 0..MaxCalls]
          /\ refusal \in 0..MaxCalls /\ (change = settings.change \/ change.how = "refused")
      BY <2>2, <3>1
    <3> HIDE DEF change, refusal
    <3> QED BY <3>2, <3>3
  <2> QED BY <1>t, <2>3 DEF SettingsStep, SettingsType
<1>11. ASSUME NEW c \in Calls,
              \/ Register(c) \/ Leave(c) \/ Arm(c) \/ Send(c) \/ GoLive(c) \/ SetReturns(c) \/ EndReturns(c)
              \/ Refresh(c) \/ ListReturns(c) \/ LoginReturns(c) \/ Answer(c)
       PROVE  SettingsStep
  BY <1>1, <1>11 DEF Register, Leave, Arm, Send, GoLive, SetReturns, EndReturns, Refresh, ListReturns,
     LoginReturns, Answer, stores
<1>12. ASSUME NEW s, NEW kind, NEW what, Announce(s, kind, what) PROVE SettingsStep
  BY <1>1, <1>12 DEF Announce, stores
<1>13. CASE Close \/ UNCHANGED vars
  BY <1>1, <1>13 DEF Close, vars, stores
<1> QED BY <1>3, <1>4, <1>5, <1>6, <1>7, <1>8, <1>9, <1>10, <1>11, <1>12, <1>13 DEF Next

\* Every step leaves the stores and the sessions known of their types.
LEMMA StoresKeep ==
  Types /\ CallsFit /\ [Next]_vars => StoresTyped'
<1> SUFFICES ASSUME Types, CallsFit, [Next]_vars PROVE StoresTyped'
  OBVIOUS
<1>t. StoresTyped /\ SlotsTyped /\ \A c \in Calls : call[c] \in Record
  BY DEF Types, CallsTyped
<1>g. \A c \in Calls : call[c].on \in Session0 /\ call[c].got.on \in Session0
  BY <1>t DEF Record, Reply
<1> DEFINE Rest == /\ live' \in Session0 /\ openedLast' \in Session0
                   /\ driven' \in [Capabilities -> {"unasked", "answered", "refused"}]
                   /\ auth' \in {"unasked", "required", "authenticated", "refused"}
                   /\ listing' \in [pages : Seq(1..Pages), next : 0..Pages]
                   /\ notes' \subseteq Calls /\ conversed' \subseteq Sessions
<1>1. ASSUME UNCHANGED <<live, openedLast, driven, auth, listing, notes, conversed>> PROVE Rest
  BY <1>t, <1>1 DEF StoresTyped
<1>2. ASSUME NEW c \in Calls, Asks(c) \/ Register(c) \/ Leave(c) \/ Arm(c) \/ Send(c) \/ SetReturns(c)
                              \/ EndReturns(c) \/ Refresh(c) \/ Answer(c)
      PROVE  Rest
  BY <1>1, <1>2 DEF Asks, Begin, Register, Leave, Arm, Send, SetReturns, EndReturns, Refresh, Answer, stores, memory
<1>3. ASSUME NEW c \in Calls, Prepare(c) PROVE Rest
  BY <1>t, <1>3 DEF StoresTyped, Prepare, memory
<1>4. ASSUME NEW c \in Calls, Fail(c) PROVE Rest
  BY <1>t, <1>4 DEF StoresTyped, Fail, Drove
<1>5. ASSUME NEW c \in Calls, GoLive(c) PROVE Rest
  BY <1>t, <1>g, <1>5 DEF StoresTyped, GoLive, memory
<1>6. ASSUME NEW c \in Calls, Ended(c) PROVE Rest
  BY <1>t, <1>6 DEF StoresTyped, Ended, memory, Session0
<1>7. ASSUME NEW c \in Calls, ListReturns(c) PROVE Rest
  <2>1. call[c].ask \in 0..Pages
    BY <1>7 DEF ListReturns, Ready, CallsFit, Made, Fits
  <2> DEFINE page == IF call[c].ask = 0 THEN 1 ELSE call[c].ask
  <2>2. page \in 1..Pages /\ (IF page < Pages THEN page + 1 ELSE 0) \in 0..Pages
    BY <2>1, SessionAssumption
  <2>3. listing.pages \in Seq(1..Pages) /\ <<>> \in Seq(1..Pages)
    BY <1>t DEF StoresTyped
  <2>4. listing' = listing \/ listing' = [pages |-> Append(IF call[c].ask = 0 THEN <<>> ELSE listing.pages, page),
                                          next |-> IF page < Pages THEN page + 1 ELSE 0]
    BY <1>7 DEF ListReturns
  <2>5. listing' \in [pages : Seq(1..Pages), next : 0..Pages]
    <3> HIDE DEF page
    <3>1. Append(<<>>, page) \in Seq(1..Pages) /\ Append(listing.pages, page) \in Seq(1..Pages)
      BY <2>2, <2>3
    <3>2. \/ listing' = listing
          \/ \E pages \in Seq(1..Pages) :
               listing' = [pages |-> pages, next |-> IF page < Pages THEN page + 1 ELSE 0]
      BY <2>4, <3>1
    <3> QED BY <1>t, <2>2, <3>2 DEF StoresTyped
  <2>6. UNCHANGED <<live, driven, auth, notes, openedLast, conversed>>
    BY <1>7 DEF ListReturns, memory
  <2> QED BY <1>t, <2>5, <2>6 DEF StoresTyped
<1>8. ASSUME NEW c \in Calls, LoginReturns(c) PROVE Rest
  BY <1>t, <1>8 DEF StoresTyped, LoginReturns, memory
<1>9. ASSUME ReadUpdate PROVE Rest
  <2>1. conversed' = conversed \/ conversed' = conversed \cup {Head(up).on}
    BY <1>9 DEF ReadUpdate
  <2>2. UNCHANGED <<live, openedLast, driven, auth, listing, notes>>
    BY <1>9 DEF ReadUpdate
  <2> QED BY <1>t, <1>9, <2>1, <2>2, ReadsUpdate DEF StoresTyped
<1>10. ASSUME ReadAnswer PROVE Rest
  <2> DEFINE c == Head(up).call
             reply == Head(up).reply
  <2>1. c \in Calls /\ reply \in Reply
    BY <1>10, ReadsAnswer DEF AnswerFrame, Frame
  <2>2. notes' \subseteq Calls
    BY <1>t, <1>10 DEF ReadAnswer, Loaded, StoresTyped, SlotsTyped
  <2>3. openedLast' \in Session0
    <3>1. CASE Opened(c, reply)
      <4>1. PICK slot \in opening :
              \/ openedLast' = openedLast
              \/ openedLast' = IF slot.how = "new" THEN reply.on ELSE slot.on
        BY <3>1 DEF Opened
      <4>2. slot.on \in Session0 /\ reply.on \in Session0
        BY <1>t, <2>1 DEF SlotsTyped, Reply
      <4> QED BY <1>t, <4>1, <4>2 DEF StoresTyped
    <3>2. CASE ~Opened(c, reply)
      BY <1>t, <1>10, <3>2 DEF ReadAnswer, ChangedMode, SetAnswered, StoresTyped
    <3> QED BY <3>1, <3>2
  <2>4. driven' \in [Capabilities -> {"unasked", "answered", "refused"}]
    BY <1>t, <1>10 DEF ReadAnswer, Drove, StoresTyped
  <2>5. /\ auth' \in {"unasked", "required", "authenticated", "refused"}
        /\ UNCHANGED <<live, listing, conversed>>
    BY <1>t, <1>10 DEF ReadAnswer, StoresTyped
  <2> QED BY <1>t, <2>2, <2>3, <2>4, <2>5 DEF StoresTyped
<1>11. ASSUME ReadDropped PROVE Rest
  BY <1>t, <1>11 DEF ReadDropped, Drove, StoresTyped
<1>12. ASSUME Disconnected PROVE Rest
  BY <1>t, <1>12 DEF Disconnected, StoresTyped
<1>13. ASSUME NEW s, NEW kind, NEW what, Announce(s, kind, what) PROVE Rest
  BY <1>1, <1>13 DEF Announce, stores, memory
<1>14. ASSUME Close \/ UNCHANGED vars PROVE Rest
  BY <1>1, <1>14 DEF Close, vars, stores, memory
<1>15. Rest
  <2> HIDE DEF Rest
  <2> QED BY <1>2, <1>3, <1>4, <1>5, <1>6, <1>7, <1>8, <1>9, <1>10, <1>11, <1>12, <1>13, <1>14 DEF Next
<1> QED BY <1>15, SettingsKeep DEF StoresTyped, SettingsStep

\* Every step leaves the calls of their type.
LEMMA CallsTypesKeep ==
  Types /\ CallsFit /\ [Next]_vars => CallsTyped'
<1> SUFFICES ASSUME Types, CallsFit, [Next]_vars PROVE CallsTyped'
  OBVIOUS
<1>t. CallsTyped /\ SlotsTyped /\ \A c \in Calls : call[c].caps \in SUBSET Capabilities
  BY DEF Types, CallsTyped, Record
<1>w. Waited \subseteq Calls
  BY <1>t DEF Waited, SlotsTyped
<1> DEFINE Rest == /\ driving' \in [Calls -> SUBSET Capabilities] /\ told' \in [Calls -> Nat]
                   /\ pending' \subseteq Calls /\ asked' \subseteq Calls /\ lost' \subseteq Calls
                   /\ heardIn' \subseteq Calls
<1>1. ASSUME UNCHANGED <<driving, told, pending, asked, lost, heardIn>> PROVE Rest
  BY <1>t, <1>1 DEF CallsTyped
<1>2. ASSUME NEW c \in Calls, GoLive(c) \/ SetReturns(c) \/ EndReturns(c) \/ Refresh(c) \/ ListReturns(c)
                              \/ LoginReturns(c)
      PROVE  Rest
  BY <1>1, <1>2 DEF GoLive, SetReturns, EndReturns, Refresh, ListReturns, LoginReturns, memory, wire, history
<1>3. ASSUME NEW c \in Calls, Leave(c) \/ Ended(c) PROVE Rest
  BY <1>t, <1>w, <1>3 DEF CallsTyped, Leave, Ended, Forget, memory, wire
<1>4. ASSUME NEW c \in Calls, Arm(c) PROVE Rest
  BY <1>t, <1>w, <1>4 DEF CallsTyped, Arm, memory, wire
<1>5. ASSUME NEW c \in Calls, Asks(c) PROVE Rest
  <2>1. PICK op, on, ask : Begin(c, op, on, ask)
    BY <1>5 DEF Asks
  <2> QED BY <1>t, <2>1 DEF CallsTyped, Begin, memory, wire
<1>6. ASSUME NEW c \in Calls, Prepare(c) PROVE Rest
  BY <1>t, <1>6 DEF CallsTyped, Prepare, memory, wire
<1>7. ASSUME NEW c \in Calls, Register(c) PROVE Rest
  BY <1>t, <1>7 DEF CallsTyped, Register, wire, history
<1>8. ASSUME NEW c \in Calls, Send(c) \/ Answer(c) PROVE Rest
  BY <1>t, <1>8 DEF CallsTyped, Send, Answer, memory, wire, history
<1>9. ASSUME NEW c \in Calls, Fail(c) PROVE Rest
  BY <1>t, <1>9 DEF CallsTyped, Fail, Told, Drove, wire
<1>10. ASSUME ReadUpdate PROVE Rest
  <2>1. HeardBy(Head(up)) \subseteq Calls
    BY <1>t DEF HeardBy, SlotsTyped
  <2> QED BY <1>t, <1>10, <2>1 DEF CallsTyped, ReadUpdate
<1>11. ASSUME ReadAnswer \/ ReadDropped PROVE Rest
  <2>1. Drove(Head(up).call, "answered") \/ Drove(Head(up).call, "refused")
    BY <1>11 DEF ReadAnswer, ReadDropped
  <2>2. /\ Told(Head(up).call) /\ pending' \subseteq pending
        /\ UNCHANGED <<asked, lost, heardIn>>
    BY <1>11 DEF ReadAnswer, ReadDropped
  <2>3. told' \in [Calls -> Nat]
    <3>1. PICK c \in Calls : c = Head(up).call
      BY <1>11, ReadsAnswer
    <3> QED BY <1>t, <2>2, <3>1 DEF CallsTyped, Told
  <2>4. driving' \in [Calls -> SUBSET Capabilities]
    BY <1>t, <2>1 DEF CallsTyped, Drove
  <2> QED BY <1>t, <2>2, <2>3, <2>4 DEF CallsTyped
<1>12. ASSUME Disconnected PROVE Rest
  BY <1>t, <1>12 DEF CallsTyped, Disconnected
<1>13. ASSUME Close PROVE Rest
  BY <1>t, <1>13 DEF CallsTyped, Close, memory, history
<1>14. ASSUME NEW s, NEW kind, NEW what, Announce(s, kind, what) PROVE Rest
  BY <1>1, <1>14 DEF Announce, memory, history
<1>15. ASSUME UNCHANGED vars PROVE Rest
  BY <1>1, <1>15 DEF vars, memory, wire, history
<1>16. Rest
  <2> HIDE DEF Rest
  <2> QED BY <1>2, <1>3, <1>4, <1>5, <1>6, <1>7, <1>8, <1>9, <1>10, <1>11, <1>12, <1>13, <1>14, <1>15 DEF Next
<1> QED BY <1>16, CallsMove DEF CallsTyped

\* Every step keeps the types.
LEMMA TypesKeep ==
  Types /\ OneEach /\ CallsFit /\ [Next]_vars => Types' /\ OneEach' /\ CallsFit'
BY WireKeeps, SlotsKeep, StoresKeep, CallsTypesKeep, CallsMove DEF Types

(***************************************************************************)
(* Calls go one way, and slots are armed by their call.                    *)
(***************************************************************************)
LEMMA CallsAdvance ==
  Types /\ CallsFit /\ [Next]_vars =>
    \A d \in Calls : /\ Armed(d) => Armed(d)'
                     /\ Away(d) => Away(d)'
                     /\ Over(d) => Over(d)'
                     /\ Early(d)' => Early(d)
<1> SUFFICES ASSUME Types, CallsFit, [Next]_vars, NEW d \in Calls
             PROVE  /\ Armed(d) => Armed(d)'
                    /\ Away(d) => Away(d)'
                    /\ Over(d) => Over(d)'
                    /\ Early(d)' => Early(d)
  OBVIOUS
<1> USE DEF Armed, Away, Over, Early
<1> DEFINE P == /\ Armed(d) => Armed(d)'
                /\ Away(d) => Away(d)'
                /\ Over(d) => Over(d)'
                /\ Early(d)' => Early(d)
<1>t. call \in [Calls -> Record] /\ call[d] \in Record
  BY DEF Types, CallsTyped
<1>f. call[d].at # "none" => Kept(d)
  BY CallsMove
<1>1. ASSUME call'[d].at = call[d].at PROVE P
  BY <1>f, <1>1 DEF Kept
<1>2. ASSUME NEW c \in Calls, Moves(c) PROVE P
  <2>1. CASE c # d
    <3>1. call'[d] = call[d]
      BY <1>t, <1>2, <2>1, MovesStep DEF AtStep
    <3> QED BY <1>1, <3>1
  <2>2. CASE c = d
    <3> DEFINE Goes(from, to) == call[d].at \in from /\ call'[d].at \in to
    <3>1. ASSUME Prepare(d) PROVE Goes({"begun"}, {"prepared", "failed"})
      BY <1>t, <3>1 DEF Prepare, AtStep, Record
    <3>2. ASSUME Register(d) PROVE Goes({"prepared"}, {"left"}) \/ (call[d].op \in Restores /\ Goes({"prepared"}, {"leaving"}))
      BY <1>t, <3>2 DEF Register, AtStep, Record
    <3>3. ASSUME Leave(d)
          PROVE  (call[d].op = "new" /\ Goes({"leaving"}, {"begun"})) \/ Goes({"leaving"}, {"left"})
      BY <1>t, <3>3 DEF Leave, AtStep, Record
    <3>4. ASSUME Arm(d) \/ Send(d) PROVE Goes({"left"}, {"armed"}) \/ Goes({"armed"}, {"waiting"})
      BY <1>t, <3>4 DEF Arm, Send, AtStep, Record
    <3>5. ASSUME Fail(d) \/ GoLive(d) \/ SetReturns(d) \/ EndReturns(d) \/ ListReturns(d) \/ LoginReturns(d)
          PROVE  Goes({"waiting"}, {"ending", "emptied", "done", "failed"})
      <4>1. CASE Fail(d) \/ GoLive(d) \/ SetReturns(d)
        BY <1>t, <4>1 DEF Fail, GoLive, SetReturns, Ready, AtStep, Record
      <4>2. CASE EndReturns(d) \/ ListReturns(d) \/ LoginReturns(d)
        BY <1>t, <4>2 DEF EndReturns, ListReturns, LoginReturns, Ready, AtStep, Record
      <4> QED BY <3>5, <4>1, <4>2
    <3>6. ASSUME Ended(d) PROVE Goes({"ending"}, {"emptied", "done"})
      BY <1>t, <3>6 DEF Ended, AtStep, Record
    <3>7. call[d].op \in Restores => call[d].op # "new"
      BY DEF Restores
    <3> QED BY <1>2, <1>f, <2>2, <3>1, <3>2, <3>3, <3>4, <3>5, <3>6, <3>7 DEF Moves, Kept
  <2> QED BY <2>1, <2>2
<1>3. ASSUME NEW c \in Calls, Asks(c) PROVE P
  <2>1. c \notin Made /\ \E r \in Record : call' = [call EXCEPT ![c] = r]
    BY <1>3, AsksMakes
  <2> QED BY <1>t, <1>1, <2>1 DEF Made
<1>4. ASSUME NEW c \in Calls, Refresh(c) PROVE P
  <2>1. call[c].at = "emptied" /\ call'[c].at = "done"
    BY <1>t, <1>4 DEF Refresh, Record
  <2>2. d # c /\ d # Cardinality(Made) + 1 => call'[d] = call[d]
    BY <1>4 DEF Refresh
  <2>3. d = Cardinality(Made) + 1 => call[d].at = "none"
    BY NextIsUnmade DEF Made
  <2> QED BY <1>1, <2>1, <2>2, <2>3
<1>5. ASSUME ReadAnswer \/ ReadDropped PROVE P
  <2>1. call'[d].at = call[d].at
    BY <1>t, <1>5, ReadsAnswer DEF Record
  <2> QED BY <1>1, <2>1
<1>6. ASSUME Close PROVE P
  <2>1. call'[d].at = call[d].at
    BY <1>t, <1>6 DEF Close, Record
  <2> QED BY <1>1, <2>1
<1>7. ASSUME NEW c \in Calls, Answer(c) PROVE P
  BY <1>1, <1>7 DEF Answer
<1>8. ASSUME NEW s, NEW kind, NEW what, Announce(s, kind, what) PROVE P
  BY <1>1, <1>8 DEF Announce
<1>9. ASSUME ReadUpdate \/ Disconnected \/ UNCHANGED vars PROVE P
  BY <1>1, <1>9 DEF ReadUpdate, Disconnected, vars
<1> HIDE DEF P
<1> P
  BY <1>2, <1>3, <1>4, <1>5, <1>6, <1>7, <1>8, <1>9 DEF Next, Moves
<1> QED BY DEF P

\* A slot is what its call armed, for as long as it is there.
SlotsStep ==
  /\ \A o \in opening' :
       \/ \E p \in opening : p.call = o.call /\ p.how = o.how /\ p.on = o.on
       \/ \E c \in Calls : /\ Arm(c) /\ call[c].op \in Opens /\ opening' = {o}
                           /\ o = [call |-> c, how |-> call[c].op, on |-> call[c].on, stated |-> None]
  /\ \A l \in loading' :
       \/ \E p \in loading : p.call = l.call /\ p.on = l.on /\ (p.replayed => l.replayed)
       \/ \E c \in Calls : /\ Arm(c) /\ call[c].op = "load" /\ loading' = {l}
                           /\ l = [call |-> c, on |-> call[c].on, replayed |-> FALSE]
  /\ \A m \in changing' :
       \/ \E p \in changing : p.call = m.call /\ (p.restated => m.restated)
       \/ \E c \in Calls : /\ Arm(c) /\ call[c].op = "mode" /\ changing' = {m}
                           /\ m = [call |-> c, restated |-> FALSE]
  /\ \A c \in setting' : c \in setting \/ (c \in Calls /\ Arm(c) /\ call[c].op = "option" /\ setting' = {c})

\* A slot that a step fills holds the call that armed it.
LEMMA SlotsAreArmed ==
  Types /\ [Next]_vars => SlotsStep
<1> SUFFICES ASSUME Types, [Next]_vars PROVE SlotsStep
  OBVIOUS
<1>1. ASSUME opening' \subseteq opening, loading' \subseteq loading, changing' \subseteq changing,
             setting' \subseteq setting
      PROVE  SlotsStep
  BY <1>1 DEF SlotsStep
<1>2. ASSUME NEW c \in Calls, Arm(c) PROVE SlotsStep
  <2>1. \/ opening' = opening
        \/ call[c].op \in Opens /\ opening' = {[call |-> c, how |-> call[c].op, on |-> call[c].on, stated |-> None]}
    BY <1>2 DEF Arm
  <2>2. \/ loading' = loading
        \/ call[c].op = "load" /\ loading' = {[call |-> c, on |-> call[c].on, replayed |-> FALSE]}
    BY <1>2 DEF Arm
  <2>3. changing' = changing \/ (call[c].op = "mode" /\ changing' = {[call |-> c, restated |-> FALSE]})
    BY <1>2 DEF Arm
  <2>4. setting' = setting \/ (call[c].op = "option" /\ setting' = {c})
    BY <1>2 DEF Arm
  <2> QED BY <1>2, <2>1, <2>2, <2>3, <2>4 DEF SlotsStep
<1>3. ASSUME ReadUpdate PROVE SlotsStep
  <2> DEFINE u == Head(up)
  <2>1. /\ loading' = loading \/ loading' = {Replayed(l, u) : l \in loading}
        /\ changing' = changing \/ changing' = {Restated(m) : m \in changing}
        /\ opening' = opening \/ opening' = {Stated(o, u) : o \in opening}
        /\ setting' = setting
    <3>1. CASE Foreign(u.on)
      BY <1>3, <3>1 DEF ReadUpdate
    <3>2. CASE ~Foreign(u.on)
      BY <1>3, <3>2 DEF ReadUpdate
    <3> QED BY <3>1, <3>2
  <2> HIDE DEF u
  <2>2. /\ \A l \in loading : /\ Replayed(l, u).call = l.call /\ Replayed(l, u).on = l.on
                              /\ l.replayed => Replayed(l, u).replayed
        /\ \A m \in changing : Restated(m).call = m.call /\ Restated(m).restated
        /\ \A o \in opening : Stated(o, u).call = o.call /\ Stated(o, u).how = o.how /\ Stated(o, u).on = o.on
    BY DEF Types, SlotsTyped, Replayed, Restated, Stated
  <2> QED BY <2>1, <2>2 DEF SlotsStep
<1>4. ASSUME ReadAnswer PROVE SlotsStep
  BY <1>1, <1>4 DEF ReadAnswer, Loaded, Opened, ChangedMode, SetAnswered
<1>5. ASSUME ReadDropped \/ Disconnected PROVE SlotsStep
  BY <1>1, <1>5 DEF ReadDropped, Disconnected
<1>6. ASSUME NEW c \in Calls, Leave(c) \/ Ended(c) \/ Fail(c) PROVE SlotsStep
  BY <1>1, <1>6 DEF Leave, Ended, Fail, Forget
<1>7. ASSUME NEW c \in Calls,
             \/ Asks(c) \/ Prepare(c) \/ Register(c) \/ Send(c) \/ GoLive(c) \/ SetReturns(c) \/ EndReturns(c)
             \/ Refresh(c) \/ ListReturns(c) \/ LoginReturns(c) \/ Answer(c)
      PROVE  SlotsStep
  BY <1>1, <1>7 DEF Asks, Begin, Prepare, Register, Send, GoLive, SetReturns, EndReturns, Refresh, ListReturns,
     LoginReturns, Answer, slots
<1>8. ASSUME NEW s, NEW kind, NEW what, Announce(s, kind, what) PROVE SlotsStep
  BY <1>1, <1>8 DEF Announce, slots
<1>9. ASSUME Close \/ UNCHANGED vars PROVE SlotsStep
  BY <1>1, <1>9 DEF Close, vars, slots
<1> QED BY <1>2, <1>3, <1>4, <1>5, <1>6, <1>7, <1>8, <1>9 DEF Next

\* Every step leaves each slot to the calls it is for.
LEMMA SlotsHoldKeep ==
  Types /\ CallsFit /\ SlotsHoldTheirs /\ [Next]_vars => SlotsHoldTheirs'
<1> SUFFICES ASSUME Types, CallsFit, SlotsHoldTheirs, [Next]_vars PROVE SlotsHoldTheirs'
  OBVIOUS
<1>t. SlotsTyped /\ call \in [Calls -> Record]
  BY DEF Types, CallsTyped
<1>1. \A d \in Calls : Armed(d) => Armed(d)' /\ Kept(d)
  BY CallsAdvance, CallsMove DEF Armed, Away, Over
<1>2. ASSUME NEW c \in Calls, Arm(c) PROVE Armed(c)' /\ Kept(c)
  <2>1. call'[c].at = "armed" /\ call[c].at = "left"
    BY <1>t, <1>2 DEF Arm, AtStep, Record
  <2> QED BY <2>1, CallsMove DEF Armed
<1>3. SlotsStep
  BY SlotsAreArmed
<1>4. ASSUME NEW o \in opening' PROVE Armed(o.call)' /\ call'[o.call].op = o.how /\ call'[o.call].on = o.on
  BY <1>t, <1>1, <1>2, <1>3 DEF SlotsStep, SlotsHoldTheirs, SlotsTyped, Kept
<1>5. ASSUME NEW l \in loading' PROVE Armed(l.call)' /\ call'[l.call].op = "load" /\ call'[l.call].on = l.on
  BY <1>t, <1>1, <1>2, <1>3 DEF SlotsStep, SlotsHoldTheirs, SlotsTyped, Kept
<1>6. ASSUME NEW m \in changing' PROVE Armed(m.call)' /\ call'[m.call].op = "mode"
  BY <1>t, <1>1, <1>2, <1>3 DEF SlotsStep, SlotsHoldTheirs, SlotsTyped, Kept
<1>7. ASSUME NEW c \in setting' PROVE Armed(c)' /\ call'[c].op = "option"
  BY <1>t, <1>1, <1>2, <1>3 DEF SlotsStep, SlotsHoldTheirs, SlotsTyped, Kept
<1> QED BY <1>4, <1>5, <1>6, <1>7 DEF SlotsHoldTheirs

\* An answer on its way was given to a call the agent held.
LEMMA AnsweringMoves ==
  Types /\ [Next]_vars =>
    Answering' \subseteq Answering \cup {c \in Calls : Answer(c) /\ c \in asked}
<1> SUFFICES ASSUME Types, [Next]_vars
             PROVE  Answering' \subseteq Answering \cup {c \in Calls : Answer(c) /\ c \in asked}
  OBVIOUS
<1> USE DEF Answering
<1>t. up \in Seq(Frames)
  BY DEF Types, WireTyped
<1>1. ASSUME NEW f, up' = Append(up, f)
      PROVE  \A c \in Answering' : c \in Answering \/ (c = f.call /\ f.kind = "answer")
  <2>1. /\ Len(up) \in Nat /\ DOMAIN up = 1..Len(up) /\ DOMAIN up' = 1..(Len(up) + 1)
        /\ up'[Len(up) + 1] = f /\ \A k \in 1..Len(up) : up'[k] = up[k]
    BY <1>t, <1>1
  <2> QED BY <2>1
<1>2. ASSUME NEW c \in Calls, Answer(c)
      PROVE  Answering' \subseteq Answering \cup {d \in Calls : Answer(d) /\ d \in asked}
  <2>1. c \in asked /\ \E f : up' = Append(up, f) /\ f.call = c
    BY <1>2 DEF Answer
  <2> QED BY <1>1, <1>2, <2>1
<1>3. ASSUME NEW s, NEW kind \in {"talk", "mode", "options"}, NEW what, Announce(s, kind, what)
      PROVE  Answering' \subseteq Answering
  <2>1. \E f : up' = Append(up, f) /\ f.kind # "answer"
    BY <1>3 DEF Announce
  <2> QED BY <1>1, <2>1
<1>4. ASSUME ReadUpdate \/ ReadAnswer \/ ReadDropped PROVE Answering' \subseteq Answering
  <2>1. up # <<>> /\ up' = Tail(up)
    BY <1>4 DEF ReadUpdate, ReadAnswer, ReadDropped, Heads
  <2> QED BY <1>t, <2>1, HeadIsOne
<1>5. ASSUME Close PROVE Answering' \subseteq Answering
  BY <1>5 DEF Close
<1>6. ASSUME up' = up PROVE Answering' \subseteq Answering
  BY <1>6
<1>7. ASSUME NEW c \in Calls, Asks(c) \/ Refresh(c) \/ Moves(c) PROVE Answering' \subseteq Answering
  <2>1. CASE Asks(c) \/ Refresh(c)
    BY <1>6, <2>1 DEF Asks, Begin, Refresh, wire
  <2>2. CASE Moves(c)
    BY <1>6, <2>2 DEF Moves, Prepare, Register, Leave, Arm, Send, Fail, GoLive, SetReturns, EndReturns, Ended,
       ListReturns, LoginReturns, wire
  <2> QED BY <1>7, <2>1, <2>2
<1>8. ASSUME Disconnected \/ UNCHANGED vars PROVE Answering' \subseteq Answering
  BY <1>6, <1>8 DEF Disconnected, vars, wire
<1> HIDE DEF Answering
<1> QED BY <1>2, <1>3, <1>4, <1>5, <1>7, <1>8 DEF Next, Moves

\* The agent gets to hold only what is sent while the connection lasts.
LEMMA AskedMoves ==
  [Next]_vars => \A c \in asked' : c \in asked \/ (c \in Calls /\ Send(c) /\ conn = "open")
<1> SUFFICES ASSUME [Next]_vars PROVE \A c \in asked' : c \in asked \/ (c \in Calls /\ Send(c) /\ conn = "open")
  OBVIOUS
<1>1. ASSUME asked' \subseteq asked PROVE \A c \in asked' : c \in asked
  BY <1>1
<1>2. ASSUME NEW c \in Calls, Send(c) PROVE \A d \in asked' : d \in asked \/ (d = c /\ conn = "open")
  BY <1>2 DEF Send
<1>3. ASSUME NEW c \in Calls, Asks(c) \/ Refresh(c) \/ Answer(c) PROVE asked' \subseteq asked
  BY <1>3 DEF Asks, Begin, Refresh, Answer, wire
<1>4. ASSUME NEW c \in Calls, Moves(c), ~Send(c) PROVE asked' \subseteq asked
  BY <1>4 DEF Moves, Prepare, Register, Leave, Arm, Fail, GoLive, SetReturns, EndReturns, Ended,
     ListReturns, LoginReturns, wire
<1>5. ASSUME NEW s, NEW kind, NEW what, Announce(s, kind, what) PROVE asked' \subseteq asked
  BY <1>5 DEF Announce
<1>6. ASSUME ReadUpdate \/ ReadAnswer \/ ReadDropped \/ Close \/ Disconnected \/ UNCHANGED vars
      PROVE  asked' \subseteq asked
  BY <1>6 DEF ReadUpdate, ReadAnswer, ReadDropped, Close, Disconnected, vars, wire
<1> QED BY <1>1, <1>2, <1>3, <1>4, <1>5, <1>6 DEF Next, Moves

\* What the agent holds or has answered was sent, after every step.
LEMMA SentKeeps ==
  Types /\ CallsFit /\ SentIsAway /\ [Next]_vars => SentIsAway'
<1> SUFFICES ASSUME Types, CallsFit, SentIsAway, [Next]_vars PROVE SentIsAway'
  OBVIOUS
<1>t. asked \subseteq Calls /\ call \in [Calls -> Record]
  BY DEF Types, CallsTyped
<1>1. \A c \in Calls : Away(c) => Away(c)'
  BY CallsAdvance
<1>2. \A c \in asked' : c \in asked \/ (c \in Calls /\ Send(c))
  BY AskedMoves
<1>3. ASSUME NEW c \in Calls, Send(c) PROVE Away(c)'
  BY <1>t, <1>3 DEF Send, AtStep, Away, Record
<1>4. Answering \subseteq Calls
  <2>1. \A f \in Frames : f.kind = "answer" => f.call \in Calls
    BY DEF Frames, AnswerFrame, TalkFrame, ModeFrame, OptionFrame, Frame
  <2> QED BY <2>1 DEF Types, WireTyped, Answering
<1> QED BY <1>t, <1>1, <1>2, <1>3, <1>4, AnsweringMoves DEF SentIsAway

\* Only reading an update adds to the calls heard, those its frame is about.
LEMMA HeardGrows ==
  [Next]_vars => \/ heardIn' = heardIn
                 \/ ReadUpdate /\ heardIn' = heardIn \cup HeardBy(Head(up))
<1> SUFFICES ASSUME [Next]_vars, ~ReadUpdate PROVE heardIn' = heardIn
  BY DEF ReadUpdate
<1>1. ASSUME NEW c \in Calls, Asks(c) \/ Refresh(c) \/ Answer(c) PROVE heardIn' = heardIn
  BY <1>1 DEF Asks, Begin, Refresh, Answer, history
<1>2. ASSUME NEW c \in Calls, Moves(c) PROVE heardIn' = heardIn
  BY <1>2 DEF Moves, Prepare, Register, Leave, Arm, Send, Fail, GoLive, SetReturns, EndReturns, Ended,
     ListReturns, LoginReturns, history
<1>3. ASSUME NEW s, NEW kind, NEW what, Announce(s, kind, what) PROVE heardIn' = heardIn
  BY <1>3 DEF Announce, history
<1>4. ASSUME ReadAnswer \/ ReadDropped \/ Close \/ Disconnected \/ UNCHANGED vars PROVE heardIn' = heardIn
  BY <1>4 DEF ReadAnswer, ReadDropped, Close, Disconnected, vars, history
<1> QED BY <1>1, <1>2, <1>3, <1>4 DEF Next, Moves

\* What was heard was armed, after every step.
LEMMA HeardKeeps ==
  Types /\ CallsFit /\ SlotsHoldTheirs /\ HeardAreArmed /\ [Next]_vars => HeardAreArmed'
<1> SUFFICES ASSUME Types, CallsFit, SlotsHoldTheirs, HeardAreArmed, [Next]_vars PROVE HeardAreArmed'
  OBVIOUS
<1>1. \A c \in Calls : Armed(c) => Armed(c)'
  BY CallsAdvance
<1>2. \A c \in HeardBy(Head(up)) : c \in Calls /\ Armed(c)
  <2>1. \A l \in loading : l.call \in Calls /\ Armed(l.call)
    BY DEF SlotsHoldTheirs, Types, SlotsTyped
  <2>2. \A c \in Calls : call[c].at \in {"armed", "waiting", "done"} => Armed(c)
    BY DEF Armed, Away, Over
  <2> QED BY <2>1, <2>2 DEF HeardBy
<1>3. heardIn' \subseteq heardIn \cup HeardBy(Head(up))
  BY HeardGrows
<1> QED BY <1>1, <1>2, <1>3 DEF HeardAreArmed, Types, CallsTyped

(***************************************************************************)
(* The ledger: what a step writes of a call's outcome.                     *)
(***************************************************************************)
Stays(d) == (Early(d) => Early(d)') /\ (call[d].at = "left" => call'[d].at = "left")
Same(d) == told'[d] = told[d] /\ driving'[d] = driving[d] /\ (d \in Waited' <=> d \in Waited)
Left(d) == /\ told'[d] = told[d] /\ driving'[d] = driving[d] /\ d \notin Waited'
           /\ d \in Waited => d \in lost'
Settles(d) == /\ told'[d] = IF Held0(d) THEN told[d] + 1 ELSE told[d]
              /\ driving'[d] = {} /\ d \notin Waited'
BookStep(d) ==
  \/ Same(d) /\ Stays(d) /\ (Over(d)' => Over(d) \/ Answered(d)) /\ (Answered(d)' => Answered(d))
  \/ Left(d) /\ Stays(d) /\ (Over(d)' => Over(d)) /\ (Answered(d)' => Answered(d))
  \/ Settles(d) /\ Stays(d) /\ (Answered(d)' => Away(d) \/ Answered(d))
  \/ /\ call[d].at = "prepared" /\ told'[d] = told[d] /\ driving'[d] = call[d].caps /\ (d \in Waited' <=> d \in Waited)
     /\ ~Over(d)' /\ ~Early(d)' /\ (Answered(d)' => Answered(d)) /\ (call[d].op \in Sets => call'[d].at = "left")
  \/ /\ call[d].at = "left" /\ call'[d].at = "armed" /\ (Answered(d)' => Answered(d))
     /\ told'[d] = told[d] /\ driving'[d] = driving[d]
     /\ IF call[d].op \in Sets THEN d \in Waited' ELSE d \in Waited' <=> d \in Waited
  \/ /\ call[d].at = "none" /\ driving'[d] = driving[d] /\ (d \in Waited' <=> d \in Waited) /\ ~Answered(d)'
     /\ told'[d] = IF call'[d].at = "failed" THEN 1 ELSE 0
     /\ Early(d)' \/ call'[d].at = "failed"
  \/ /\ call[d].at = "begun" /\ call'[d].at = "failed" /\ (Answered(d)' => Answered(d))
     /\ told'[d] = (IF Owed(d) THEN 1 ELSE 0) /\ driving'[d] = driving[d] /\ (d \in Waited' <=> d \in Waited)

\* The books of a call stay right when the step keeps to `BookStep`.
LEMMA LedgerFollows ==
  ASSUME Types, CallsFit, SlotsHoldTheirs, [Next]_vars, NEW d \in Calls, Ledger(d), BookStep(d), lost \subseteq lost'
  PROVE  Ledger(d)'
<1>t. /\ told \in [Calls -> Nat] /\ told'[d] \in Nat /\ call \in [Calls -> Record] /\ driving[d] \subseteq Capabilities
      /\ call[d].at # "none" => Kept(d)
  BY CallsMove, CallsTypesKeep DEF Types, CallsTyped
<1>a. /\ Armed(d) => Armed(d)'
      /\ Away(d) => Away(d)'
      /\ Over(d) => Over(d)'
      /\ Early(d)' => Early(d)
  BY CallsAdvance
<1>f. call[d].at # "none" /\ call[d].op \in Sets => call[d].caps = {}
  BY DEF CallsFit, Fits, Made
<1>w. d \in Waited => Armed(d)
  BY DEF SlotsHoldTheirs, Waited
<1>e. /\ Early(d) \/ call[d].at = "left" => ~Armed(d)
      /\ Over(d) => Away(d)
      /\ Away(d) => Armed(d)
      /\ call[d].at \in {"none", "begun", "prepared"} => Early(d)
      /\ call[d].at = "left" => ~Early(d)
  BY DEF Armed, Away, Over, Early
<1>o. call[d].at # "none" => (Owed(d)' <=> Owed(d)) /\ call'[d].caps = call[d].caps /\ call'[d].op = call[d].op
  BY <1>t DEF Owed, Kept
<1>1. CASE Same(d) /\ Stays(d) /\ (Over(d)' => Over(d) \/ Answered(d)) /\ (Answered(d)' => Answered(d))
  BY <1>1, <1>t, <1>a, <1>f, <1>w, <1>e, <1>o DEF Ledger, Same, Stays, Held0
<1>2. CASE Left(d) /\ Stays(d) /\ (Over(d)' => Over(d)) /\ (Answered(d)' => Answered(d))
  BY <1>2, <1>t, <1>a, <1>f, <1>w, <1>e, <1>o DEF Ledger, Left, Stays, Held0
<1>3. CASE Settles(d) /\ Stays(d) /\ (Answered(d)' => Away(d) \/ Answered(d))
  BY <1>3, <1>t, <1>a, <1>f, <1>w, <1>e, <1>o DEF Ledger, Settles, Stays, Held0
<1>4. CASE /\ call[d].at = "prepared" /\ told'[d] = told[d] /\ driving'[d] = call[d].caps /\ (d \in Waited' <=> d \in Waited)
           /\ ~Over(d)' /\ ~Early(d)' /\ (Answered(d)' => Answered(d)) /\ (call[d].op \in Sets => call'[d].at = "left")
  BY <1>4, <1>t, <1>a, <1>f, <1>w, <1>e, <1>o DEF Ledger, Held0, Owed
<1>5. CASE /\ call[d].at = "left" /\ call'[d].at = "armed" /\ (Answered(d)' => Answered(d))
           /\ told'[d] = told[d] /\ driving'[d] = driving[d]
           /\ IF call[d].op \in Sets THEN d \in Waited' ELSE d \in Waited' <=> d \in Waited
  <2>1. Armed(d)' /\ ~Over(d)' /\ ~Early(d)'
    BY <1>5 DEF Armed, Over, Early
  <2> QED BY <1>5, <1>t, <1>a, <1>f, <1>w, <1>e, <1>o, <2>1 DEF Ledger, Held0
<1>6. CASE /\ call[d].at = "none" /\ driving'[d] = driving[d] /\ (d \in Waited' <=> d \in Waited) /\ ~Answered(d)'
           /\ told'[d] = IF call'[d].at = "failed" THEN 1 ELSE 0
           /\ Early(d)' \/ call'[d].at = "failed"
  <2>1. call'[d].at = "failed" => Armed(d)'
    BY DEF Armed, Away, Over
  <2> QED BY <1>6, <1>t, <1>a, <1>w, <1>e, <2>1 DEF Ledger, Held0, Over, Early
<1>7. CASE /\ call[d].at = "begun" /\ call'[d].at = "failed" /\ (Answered(d)' => Answered(d))
           /\ told'[d] = (IF Owed(d) THEN 1 ELSE 0) /\ driving'[d] = driving[d] /\ (d \in Waited' <=> d \in Waited)
  <2>1. Armed(d)' /\ ~Early(d)'
    BY <1>7 DEF Armed, Away, Over, Early
  <2> QED BY <1>7, <1>t, <1>a, <1>f, <1>w, <1>e, <1>o, <2>1 DEF Ledger, Held0
<1> QED BY <1>1, <1>2, <1>3, <1>4, <1>5, <1>6, <1>7 DEF BookStep

\* What a caller's own step does of the other calls: nothing.
LEMMA OthersStand ==
  ASSUME Types, NEW c \in Calls, Moves(c), NEW d \in Calls \ {c}
  PROVE  call'[d] = call[d]
BY MovesStep DEF AtStep, Types, CallsTyped

\* Every step writes the books of a call in one of these ways.
LEMMA BooksAreKept ==
  ASSUME Types, OneEach, CallsFit, SlotsHoldTheirs, SentIsAway, [Next]_vars, NEW d \in Calls
  PROVE  BookStep(d) /\ lost \subseteq lost'
<1>t. /\ call \in [Calls -> Record] /\ call[d] \in Record /\ told \in [Calls -> Nat]
      /\ driving \in [Calls -> SUBSET Capabilities] /\ SlotsTyped
  BY DEF Types, CallsTyped
<1> DEFINE P == BookStep(d) /\ lost \subseteq lost'
           Still == /\ (Early(d) => Early(d)') /\ (call[d].at = "left" => call'[d].at = "left")
                    /\ (Over(d)' => Over(d)) /\ (Answered(d)' => Answered(d))
<1>r. ASSUME call'[d] = call[d] PROVE Still
  BY <1>r DEF Early, Over, Answered
<1>w. ASSUME UNCHANGED <<changing, setting>> PROVE Waited' = Waited
  BY <1>w DEF Waited
<1>1. ASSUME Same(d), Still, lost \subseteq lost' PROVE P
  BY <1>1 DEF BookStep, Stays
<1>2. ASSUME Left(d), Still, lost \subseteq lost' PROVE P
  BY <1>2 DEF BookStep, Stays
<1>3. ASSUME Settles(d), Stays(d), Answered(d)' => Away(d) \/ Answered(d), lost \subseteq lost' PROVE P
  BY <1>3 DEF BookStep
\* Callers.
<1>4. ASSUME NEW c \in Calls, Asks(c) PROVE P
  <2>1. PICK op, on, ask : Begin(c, op, on, ask)
    BY <1>4 DEF Asks
  <2>2. /\ Waited' = Waited /\ driving' = driving /\ lost' = lost
        /\ told' = [told EXCEPT ![c] = IF op \in Sets /\ live = None THEN 1 ELSE 0]
    BY <1>w, <2>1 DEF Begin, slots, memory
  <2>3. CASE d # c
    BY <1>t, <1>1, <1>r, <2>1, <2>2, <2>3 DEF Begin, Same
  <2>4. CASE d = c
    <3>1. PICK r \in Record :
            /\ call' = [call EXCEPT ![c] = r] /\ c \notin Made
            /\ r.at \in {"leaving", "failed", "begun"} /\ r.got = Unheard
            /\ r.at = "leaving" => r.op = "new"
      BY <1>4, AsksMakes
    <3>2. call'[d] = r /\ call[d].at = "none"
      BY <1>t, <2>4, <3>1 DEF Made
    <3>3. call'[d].at = "failed" <=> op \in Sets /\ live = None
      BY <1>t, <2>1, <2>4 DEF Begin, Sets
    <3>4. ~Answered(d)' /\ (Early(d)' \/ call'[d].at = "failed")
      BY <3>1, <3>2 DEF Answered, Early, Unheard, Word
    <3> QED BY <1>t, <2>2, <2>4, <3>2, <3>3, <3>4 DEF BookStep
  <2> QED BY <2>3, <2>4
<1>5. ASSUME NEW c \in Calls, Prepare(c) PROVE P
  <2>1. Waited' = Waited /\ driving' = driving /\ lost' = lost
    BY <1>w, <1>5 DEF Prepare, slots, memory
  <2>2. CASE d # c
    <3>1. call'[d] = call[d] /\ told'[d] = told[d]
      BY <1>t, <1>5, <2>2, OthersStand DEF Prepare, Moves
    <3> QED BY <1>1, <1>r, <2>1, <3>1 DEF Same
  <2>3. CASE d = c /\ conn = "open"
    <3>1. call[d].at = "begun" /\ call'[d] = [call[d] EXCEPT !.at = "prepared"] /\ told' = told
      BY <1>t, <1>5, <2>3 DEF Prepare, AtStep
    <3>2. Still
      BY <1>t, <3>1 DEF Record, Early, Over, Answered
    <3> QED BY <1>1, <2>1, <3>1, <3>2 DEF Same
  <2>4. CASE d = c /\ conn # "open"
    <3>1. /\ call[d].at = "begun" /\ call'[d] = [call[d] EXCEPT !.at = "failed"]
          /\ told'[d] = IF Owed(d) THEN 1 ELSE 0
      BY <1>t, <1>5, <2>4 DEF Prepare, AtStep
    <3>2. call'[d].at = "failed" /\ (Answered(d)' => Answered(d))
      BY <1>t, <3>1 DEF Record, Answered
    <3> QED BY <2>1, <3>1, <3>2 DEF BookStep
  <2> QED BY <2>2, <2>3, <2>4
<1>6. ASSUME NEW c \in Calls, Register(c) PROVE P
  <2>1. Waited' = Waited /\ driving' = [driving EXCEPT ![c] = call[c].caps] /\ told' = told /\ lost' = lost
    BY <1>w, <1>6 DEF Register, slots, history
  <2>2. CASE d # c
    <3>1. call'[d] = call[d]
      BY <1>6, <2>2, OthersStand DEF Moves
    <3> QED BY <1>1, <1>r, <1>t, <2>1, <2>2, <3>1 DEF Same
  <2>3. CASE d = c
    <3>1. /\ call[d].at = "prepared" /\ call'[d].got = call[d].got
          /\ call'[d].at = IF call[d].op \in Restores /\ live # None THEN "leaving" ELSE "left"
          /\ call'[d].op = call[d].op
      BY <1>t, <1>6, <2>3 DEF Register, AtStep, Record
    <3>2. ~Over(d)' /\ ~Early(d)' /\ (Answered(d)' => Answered(d)) /\ (call[d].op \in Sets => call'[d].at = "left")
      BY <3>1 DEF Over, Early, Answered, Restores, Sets
    <3> QED BY <1>t, <2>1, <2>3, <3>1, <3>2 DEF BookStep
  <2> QED BY <2>2, <2>3
<1>7. ASSUME NEW c \in Calls, Leave(c) \/ Ended(c) PROVE P
  <2>1. /\ changing' = {} /\ setting' = {} /\ lost' = lost \cup Waited /\ driving' = driving /\ told' = told
    BY <1>7 DEF Leave, Ended, Forget, memory
  <2>2. Left(d) /\ lost \subseteq lost'
    BY <2>1 DEF Left, Waited
  <2>3. Still
    <3>1. CASE d # c
      <4>1. call'[d] = call[d]
        BY <1>7, <3>1, OthersStand DEF Moves
      <4> QED BY <1>r, <4>1
    <3>2. CASE d = c
      <4>1. CASE Leave(c)
        BY <1>t, <3>2, <4>1 DEF Leave, AtStep, Record, Early, Over, Answered
      <4>2. CASE Ended(c)
        BY <1>t, <3>2, <4>2 DEF Ended, AtStep, Record, Early, Over, Answered
      <4> QED BY <1>7, <4>1, <4>2
    <3> QED BY <3>1, <3>2
  <2> QED BY <1>2, <2>2, <2>3
<1>8. ASSUME NEW c \in Calls, Arm(c) PROVE P
  <2>1. /\ driving' = driving /\ told' = told /\ lost' = lost \cup {e \in Waited : call[e].op = call[c].op}
        /\ changing' = IF call[c].op = "mode" THEN {[call |-> c, restated |-> FALSE]} ELSE changing
        /\ setting' = IF call[c].op = "option" THEN {c} ELSE setting
    BY <1>8 DEF Arm, memory
  <2>2. CASE d # c
    <3>1. call'[d] = call[d]
      BY <1>8, <2>2, OthersStand DEF Moves
    <3>2. CASE d \in Waited /\ call[d].op = call[c].op
      <4>1. d \notin Waited'
        BY <2>1, <2>2, <3>2 DEF Waited, SlotsHoldTheirs
      <4> QED BY <1>2, <1>r, <2>1, <3>1, <3>2, <4>1 DEF Left
    <3>3. CASE ~(d \in Waited /\ call[d].op = call[c].op)
      <4>1. d \in Waited' <=> d \in Waited
        BY <2>1, <2>2, <3>3 DEF Waited, SlotsHoldTheirs
      <4> QED BY <1>1, <1>r, <2>1, <3>1, <4>1 DEF Same
    <3> QED BY <3>2, <3>3
  <2>3. CASE d = c
    <3>1. call[d].at = "left" /\ call'[d].at = "armed" /\ call'[d].got = call[d].got
      BY <1>t, <1>8, <2>3 DEF Arm, AtStep, Record
    <3>2. IF call[d].op \in Sets THEN d \in Waited' ELSE d \in Waited' <=> d \in Waited
      BY <2>1, <2>3 DEF Waited, Sets
    <3> QED BY <2>1, <3>1, <3>2 DEF BookStep, Answered
  <2> QED BY <2>2, <2>3
<1>9. ASSUME NEW c \in Calls, Fail(c) PROVE P
  <2>1. /\ driving' = [driving EXCEPT ![c] = {}] /\ lost' = lost /\ setting' = setting \ (setting \cap {c})
        /\ changing' = changing \ {s \in changing : s.call = c}
        /\ Told(c) /\ call[c].at = "waiting"
    BY <1>9 DEF Fail, Drove, Ready
  <2>2. Waited' = Waited \ {c}
    BY <2>1 DEF Waited
  <2>3. CASE d # c
    <3>1. call'[d] = call[d]
      BY <1>9, <2>3, OthersStand DEF Moves
    <3> QED BY <1>1, <1>r, <1>t, <2>1, <2>2, <2>3, <3>1 DEF Same, Told
  <2>4. CASE d = c
    <3>1. Stays(d) /\ Away(d)
      BY <2>1, <2>4 DEF Stays, Early, Away
    <3>2. Settles(d)
      BY <1>t, <2>1, <2>2, <2>4 DEF Settles, Held0, Told
    <3> QED BY <1>3, <2>1, <3>1, <3>2
  <2> QED BY <2>3, <2>4
<1>10. ASSUME NEW c \in Calls, GoLive(c) \/ SetReturns(c) \/ EndReturns(c) \/ ListReturns(c) \/ LoginReturns(c)
       PROVE  P
  <2>1. /\ Outcome(c) \in {"ok", "garbled"} /\ call[c].at = "waiting"
        /\ UNCHANGED <<changing, setting, driving, told, lost>>
    BY <1>10 DEF GoLive, SetReturns, EndReturns, ListReturns, LoginReturns, Ready, slots, memory, history
  <2>2. Same(d)
    BY <1>w, <2>1 DEF Same
  <2>3. Moves(c)
    BY <1>10 DEF Moves
  <2>4. CASE d # c
    BY <1>1, <1>r, <2>1, <2>2, <2>3, <2>4, OthersStand
  <2>5. CASE d = c
    <3>1. Answered(d) /\ Stays(d)
      BY <2>1, <2>5 DEF Outcome, Answered, Word, Stays, Early
    <3> QED BY <2>1, <2>2, <3>1 DEF BookStep
  <2> QED BY <2>4, <2>5
<1>11. ASSUME NEW c \in Calls, Send(c) PROVE P
  <2>1. /\ UNCHANGED <<changing, setting, driving, told, lost>>
        /\ call[c].at = "armed" /\ AtStep(c, "waiting")
    BY <1>11 DEF Send, slots, memory, history
  <2>2. Still
    BY <1>t, <2>1 DEF AtStep, Record, Early, Over, Answered
  <2> QED BY <1>1, <1>w, <2>1, <2>2 DEF Same
<1>12. ASSUME NEW c \in Calls, Refresh(c) PROVE P
  <2>1. UNCHANGED <<changing, setting, driving, told, lost>>
    BY <1>12 DEF Refresh, slots, memory, history
  <2>2. Still
    <3>1. call[c].at = "emptied" /\ (d = Cardinality(Made) + 1 => call[d].at = "none")
      BY <1>12, NextIsUnmade DEF Refresh, Made
    <3>2. call'[d] = IF d = c THEN [call[d] EXCEPT !.at = "done"]
                     ELSE IF d = Cardinality(Made) + 1 THEN Relisting ELSE call[d]
      BY <1>12 DEF Refresh
    <3> QED BY <1>r, <1>t, <3>1, <3>2 DEF Record, Early, Over, Answered, Relisting, Unheard, Word
  <2> QED BY <1>1, <1>w, <2>1, <2>2 DEF Same
\* The agent and the reader.
<1>13. ASSUME call' = call, Waited' = Waited, UNCHANGED <<driving, told, lost>> PROVE P
  BY <1>1, <1>r, <1>13 DEF Same
<1>14. ASSUME NEW c \in Calls, Answer(c) PROVE P
  BY <1>13, <1>14, <1>w DEF Answer, slots, memory, history
<1>15. ASSUME NEW s, NEW kind, NEW what, Announce(s, kind, what) PROVE P
  BY <1>13, <1>15, <1>w DEF Announce, slots, memory, history
<1>16. ASSUME ReadUpdate PROVE P
  <2>1. changing' = changing \/ changing' = {Restated(m) : m \in changing}
    BY <1>16 DEF ReadUpdate
  <2>2. \A m \in changing : Restated(m).call = m.call
    BY <1>t DEF SlotsTyped, Restated
  <2>3. UNCHANGED <<setting, call, driving, told, lost>>
    BY <1>16 DEF ReadUpdate
  <2>4. Waited' = Waited
    BY <2>1, <2>2, <2>3 DEF Waited
  <2> QED BY <1>13, <2>3, <2>4
<1>17. ASSUME ReadAnswer \/ ReadDropped PROVE P
  <2> DEFINE c == Head(up).call
             g == Handed(Head(up).reply)
  <2>1. /\ c \in Calls /\ lost' = lost /\ Told(c) /\ driving' = [driving EXCEPT ![c] = {}]
        /\ call' = [call EXCEPT ![c].got = IF c \in pending THEN g ELSE @]
    BY <1>17, ReadsAnswer DEF ReadAnswer, ReadDropped, Drove
  <2>2. Away(c)
    <3>1. up # <<>> /\ Head(up).kind = "answer"
      BY <1>17 DEF ReadAnswer, ReadDropped, Heads
    <3>2. c \in Answering
      BY <3>1, HeadIsOne DEF Answering, Types, WireTyped
    <3> QED BY <3>2 DEF SentIsAway
  <2>3. Waited' = Waited \ {c}
    <3>1. CASE ReadDropped
      BY <3>1 DEF ReadDropped, Waited
    <3>2. CASE ReadAnswer
      <4> DEFINE reply == Head(up).reply
      <4>1. \/ Opened(c, reply) \/ ChangedMode(c, reply) \/ SetAnswered(c, reply)
            \/ ~Slotted(c) /\ UNCHANGED <<changing, setting>>
        BY <3>2 DEF ReadAnswer
      <4> HIDE DEF c, reply
      <4>2. CASE Opened(c, reply)
        <5>1. (\E o \in opening : o.call = c) /\ UNCHANGED <<changing, setting>>
          BY <4>2 DEF Opened
        <5>2. call[c].op \in Opens
          BY <1>t, <5>1 DEF SlotsHoldTheirs, SlotsTyped
        <5>3. c \notin Waited
          BY <5>2 DEF Waited, SlotsHoldTheirs, Opens, Restores
        <5> QED BY <1>w, <5>1, <5>3
      <4>3. CASE ChangedMode(c, reply)
        <5>1. changing' = {} /\ UNCHANGED setting /\ \E m \in changing : m.call = c
          BY <4>3 DEF ChangedMode
        <5>2. \A m \in changing : m.call = c /\ c \notin setting
          BY <5>1 DEF OneEach, AtMostOne, SlotsHoldTheirs
        <5> QED BY <5>1, <5>2 DEF Waited
      <4>4. CASE SetAnswered(c, reply)
        <5>1. setting' = {} /\ UNCHANGED changing /\ c \in setting
          BY <4>4 DEF SetAnswered
        <5>2. setting = {c} /\ \A m \in changing : m.call # c
          BY <5>1 DEF OneEach, AtMostOne, SlotsHoldTheirs
        <5> QED BY <5>1, <5>2 DEF Waited
      <4>5. CASE ~Slotted(c) /\ UNCHANGED <<changing, setting>>
        BY <4>5 DEF Slotted, Waited
      <4> QED BY <4>1, <4>2, <4>3, <4>4, <4>5
    <3> QED BY <1>17, <3>1, <3>2
  <2> HIDE DEF c, g
  <2>4. CASE d # c
    <3>1. call'[d] = call[d]
      BY <1>t, <2>1, <2>4
    <3> QED BY <1>1, <1>r, <1>t, <2>1, <2>3, <2>4, <3>1 DEF Same, Told
  <2>5. CASE d = c
    <3>1. call'[d].at = call[d].at
      BY <1>t, <2>1, <2>5 DEF Record
    <3>2. Stays(d)
      BY <2>2, <2>5, <3>1 DEF Stays, Early, Away, Over
    <3>3. Settles(d)
      BY <1>t, <2>1, <2>3, <2>5 DEF Settles, Held0, Told
    <3> QED BY <1>3, <2>1, <2>2, <2>5, <3>2, <3>3
  <2> QED BY <2>4, <2>5
<1>18. ASSUME Close PROVE P
  <2>1. /\ UNCHANGED <<changing, setting, driving, told, lost>>
        /\ call'[d] = IF d \in pending THEN [call[d] EXCEPT !.got.how = "gone"] ELSE call[d]
    BY <1>18 DEF Close, slots, memory, history
  <2>2. Still
    BY <1>r, <1>t, <2>1 DEF Record, Reply, Early, Over, Answered, Word
  <2> QED BY <1>1, <1>w, <2>1, <2>2 DEF Same
<1>19. ASSUME Disconnected PROVE P
  <2>1. /\ call' = call /\ lost' = lost /\ changing' = {} /\ setting' = {}
        /\ driving' = [e \in Calls |-> {}]
        /\ told' = [e \in Calls |-> IF e \in Waited \/ driving[e] # {} THEN told[e] + 1 ELSE told[e]]
    BY <1>19 DEF Disconnected
  <2>2. Settles(d)
    BY <2>1 DEF Settles, Held0, Waited
  <2> QED BY <1>3, <1>r, <2>1, <2>2 DEF Stays
<1>20. ASSUME UNCHANGED vars PROVE P
  BY <1>13, <1>20, <1>w DEF vars, slots, memory, history
<1> HIDE DEF P
<1> P
  BY <1>4, <1>5, <1>6, <1>7, <1>8, <1>9, <1>10, <1>11, <1>12, <1>14, <1>15, <1>16, <1>17, <1>18, <1>19, <1>20 DEF Next
<1> QED BY DEF P

(***************************************************************************)
(* Every outcome is recorded once.                                         *)
(***************************************************************************)
\* What SettledOnce needs is there at the start and kept by every step.
LEMMA IInvHolds ==
  /\ Init => IInv
  /\ IInv /\ [Next]_vars => IInv'
<1>1. Init => IInv
  <2> SUFFICES ASSUME Init PROVE IInv
    OBVIOUS
  <2> USE DEF Init
  <2>1. Unheard \in Reply /\ Fresh \in Record /\ Fresh.at = "none" /\ Fresh.caps = {} /\ Fresh.got.how = "none"
        /\ Fresh.op = "none"
    BY DEF Unheard, Fresh, Reply, Record, Steps, Session0, Mode0, Option0
  <2>2. Empty \in SettingsType
    BY SessionAssumption DEF Empty, SettingsType, Session0, Mode0, Option0
  <2>3. Types
    BY <2>1, <2>2, SessionAssumption DEF Types, StoresTyped, SlotsTyped, CallsTyped, WireTyped, Session0
  <2>4. OneEach /\ SlotsHoldTheirs /\ HeardAreArmed
    BY DEF OneEach, AtMostOne, SlotsHoldTheirs, HeardAreArmed
  <2>5. SentIsAway
    BY DEF SentIsAway, Answering
  <2>6. Made = {} /\ 0 \in 0..MaxCalls
    BY <2>1, SessionAssumption DEF Made
  <2>7. CallsFit
    <3>1. Made = 1..0
      BY <2>6
    <3> QED BY <2>6, <3>1 DEF CallsFit
  <2>8. ASSUME NEW c \in Calls PROVE Ledger(c)
    BY <2>1, <2>8 DEF Ledger, Early, Over, Answered, Held0, Waited, Word
  <2> QED BY <2>3, <2>4, <2>5, <2>7, <2>8 DEF IInv, Ledgers
<1>2. IInv /\ [Next]_vars => IInv'
  <2> SUFFICES ASSUME IInv, [Next]_vars PROVE IInv'
    OBVIOUS
  <2> USE DEF IInv
  <2>1. Types' /\ OneEach' /\ CallsFit'
    BY TypesKeep
  <2>2. SlotsHoldTheirs' /\ SentIsAway' /\ HeardAreArmed'
    BY SlotsHoldKeep, SentKeeps, HeardKeeps
  <2>3. Ledgers'
    BY BooksAreKept, LedgerFollows DEF Ledgers
  <2> QED BY <2>1, <2>2, <2>3
<1> QED BY <1>1, <1>2

\* A call's outcome is recorded at most once, and once it is over exactly once
\* unless a newer set or a session left behind took its slot: for any calls,
\* answers and overlap of opens (`drove`, `drive_failed`, `changed_mode`,
\* `mode_change_failed`, `omitted`, `disconnected`).
THEOREM SettledOnceHolds == Spec => []SettledOnce
<1>1. IInv => SettledOnce
  <2> SUFFICES ASSUME IInv, NEW c \in Calls
               PROVE  told[c] <= 1 /\ (Over(c) /\ Owed(c) /\ c \notin lost => told[c] = 1)
    BY DEF SettledOnce
  <2>1. Ledger(c) /\ told[c] \in Nat
    BY DEF IInv, Ledgers, Types, CallsTyped
  <2>2. Over(c) => ~Early(c) /\ call[c].at # "left"
    BY DEF Over, Early
  <2> QED BY <2>1, <2>2 DEF Ledger
<1> QED BY <1>1, IInvHolds, PTL DEF Spec

(***************************************************************************)
(* The notes of what a load replayed.                                      *)
(***************************************************************************)
\* How a step changes a call: it is made, its caller goes on, or an answer or
\* the end of the connection reaches it.
Hears(d) == /\ d = Head(up).call /\ d \in pending /\ (ReadAnswer \/ ReadDropped)
            /\ call'[d] = [call[d] EXCEPT !.got = Handed(Head(up).reply)]
CallStep(d) ==
  \/ call'[d] = call[d] \/ Asks(d) \/ Moves(d)
  \/ call[d].at = "none" /\ call'[d] = Relisting
  \/ Refresh(d) /\ call'[d] = [call[d] EXCEPT !.at = "done"]
  \/ Hears(d)
  \/ Close /\ d \in pending /\ call'[d] = [call[d] EXCEPT !.got.how = "gone"]

\* Every step changes a call in one of these ways.
LEMMA CallsStep ==
  ASSUME Types, CallsFit, [Next]_vars, NEW d \in Calls
  PROVE  CallStep(d)
<1>t. call \in [Calls -> Record]
  BY DEF Types, CallsTyped
<1>1. ASSUME call'[d] = call[d] PROVE CallStep(d)
  BY <1>1 DEF CallStep
<1>2. ASSUME NEW c \in Calls, Moves(c) PROVE CallStep(d)
  <2>1. CASE d = c
    BY <1>2, <2>1 DEF CallStep
  <2> QED BY <1>1, <1>2, <2>1, OthersStand
<1>3. ASSUME NEW c \in Calls, Asks(c) PROVE CallStep(d)
  <2>1. CASE d = c
    BY <1>3, <2>1 DEF CallStep
  <2>2. CASE d # c
    BY <1>1, <1>3, <1>t, <2>2, AsksMakes
  <2> QED BY <2>1, <2>2
<1>4. ASSUME NEW c \in Calls, Refresh(c) PROVE CallStep(d)
  <2>1. call'[d] = IF d = c THEN [call[d] EXCEPT !.at = "done"]
                   ELSE IF d = Cardinality(Made) + 1 THEN Relisting ELSE call[d]
    BY <1>4 DEF Refresh
  <2>2. d = Cardinality(Made) + 1 => call[d].at = "none"
    BY NextIsUnmade DEF Made
  <2> QED BY <1>4, <2>1, <2>2 DEF CallStep
<1>5. CASE ReadAnswer \/ ReadDropped
  <2>1. call' = [call EXCEPT ![Head(up).call].got = IF Head(up).call \in pending THEN Handed(Head(up).reply) ELSE @]
    BY <1>5, ReadsAnswer
  <2>2. CASE d = Head(up).call /\ d \in pending
    <3>1. call'[d] = [call[d] EXCEPT !.got = Handed(Head(up).reply)]
      BY <1>t, <2>1, <2>2
    <3> QED BY <1>5, <2>2, <3>1 DEF CallStep, Hears
  <2>3. CASE ~(d = Head(up).call /\ d \in pending)
    <3>1. call'[d] = call[d]
      BY <1>t, <2>1, <2>3 DEF Record
    <3> QED BY <1>1, <3>1
  <2> QED BY <2>2, <2>3
<1>6. CASE Close
  BY <1>6 DEF Close, CallStep
<1>7. ASSUME call' = call PROVE CallStep(d)
  BY <1>1, <1>7
<1>8. ASSUME NEW c \in Calls, Answer(c) PROVE CallStep(d)
  BY <1>7, <1>8 DEF Answer
<1>9. ASSUME NEW s, NEW kind, NEW what, Announce(s, kind, what) PROVE CallStep(d)
  BY <1>7, <1>9 DEF Announce
<1>10. CASE ReadUpdate \/ Disconnected \/ UNCHANGED vars
  BY <1>7, <1>10 DEF ReadUpdate, Disconnected, vars
<1> QED BY <1>2, <1>3, <1>4, <1>5, <1>6, <1>8, <1>9, <1>10 DEF Next, Moves

\* What an open's ask found, and no call that is settled or opens goes back.
LEMMA OneOpenKeeps ==
  ASSUME ~Overlap, Types, CallsFit, OneOpen, [Next]_vars
  PROVE  OneOpen'
<1>t. call \in [Calls -> Record]
  BY DEF Types, CallsTyped
<1>1. ASSUME NEW d \in Calls, Opener(d)' PROVE Opener(d) \/ Asks(d)
  <2>1. CASE call[d].at # "none"
    BY <1>1, <2>1, CallsMove DEF Opener, Kept
  <2>2. CASE call[d].at = "none"
    <3>1. ~Moves(d) /\ ~Refresh(d)
      BY <2>2, MovesStep DEF Refresh
    <3>2. CASE call'[d] = Relisting
      BY <1>1, <3>2 DEF Opener, Relisting, Opens, Restores
    <3>3. CASE call'[d].at = call[d].at
      BY <1>1, <2>2, <3>3 DEF Opener
    <3>4. call[d] \in Record
      BY <1>t
    <3>5. Hears(d) \/ Close => call'[d].at = call[d].at \/ Asks(d) \/ call'[d] = Relisting
      BY <3>1, <3>4, CallsStep DEF CallStep, Hears, Record
    <3> QED BY <3>1, <3>2, <3>3, <3>5, CallsStep DEF CallStep
  <2> QED BY <2>1, <2>2
<1>2. ASSUME NEW d \in Calls, Settled(d) PROVE Settled(d)'
  <2>1. ~Moves(d) /\ ~Refresh(d) /\ ~Asks(d) /\ call[d].at # "none" /\ call[d] \in Record
    BY <1>t, <1>2, MovesStep, NextIsUnmade DEF Settled, Asks, Made, Refresh
  <2>2. \/ call'[d] = call[d]
        \/ call'[d] = [call[d] EXCEPT !.got = Handed(Head(up).reply)]
        \/ call'[d] = [call[d] EXCEPT !.got.how = "gone"]
    BY <2>1, CallsStep DEF CallStep, Hears
  <2>3. call'[d].at = call[d].at
    BY <2>1, <2>2 DEF Record
  <2> QED BY <1>2, <2>3 DEF Settled
<1>3. ASSUME NEW c \in Calls, Asks(c), Opener(c)' PROVE \A d \in Calls \ {c} : Opener(d) => Settled(d)
  <2>1. PICK op, on, ask : Begin(c, op, on, ask)
    BY <1>3 DEF Asks
  <2>2. call'[c].op = op
    BY <1>t, <2>1 DEF Begin
  <2> QED BY <1>3, <2>1, <2>2 DEF Begin, Opener, Settled, Made
<1>4. ASSUME NEW c \in Calls, Asks(c), NEW d \in Calls \ {c} PROVE ~Asks(d)
  BY <1>4 DEF Asks
<1> QED BY <1>1, <1>2, <1>3, <1>4 DEF OneOpen

\* The table, the connection and the frames on their way: what a step does of
\* each.
TableStep ==
  /\ \A c \in pending' : c \in pending \/ (c \in Calls /\ Prepare(c) /\ conn = "open")
  /\ \A c \in pending : c \in pending' \/ Close \/ (c = Head(up).call /\ (ReadAnswer \/ ReadDropped))
  /\ \A c \in Calls : Prepare(c) /\ conn = "open" => c \in pending'
  /\ conn' = conn \/ Close \/ (conn # "open" /\ conn' # "open")
  /\ Close => conn' # "open" /\ pending' = {} /\ asked' = {} /\ up' = <<>>
Sending(f) == /\ conn = "open" /\ conn' = conn /\ f \in Frames
              /\ f.kind = "answer" => f.call \in Calls /\ Answer(f.call) /\ f.on = f.reply.on
UpStep ==
  \/ up' = up /\ \A c \in Calls : ~Answer(c)
  \/ \E f \in Frames : Sending(f) /\ up' = Append(up, f)
  \/ /\ up # <<>> /\ up' = Tail(up) /\ conn = "open" /\ conn' = conn
     /\ (ReadUpdate /\ Head(up).kind # "answer") \/ ReadAnswer \/ ReadDropped
  \/ Close

\* The table and what the agent holds change as the calls do.
LEMMA TableMoves ==
  Types /\ [Next]_vars => TableStep
<1> SUFFICES ASSUME Types, [Next]_vars PROVE TableStep
  OBVIOUS
<1> USE DEF TableStep
<1>p. \A c \in Calls : Prepare(c) /\ conn = "open" => c \in pending'
  BY DEF Prepare
<1>c. Close => conn = "open" /\ conn' # "open" /\ pending' = {} /\ asked' = {} /\ up' = <<>>
  BY DEF Close
<1>1. ASSUME NEW c \in Calls, Prepare(c) PROVE TableStep
  <2>1. conn' = conn /\ pending' = IF conn = "open" THEN pending \cup {c} ELSE pending
    BY <1>1 DEF Prepare, wire
  <2> QED BY <1>1, <1>p, <1>c, <2>1
<1>2. ASSUME pending' = pending, conn' = conn PROVE TableStep
  BY <1>2, <1>p, <1>c
<1>3. ASSUME NEW c \in Calls, Asks(c) \/ Refresh(c) \/ Answer(c) PROVE TableStep
  BY <1>2, <1>3 DEF Asks, Begin, Refresh, Answer, wire
<1>4. ASSUME NEW c \in Calls,
             \/ Register(c) \/ Leave(c) \/ Arm(c) \/ Send(c) \/ Fail(c) \/ GoLive(c)
             \/ SetReturns(c) \/ EndReturns(c) \/ Ended(c) \/ ListReturns(c) \/ LoginReturns(c)
      PROVE  TableStep
  BY <1>2, <1>4 DEF Register, Leave, Arm, Send, Fail, GoLive, SetReturns, EndReturns, Ended, ListReturns,
     LoginReturns, wire
<1>5. ASSUME NEW s, NEW kind, NEW what, Announce(s, kind, what) PROVE TableStep
  BY <1>2, <1>5 DEF Announce
<1>6. CASE ReadUpdate \/ UNCHANGED vars
  BY <1>2, <1>6 DEF ReadUpdate, vars, wire
<1>7. CASE ReadAnswer \/ ReadDropped
  <2>1. conn' = conn /\ pending' = pending \ {Head(up).call}
    BY <1>7 DEF ReadAnswer, ReadDropped
  <2> QED BY <1>7, <1>p, <1>c, <2>1
<1>8. CASE Close
  BY <1>8, <1>p, <1>c
<1>9. CASE Disconnected
  <2>1. pending' = pending /\ conn # "open" /\ conn' # "open"
    BY <1>9 DEF Disconnected
  <2> QED BY <1>p, <1>c, <2>1
<1> QED BY <1>1, <1>3, <1>4, <1>5, <1>6, <1>7, <1>8, <1>9 DEF Next

\* The wire loses its head, gains one frame at its end, or stands.
LEMMA UpMoves ==
  Types /\ [Next]_vars => UpStep
<1> SUFFICES ASSUME Types, [Next]_vars PROVE UpStep
  OBVIOUS
<1>t. up \in Seq(Frames)
  BY DEF Types, WireTyped
<1>a. \A c \in Calls : Answer(c) => \E f \in Frames : Sending(f) /\ up' = Append(up, f)
  <2> SUFFICES ASSUME NEW c \in Calls, Answer(c) PROVE \E f \in Frames : Sending(f) /\ up' = Append(up, f)
    OBVIOUS
  <2>1. PICK reply \in Replies(c) :
          up' = Append(up, [kind |-> "answer", call |-> c, reply |-> reply, on |-> reply.on, says |-> None])
    BY DEF Answer
  <2>2. [kind |-> "answer", call |-> c, reply |-> reply, on |-> reply.on, says |-> None] \in Frames
    BY RepliesTyped DEF Frames, AnswerFrame, Frame, Reply
  <2>3. conn = "open" /\ conn' = conn
    BY DEF Answer
  <2> QED BY <2>1, <2>2, <2>3 DEF Sending
<1>1. ASSUME up' = up PROVE UpStep
  <2>1. \A c \in Calls : ~Answer(c)
    <3> SUFFICES ASSUME NEW c \in Calls, Answer(c) PROVE FALSE
      OBVIOUS
    <3>1. PICK f \in Frames : up' = Append(up, f)
      BY <1>a
    <3>2. Len(Append(up, f)) = Len(up) + 1 /\ Len(up) \in Nat
      BY <1>t, <3>1
    <3> QED BY <1>1, <3>1, <3>2
  <2> QED BY <1>1, <2>1 DEF UpStep
<1>2. ASSUME NEW s \in Sessions, NEW kind, NEW what, Announce(s, kind, what), kind # "answer",
             [kind |-> kind, call |-> 0, reply |-> Unheard, on |-> s, says |-> what] \in Frames
      PROVE  UpStep
  BY <1>2 DEF Announce, UpStep, Sending
<1>3. ASSUME NEW s \in Sessions, Announce(s, "talk", None) PROVE UpStep
  BY <1>2, <1>3 DEF Frames, TalkFrame, Frame
<1>4. ASSUME NEW s \in Sessions, NEW m \in Modes, Announce(s, "mode", m) PROVE UpStep
  BY <1>2, <1>4 DEF Frames, ModeFrame, Frame
<1>5. ASSUME NEW s \in Sessions, NEW o \in Options, Announce(s, "options", o) PROVE UpStep
  BY <1>2, <1>5 DEF Frames, OptionFrame, Frame
<1>6. CASE ReadUpdate \/ ReadAnswer \/ ReadDropped
  <2>1. up # <<>> /\ up' = Tail(up) /\ conn = "open" /\ conn' = conn
    BY <1>6 DEF ReadUpdate, ReadAnswer, ReadDropped, Heads
  <2>2. ReadUpdate => Head(up).kind # "answer"
    BY DEF ReadUpdate, Heads, Updates
  <2> QED BY <1>6, <2>1, <2>2 DEF UpStep
<1>7. ASSUME NEW c \in Calls, Asks(c) \/ Refresh(c) PROVE UpStep
  BY <1>1, <1>7 DEF Asks, Begin, Refresh, wire
<1>8. ASSUME NEW c \in Calls, Moves(c) PROVE UpStep
  BY <1>1, <1>8 DEF Moves, Prepare, Register, Leave, Arm, Send, Fail, GoLive, SetReturns, EndReturns,
     Ended, ListReturns, LoginReturns, wire
<1>9. CASE Close \/ Disconnected \/ UNCHANGED vars
  BY <1>1, <1>9 DEF Disconnected, UpStep, vars, wire
<1>10. ASSUME NEW c \in Calls, Answer(c) PROVE UpStep
  BY <1>a, <1>10 DEF UpStep
<1> QED BY <1>3, <1>4, <1>5, <1>6, <1>7, <1>8, <1>9, <1>10 DEF Next, Moves

\* Where the answers on their way stand after a step: those that were there, one
\* place nearer where one was read, and the one the agent just sent.
LEMMA AnswersMove ==
  ASSUME Types, [Next]_vars, AnsweredOnce
  PROVE  /\ \A k \in DOMAIN up' : IsAnswer(k)' =>
               \/ \E j \in DOMAIN up : IsAnswer(j) /\ up'[k] = up[j] /\ (ReadAnswer \/ ReadDropped => j # 1)
               \/ up'[k].call \in Calls /\ Answer(up'[k].call) /\ up'[k].on = up'[k].reply.on
         /\ \A j, k \in DOMAIN up' : IsAnswer(j)' /\ IsAnswer(k)' /\ up'[j].call = up'[k].call => j = k
<1> DEFINE P == /\ \A k \in DOMAIN up' : IsAnswer(k)' =>
                     \/ \E j \in DOMAIN up : IsAnswer(j) /\ up'[k] = up[j] /\ (ReadAnswer \/ ReadDropped => j # 1)
                     \/ up'[k].call \in Calls /\ Answer(up'[k].call) /\ up'[k].on = up'[k].reply.on
                /\ \A j, k \in DOMAIN up' : IsAnswer(j)' /\ IsAnswer(k)' /\ up'[j].call = up'[k].call => j = k
<1>t. up \in Seq(Frames)
  BY DEF Types, WireTyped
<1>u. \A j, k \in DOMAIN up : IsAnswer(j) /\ IsAnswer(k) /\ up[j].call = up[k].call => j = k
  BY DEF AnsweredOnce
<1>r. ReadAnswer \/ ReadDropped => up # <<>> /\ up' = Tail(up)
  BY DEF ReadAnswer, ReadDropped, Heads
<1>l. up # <<>> => up # Tail(up)
  <2>1. up # <<>> => Len(Tail(up)) = Len(up) - 1 /\ Len(up) \in Nat
    BY <1>t
  <2> QED BY <2>1
<1>1. CASE up' = up
  BY <1>1, <1>u, <1>r, <1>l DEF IsAnswer
<1>2. ASSUME NEW f \in Frames, Sending(f), up' = Append(up, f) PROVE P
  <2>1. /\ Len(up) \in Nat /\ DOMAIN up = 1..Len(up) /\ DOMAIN up' = 1..(Len(up) + 1)
        /\ up'[Len(up) + 1] = f /\ \A k \in DOMAIN up : up'[k] = up[k]
    BY <1>t, <1>2
  <2>2. ~(ReadAnswer \/ ReadDropped)
    <3>1. up # <<>> => Len(Tail(up)) = Len(up) - 1 /\ Len(Append(up, f)) = Len(up) + 1 /\ Len(up) \in Nat
      BY <1>t
    <3> QED BY <1>2, <1>r, <3>1
  <2>3. ASSUME NEW k \in DOMAIN up', IsAnswer(k)'
        PROVE  \/ k \in DOMAIN up /\ IsAnswer(k) /\ up'[k] = up[k]
               \/ k = Len(up) + 1 /\ f.kind = "answer" /\ up'[k] = f
    BY <2>1, <2>3 DEF IsAnswer
  <2>4. f.kind = "answer" => \A j \in DOMAIN up : IsAnswer(j) => up[j].call # f.call
    <3>1. f.kind = "answer" => f.call \in asked
      BY <1>2 DEF Sending, Answer
    <3>2. \A j \in DOMAIN up : IsAnswer(j) => up[j].call \in Answering
      BY DEF IsAnswer, Answering
    <3> QED BY <3>1, <3>2 DEF AnsweredOnce
  <2> QED BY <1>u, <1>2, <2>2, <2>3, <2>4 DEF Sending
<1>3. CASE up # <<>> /\ up' = Tail(up)
  <2>1. \A k \in DOMAIN up' : k + 1 \in DOMAIN up /\ up'[k] = up[k + 1] /\ k \in Nat \ {0}
    BY <1>t, <1>3
  <2>2. \A k \in DOMAIN up' : IsAnswer(k)' => IsAnswer(k + 1)
    BY <2>1 DEF IsAnswer
  <2>3. \A j, k \in DOMAIN up' : IsAnswer(j)' /\ IsAnswer(k)' /\ up'[j].call = up'[k].call => j = k
    BY <1>u, <2>1, <2>2
  <2> QED BY <2>1, <2>2, <2>3
<1>4. CASE up' = <<>>
  BY <1>4
<1> QED BY <1>1, <1>2, <1>3, <1>4, UpMoves DEF UpStep, Close

\* Which calls wait on the agent: those of before, but for the one whose answer
\* is read, and the one sent.
LEMMA WaitingMoves ==
  ASSUME Types, CallsFit, [Next]_vars, AnsweredOnce, NEW c \in asked' \cup Answering'
  PROVE  /\ \/ c \in asked \cup Answering
            \/ c \in Calls /\ Send(c) /\ conn = "open"
         /\ ~Close
         /\ ReadAnswer \/ ReadDropped => c # Head(up).call
<1>r. ReadAnswer \/ ReadDropped => /\ up # <<>> /\ IsAnswer(1) /\ Head(up) = up[1] /\ asked' = asked
  BY HeadIsOne DEF ReadAnswer, ReadDropped, Heads, IsAnswer, Types, WireTyped
<1>0. ~Close
  BY TableMoves DEF TableStep, Answering
<1>1. CASE c \in Answering'
  <2>1. PICK k \in DOMAIN up' : IsAnswer(k)' /\ c = up'[k].call
    BY <1>1 DEF Answering, IsAnswer
  <2>2. CASE Answer(c)
    BY <1>0, <1>r, <2>2 DEF Answer, ReadAnswer, ReadDropped
  <2>3. CASE \E j \in DOMAIN up : IsAnswer(j) /\ up'[k] = up[j] /\ (ReadAnswer \/ ReadDropped => j # 1)
    <3>1. PICK j \in DOMAIN up : IsAnswer(j) /\ up'[k] = up[j] /\ (ReadAnswer \/ ReadDropped => j # 1)
      BY <2>3
    <3>2. c \in Answering
      BY <2>1, <3>1 DEF IsAnswer, Answering
    <3>3. ReadAnswer \/ ReadDropped => c # Head(up).call
      BY <1>r, <2>1, <3>1 DEF AnsweredOnce, IsAnswer
    <3> QED BY <1>0, <3>2, <3>3
  <2> QED BY <2>1, <2>2, <2>3, AnswersMove
<1>2. CASE c \in asked'
  <2>1. ReadAnswer \/ ReadDropped => c # Head(up).call
    <3>1. ReadAnswer \/ ReadDropped => Head(up).call \in Answering
      BY <1>r DEF IsAnswer, Answering
    <3> QED BY <1>2, <1>r, <3>1 DEF AnsweredOnce
  <2>2. c \in asked \/ (c \in Calls /\ Send(c) /\ conn = "open")
    BY <1>2, AskedMoves
  <2> QED BY <1>0, <2>1, <2>2
<1> QED BY <1>1, <1>2

\* What a caller's step does of its call: where it may lead, and nothing to what
\* it heard.
LEMMA CallerMoves ==
  ASSUME Types, NEW c \in Calls, Moves(c)
  PROVE  /\ call'[c] = [call[c] EXCEPT !.at = call'[c].at] /\ call[c] \in Record
         /\ Unasked(c)' => Unasked(c) /\ call[c].at # "none"
         /\ Prepared(c)' => Prepared(c) \/ Prepare(c)
         /\ call[c].at = "waiting" => call[c].got.how # "none"
         /\ Over(c)' => Over(c) \/ call[c].at \in {"begun", "waiting"}
         /\ call'[c].at = "armed" => Arm(c)
         /\ call'[c].at = "waiting" => call[c].at = "armed"
         /\ Prepare(c) => call[c].at = "begun" /\ call'[c].at \in {"prepared", "failed"}
<1>t. call \in [Calls -> Record] /\ call[c] \in Record
  BY DEF Types, CallsTyped
<1>1. PICK step \in Steps \ {"none"} : AtStep(c, step)
  BY MovesStep
<1>2. call'[c] = [call[c] EXCEPT !.at = step] /\ call'[c].at = step
  BY <1>t, <1>1 DEF AtStep, Record
<1>3. call'[c] = [call[c] EXCEPT !.at = call'[c].at] /\ call'[c].op = call[c].op
  BY <1>2, <1>t DEF Record
<1>4. CASE Prepare(c)
  BY <1>t, <1>3, <1>4 DEF Prepare, AtStep, Unasked, Prepared, Over, Record
<1>5. CASE Register(c) \/ Leave(c) \/ Arm(c) \/ Send(c)
  BY <1>t, <1>3, <1>5 DEF Register, Leave, Arm, Send, AtStep, Unasked, Prepared, Over, Record, Restores, Prepare
<1>6. CASE Fail(c) \/ GoLive(c) \/ SetReturns(c)
  BY <1>t, <1>3, <1>6 DEF Fail, GoLive, SetReturns, Ready, Outcome, AtStep, Unasked, Prepared, Over, Record, Prepare
<1>7. CASE EndReturns(c) \/ Ended(c) \/ ListReturns(c) \/ LoginReturns(c)
  BY <1>t, <1>3, <1>7 DEF EndReturns, Ended, ListReturns, LoginReturns, Ready, Outcome, AtStep, Unasked, Prepared,
     Over, Record, Prepare
<1> QED BY <1>t, <1>3, <1>4, <1>5, <1>6, <1>7 DEF Moves

\* What a step does of what a call heard, and where it can be then.
HearStep(d) ==
  /\ \/ call'[d].got = call[d].got
     \/ Unasked(d) /\ call[d].at = "none" /\ call'[d].got = Unheard
     \/ Answered(d)' /\ d \in pending /\ d = Head(up).call /\ call'[d].got = Handed(Head(up).reply)
          /\ (ReadAnswer \/ ReadDropped)
     \/ Close /\ d \in pending /\ call'[d].got.how = "gone"
  /\ Unasked(d)' => Unasked(d)
  /\ Prepared(d)' => Prepared(d) \/ Prepare(d)
  /\ call[d].at = "waiting" /\ call[d].got.how = "none" => call'[d].at = "waiting"
  /\ Prepare(d) => Unasked(d) /\ call'[d].at # "begun" /\ call'[d].got = call[d].got

\* A step hears an answer only as `HearStep` has it.
LEMMA HearSteps ==
  ASSUME Types, CallsFit, [Next]_vars, NEW d \in Calls
  PROVE  HearStep(d)
<1>t. call \in [Calls -> Record] /\ call[d] \in Record
  BY DEF Types, CallsTyped
<1>p. Prepare(d) => Moves(d)
  BY DEF Moves
<1>g. Moves(d) => call'[d].got = call[d].got
  <2>1. Moves(d) => call'[d] = [call[d] EXCEPT !.at = call'[d].at]
    BY CallerMoves
  <2> QED BY <1>t, <2>1 DEF Record
<1>n. Prepare(d) => call[d].at = "begun" /\ call'[d].at \in {"prepared", "failed"} /\ call'[d].got = call[d].got
  BY <1>g, <1>p, CallerMoves
<1>1. ASSUME call'[d].at = call[d].at, call'[d].op = call[d].op,
             \/ call'[d].got = call[d].got
             \/ Answered(d)' /\ d \in pending /\ d = Head(up).call /\ call'[d].got = Handed(Head(up).reply)
                  /\ (ReadAnswer \/ ReadDropped)
             \/ Close /\ d \in pending /\ call'[d].got.how = "gone"
      PROVE  HearStep(d)
  BY <1>n, <1>1 DEF HearStep, Unasked, Prepared
<1>2. CASE call'[d] = call[d]
  BY <1>1, <1>2
<1>3. CASE Moves(d)
  BY <1>g, <1>n, <1>3, CallerMoves DEF HearStep, Unasked
<1>4. ASSUME call[d].at = "none", call'[d].got = Unheard,
             call'[d].at \in {"begun", "failed"} \/ (call'[d].at = "leaving" /\ call'[d].op = "new")
      PROVE  HearStep(d)
  BY <1>n, <1>4 DEF HearStep, Unasked, Prepared
<1>5. CASE Asks(d)
  <2>1. PICK r \in Record : /\ call' = [call EXCEPT ![d] = r] /\ d \notin Made /\ r.got = Unheard
                            /\ r.at \in {"leaving", "failed", "begun"} /\ (r.at = "leaving" => r.op = "new")
    BY <1>5, AsksMakes
  <2>2. call'[d] = r /\ call[d].at = "none"
    BY <1>t, <2>1 DEF Made
  <2> QED BY <1>4, <2>1, <2>2
<1>6. CASE call[d].at = "none" /\ call'[d] = Relisting
  BY <1>4, <1>6 DEF Relisting
<1>7. CASE Refresh(d) /\ call'[d] = [call[d] EXCEPT !.at = "done"]
  <2>1. call[d].at = "emptied" /\ call'[d].at = "done" /\ call'[d].got = call[d].got
    BY <1>t, <1>7 DEF Refresh, Record
  <2> QED BY <1>n, <2>1 DEF HearStep, Unasked, Prepared
<1>8. CASE Hears(d)
  <2>1. call'[d] = [call[d] EXCEPT !.got = Handed(Head(up).reply)] /\ Handed(Head(up).reply).how \in Word
        /\ d \in pending /\ d = Head(up).call /\ (ReadAnswer \/ ReadDropped)
    BY <1>8, ReadsAnswer DEF Hears, Handed, Unheard
  <2>2. /\ call'[d].got = Handed(Head(up).reply) /\ call'[d].at = call[d].at /\ call'[d].op = call[d].op
    BY <1>t, <2>1 DEF Record
  <2> QED BY <1>1, <2>1, <2>2 DEF Answered
<1>9. CASE Close /\ d \in pending /\ call'[d] = [call[d] EXCEPT !.got.how = "gone"]
  <2>1. call'[d].got.how = "gone" /\ call'[d].at = call[d].at /\ call'[d].op = call[d].op
    BY <1>t, <1>9 DEF Record, Reply
  <2> QED BY <1>1, <1>9, <2>1
<1> QED BY <1>2, <1>3, <1>5, <1>6, <1>7, <1>8, <1>9, CallsStep DEF CallStep

\* Every step leaves each answer on its way to one call that awaits it.
LEMMA AnsweredOnceKeeps ==
  ASSUME IInv, AnsweredOnce, [Next]_vars
  PROVE  AnsweredOnce'
<1>t. Types /\ CallsFit /\ call \in [Calls -> Record] /\ pending \subseteq Calls /\ asked \subseteq Calls
  BY DEF IInv, Types, CallsTyped
<1>p. TableStep
  BY <1>t, TableMoves
<1>h. \A c \in Calls : HearStep(c)
  BY <1>t, HearSteps
<1>u. Unheard.how = "none" /\ "gone" \notin Word /\ "none" \notin Word
  BY DEF Unheard, Word
<1>1. ASSUME NEW c \in Calls, call'[c].got.how = "gone" PROVE conn' # "open"
  BY <1>1, <1>h, <1>p, <1>u DEF AnsweredOnce, TableStep, HearStep, Answered
<1>2. ASSUME NEW c \in Calls, Unasked(c)' PROVE c \notin pending' /\ call'[c].got = Unheard
  <2>1. Unasked(c) /\ c \notin pending /\ call[c].got = Unheard /\ call'[c].got = Unheard
    BY <1>2, <1>h DEF AnsweredOnce, HearStep
  <2>2. ~Prepare(c)
    BY <1>2, <1>t, CallerMoves DEF Moves, Unasked
  <2> QED BY <1>p, <2>1, <2>2 DEF TableStep
<1>3. ASSUME NEW c \in pending' PROVE call'[c].got = Unheard
  <2>1. CASE c \in pending
    <3>1. ~Close /\ call[c].got = Unheard /\ c \in Calls /\ ~Unasked(c)
      BY <1>3, <1>p, <1>t, <2>1 DEF TableStep, AnsweredOnce
    <3>2. c = Head(up).call => ~(ReadAnswer \/ ReadDropped)
      BY <1>3 DEF ReadAnswer, ReadDropped
    <3> QED BY <1>h, <3>1, <3>2 DEF HearStep
  <2>2. CASE c \notin pending
    <3>1. c \in Calls /\ Prepare(c)
      BY <1>3, <1>p, <2>2 DEF TableStep
    <3> QED BY <1>h, <3>1 DEF HearStep, AnsweredOnce
  <2> QED BY <2>1, <2>2
<1>4. ASSUME NEW c \in Calls, conn' = "open", Prepared(c)', ~Answered(c)' PROVE c \in pending'
  <2>1. conn = "open" /\ ~Close
    BY <1>4, <1>p DEF TableStep
  <2>2. CASE Prepare(c)
    BY <1>p, <2>1, <2>2 DEF TableStep
  <2>3. CASE Prepared(c)
    <3>1. ~Unasked(c)
      BY <2>3 DEF Prepared
    <3>2. call'[c].got = call[c].got
      BY <1>4, <1>h, <2>1, <3>1 DEF HearStep
    <3>3. c \in pending
      BY <1>4, <2>1, <2>3, <3>2 DEF AnsweredOnce, Answered
    <3>4. ~(c = Head(up).call /\ (ReadAnswer \/ ReadDropped))
      <4> SUFFICES ASSUME c = Head(up).call, ReadAnswer \/ ReadDropped PROVE FALSE
        OBVIOUS
      <4>1. call'[c].got = Handed(Head(up).reply) /\ Head(up).reply.how \in Word
        BY <1>t, <3>3, ReadsAnswer DEF Record
      <4> QED BY <1>4, <4>1 DEF Answered, Handed, Unheard
    <3> QED BY <1>p, <2>1, <3>3, <3>4 DEF TableStep
  <2> QED BY <1>4, <1>h, <2>2, <2>3 DEF HearStep
<1>5. ASSUME conn' # "open" PROVE up' = <<>> /\ pending' = {}
  <2>1. CASE Close
    BY <1>p, <2>1 DEF TableStep
  <2>2. CASE ~Close
    <3>1. conn # "open"
      BY <1>5, <1>p, <2>2 DEF TableStep
    <3>2. up' = up
      BY <1>t, <2>2, <3>1, UpMoves DEF UpStep, Sending
    <3> QED BY <1>p, <3>1, <3>2 DEF TableStep, AnsweredOnce
  <2> QED BY <2>1, <2>2
<1>6. ASSUME NEW c \in asked' \cup Answering' PROVE call'[c].at = "waiting" /\ c \in pending'
  <2>1. /\ c \in asked \cup Answering \/ (c \in Calls /\ Send(c) /\ conn = "open")
        /\ ~Close
        /\ ReadAnswer \/ ReadDropped => c # Head(up).call
    BY <1>6, <1>t, WaitingMoves
  <2>2. CASE c \in asked \cup Answering
    <3>1. c \in Calls /\ c \in pending /\ call[c].at = "waiting" /\ call[c].got = Unheard
      BY <1>t, <2>2 DEF AnsweredOnce
    <3> QED BY <1>h, <1>p, <1>u, <2>1, <3>1 DEF HearStep, TableStep
  <2>3. CASE c \in Calls /\ Send(c) /\ conn = "open"
    <3>1. call[c].at = "armed" /\ call'[c].at = "waiting" /\ pending' = pending
      BY <1>t, <2>3 DEF Send, AtStep, Record
    <3>2. ~Answered(c)
      BY <2>3, <3>1 DEF IInv, Ledgers, Ledger, Away, Over
    <3>3. Prepared(c)
      BY <3>1 DEF Prepared, Unasked
    <3> QED BY <2>3, <3>1, <3>2, <3>3 DEF AnsweredOnce
  <2> QED BY <2>1, <2>2, <2>3
<1>7. asked' \cap Answering' = {}
  <2> SUFFICES ASSUME NEW c \in asked', c \in Answering' PROVE FALSE
    OBVIOUS
  <2>1. CASE Answer(c)
    BY <2>1 DEF Answer
  <2>2. CASE Send(c)
    <3>1. c \notin Answering /\ call[c].at = "armed"
      BY <2>2 DEF Send, AnsweredOnce
    <3>2. ~Answer(c)
      BY <2>2 DEF Answer, Send, AnsweredOnce
    <3> QED BY <1>t, <3>1, <3>2, AnsweringMoves
  <2>3. CASE ~Answer(c) /\ ~Send(c)
    BY <1>t, <2>3, AskedMoves, AnsweringMoves DEF AnsweredOnce
  <2> QED BY <2>1, <2>2, <2>3
<1>8. \A k \in DOMAIN up' : IsAnswer(k)' => up'[k].on = up'[k].reply.on
  BY <1>t, AnswersMove DEF AnsweredOnce
<1>9. \A j, k \in DOMAIN up' : IsAnswer(j)' /\ IsAnswer(k)' /\ up'[j].call = up'[k].call => j = k
  BY <1>t, AnswersMove
<1> QED BY <1>1, <1>2, <1>3, <1>4, <1>5, <1>6, <1>7, <1>8, <1>9 DEF AnsweredOnce

\* A slot is there until its call is answered, a newer open takes its place or
\* the connection ends; and one whose call is answered is gone.
LEMMA OpeningStays ==
  ASSUME Types, OneEach, [Next]_vars, NEW o \in opening
  PROVE  \/ \E p \in opening' : p.call = o.call
         \/ \E c \in Calls : Arm(c) /\ call[c].op \in Opens
         \/ (ReadAnswer \/ ReadDropped) /\ o.call = Head(up).call
         \/ Disconnected
<1> DEFINE P == \/ \E p \in opening' : p.call = o.call
                \/ \E c \in Calls : Arm(c) /\ call[c].op \in Opens
                \/ (ReadAnswer \/ ReadDropped) /\ o.call = Head(up).call
                \/ Disconnected
<1>1. ASSUME opening' = opening PROVE P
  BY <1>1
<1>2. ASSUME NEW c \in Calls, Arm(c) PROVE P
  <2>1. CASE call[c].op \notin Opens
    BY <1>1, <1>2, <2>1 DEF Arm
  <2> QED BY <1>2, <2>1
<1>3. CASE ReadUpdate
  <2> DEFINE u == Head(up)
  <2>1. opening' = opening \/ opening' = {Stated(p, u) : p \in opening}
    <3>1. CASE Foreign(u.on)
      BY <1>3, <3>1 DEF ReadUpdate
    <3>2. CASE ~Foreign(u.on)
      BY <1>3, <3>2 DEF ReadUpdate
    <3> QED BY <3>1, <3>2
  <2> HIDE DEF u
  <2>2. Stated(o, u).call = o.call
    BY DEF Types, SlotsTyped, Stated
  <2> QED BY <1>1, <2>1, <2>2
<1>4. CASE ReadAnswer
  <2> DEFINE c == Head(up).call
  <2>1. (\E slot \in opening : slot.call = c) \/ opening' = opening
    BY <1>4 DEF ReadAnswer, Opened, ChangedMode, SetAnswered
  <2>2. (\E slot \in opening : slot.call = c) => o.call = c
    BY DEF OneEach, AtMostOne
  <2> QED BY <1>1, <1>4, <2>1, <2>2
<1>5. CASE ReadDropped
  BY <1>5 DEF ReadDropped
<1>6. ASSUME NEW c \in Calls, Leave(c) \/ Ended(c) \/ Fail(c) PROVE P
  BY <1>1, <1>6 DEF Leave, Ended, Fail
<1>7. ASSUME NEW c \in Calls,
             \/ Asks(c) \/ Prepare(c) \/ Register(c) \/ Send(c) \/ GoLive(c) \/ SetReturns(c) \/ EndReturns(c)
             \/ Refresh(c) \/ ListReturns(c) \/ LoginReturns(c) \/ Answer(c)
      PROVE  P
  BY <1>1, <1>7 DEF Asks, Begin, Prepare, Register, Send, GoLive, SetReturns, EndReturns, Refresh, ListReturns,
     LoginReturns, Answer, slots
<1>8. ASSUME NEW s, NEW kind, NEW what, Announce(s, kind, what) PROVE P
  BY <1>1, <1>8 DEF Announce, slots
<1>9. CASE Close \/ UNCHANGED vars
  BY <1>1, <1>9 DEF Close, vars, slots
<1>10. CASE Disconnected
  BY <1>10
<1> QED BY <1>2, <1>3, <1>4, <1>5, <1>6, <1>7, <1>8, <1>9, <1>10 DEF Next

\* Once its answer is read, a call that was heard holds no slot.
LEMMA AnsweredSlotsGo ==
  ASSUME Types, OneEach, SlotsHoldTheirs, ReadAnswer \/ ReadDropped
  PROVE  \A slot \in opening' \cup loading' : slot.call # Head(up).call
<1> DEFINE c == Head(up).call
<1>1. \A l \in loading' : l.call # c
  BY DEF ReadAnswer, ReadDropped, Loaded
<1>2. CASE ReadDropped
  BY <1>1, <1>2 DEF ReadDropped
<1>3. CASE ReadAnswer
  <2>1. CASE Opened(c, Head(up).reply)
    BY <1>1, <2>1 DEF Opened
  <2>2. CASE ChangedMode(c, Head(up).reply)
    <3>1. call[c].op = "mode" /\ opening' = opening
      BY <2>2 DEF ChangedMode, SlotsHoldTheirs
    <3>2. \A o \in opening : call[o.call].op \in Opens
      BY DEF SlotsHoldTheirs, Types, SlotsTyped
    <3> QED BY <1>1, <3>1, <3>2 DEF Opens, Restores
  <2>3. CASE SetAnswered(c, Head(up).reply)
    <3>1. call[c].op = "option" /\ opening' = opening
      BY <2>3 DEF SetAnswered, SlotsHoldTheirs
    <3>2. \A o \in opening : call[o.call].op \in Opens
      BY DEF SlotsHoldTheirs, Types, SlotsTyped
    <3> QED BY <1>1, <3>1, <3>2 DEF Opens, Restores
  <2>4. CASE ~Slotted(c) /\ opening' = opening
    BY <1>1, <2>4 DEF Slotted
  <2> QED BY <1>3, <2>1, <2>2, <2>3, <2>4 DEF ReadAnswer
<1> QED BY <1>2, <1>3

\* An answer to a call in the table is heard.
LEMMA ReadIsHeard ==
  ASSUME Types, ReadAnswer \/ ReadDropped, NEW c \in pending, c = Head(up).call
  PROVE  Answered(c)'
<1>1. /\ call' = [call EXCEPT ![c].got = Handed(Head(up).reply)]
      /\ Handed(Head(up).reply).how \in Word
      /\ c \in Calls
  BY ReadsAnswer DEF Handed, Unheard
<1>2. call'[c].got = Handed(Head(up).reply)
  BY <1>1 DEF Types, CallsTyped, Record
<1> QED BY <1>1, <1>2 DEF Answered

\* A call that waits was armed just before, or waited already.
LEMMA ArmedFirst ==
  ASSUME Types, CallsFit, [Next]_vars, NEW c \in Calls
  PROVE  /\ call'[c].at = "armed" => call[c].at = "armed" \/ Arm(c)
         /\ call'[c].at = "waiting" => call[c].at \in {"armed", "waiting"}
<1>t. call[c] \in Record
  BY DEF Types, CallsTyped
<1>1. CASE Asks(c)
  <2>1. PICK r \in Record : call' = [call EXCEPT ![c] = r] /\ r.at \in {"leaving", "failed", "begun"}
    BY <1>1, AsksMakes
  <2> QED BY <2>1 DEF Types, CallsTyped
<1>2. CASE Moves(c)
  BY <1>2, CallerMoves
<1>3. CASE call'[c] = Relisting \/ call'[c] = [call[c] EXCEPT !.at = "done"]
  BY <1>t, <1>3 DEF Relisting, Record
<1>4. CASE Hears(c) \/ call'[c] = [call[c] EXCEPT !.got.how = "gone"]
  BY <1>t, <1>4 DEF Hears, Record
<1> QED BY <1>1, <1>2, <1>3, <1>4, CallsStep DEF CallStep

\* Every step leaves the calls awaited in the table.
LEMMA AwaitedKeeps ==
  ASSUME IInv, OneOpen, AnsweredOnce, Awaited, [Next]_vars
  PROVE  Awaited'
<1>t. Types /\ CallsFit /\ OneEach /\ SlotsHoldTheirs /\ call \in [Calls -> Record] /\ SlotsTyped
  BY DEF IInv, Types, CallsTyped
<1>p. TableStep
  BY <1>t, TableMoves
<1>h. \A c \in Calls : HearStep(c)
  BY <1>t, HearSteps
<1>s. SlotsStep
  BY <1>t, SlotsAreArmed
<1>a. \A c \in Calls : Arm(c) => /\ call[c].at = "left" /\ call'[c].at = "armed" /\ call'[c].got = call[c].got
                                 /\ ~Answered(c) /\ conn' = conn
                                 /\ \A d \in Calls \ {c} : call'[d] = call[d]
  <2> SUFFICES ASSUME NEW c \in Calls, Arm(c)
               PROVE  /\ call[c].at = "left" /\ call'[c].at = "armed" /\ call'[c].got = call[c].got
                      /\ ~Answered(c) /\ conn' = conn
                      /\ \A d \in Calls \ {c} : call'[d] = call[d]
    OBVIOUS
  <2>1. /\ call[c].at = "left" /\ call'[c].at = "armed" /\ call'[c].got = call[c].got /\ conn' = conn
        /\ \A d \in Calls \ {c} : call'[d] = call[d]
    BY <1>t DEF Arm, AtStep, Record, wire
  <2> QED BY <2>1 DEF IInv, Ledgers, Ledger, Away, Over
<1>w. Unheard.how \notin Word /\ "gone" \notin Word
  BY DEF Unheard, Word
\* Where the connection lasts, an armed open keeps its slot from another's.
<1>o. ASSUME NEW e \in Calls, conn = "open", NEW o \in opening, o.call = e
      PROVE  \A c \in Calls : Arm(c) => call[c].op \notin Opens
  <2> SUFFICES ASSUME NEW c \in Calls, Arm(c), call[c].op \in Opens PROVE FALSE
    OBVIOUS
  <2>1. call[c].at = "left" /\ Opener(c) /\ ~Settled(c)
    BY <1>a DEF Opener, Settled
  <2>2. Armed(e) /\ Opener(e) /\ ~Over(e)
    BY <1>o, <1>t DEF Awaited, SlotsHoldTheirs, SlotsTyped, Opener, Armed, Away, Over
  <2>3. c # e /\ ~Settled(e)
    BY <2>1, <2>2 DEF Armed, Away, Over, Settled
  <2> QED BY <2>1, <2>2, <2>3 DEF OneOpen
<1>1. ASSUME NEW c \in Calls, conn' = "open", call'[c].at \in {"armed", "waiting"}, call'[c].op \in Opens, ~Answered(c)'
      PROVE  \E o \in opening' : o.call = c
  <2>1. conn = "open" /\ ~Close /\ ~Disconnected
    BY <1>1, <1>p DEF TableStep, Disconnected
  <2>2. CASE Arm(c)
    <3>1. call'[c].op = call[c].op
      BY <1>t, <2>2 DEF Arm, AtStep, Record
    <3> QED BY <1>1, <2>2, <3>1 DEF Arm
  <2>3. CASE ~Arm(c)
    <3>1. call[c].at \in {"armed", "waiting"} /\ call[c].op \in Opens /\ ~Answered(c)
      <4>1. call[c].at \in {"armed", "waiting"}
        BY <1>1, <1>t, <2>3, ArmedFirst
      <4>2. call[c].op \in Opens
        BY <1>1, <1>t, <4>1, CallsMove DEF Kept
      <4>3. ~Answered(c)
        BY <1>1, <1>h, <2>1, <4>1 DEF HearStep, Answered, Unasked
      <4> QED BY <4>1, <4>2, <4>3
    <3>2. PICK o \in opening : o.call = c
      BY <2>1, <3>1 DEF Awaited
    <3>3. ~((ReadAnswer \/ ReadDropped) /\ c = Head(up).call)
      <4>1. c \in pending
        BY <2>1, <3>1 DEF AnsweredOnce, Prepared, Unasked
      <4> QED BY <1>1, <1>t, <4>1, ReadIsHeard
    <3> QED BY <1>o, <1>t, <2>1, <3>2, <3>3, OpeningStays
  <2> QED BY <2>2, <2>3
<1>2. ASSUME NEW e \in Calls, Armed(e), ~Answered(e), Over(e) => conn # "open",
             ~((ReadAnswer \/ ReadDropped) /\ e = Head(up).call)
      PROVE  ~Answered(e)' /\ (Over(e)' => conn' # "open")
  <2>1. ~Answered(e)'
    BY <1>2, <1>h, <1>w DEF HearStep, Answered, Armed, Away, Over
  <2>2. ASSUME ~Over(e), Over(e)' PROVE conn # "open"
    <3>1. Moves(e)
      <4>1. call[e] \in Record /\ call[e].at # "none"
        BY <1>2, <1>t DEF Armed, Away, Over
      <4>2. ~Asks(e) /\ ~Refresh(e)
        BY <1>t, <2>2, <4>1, AsksMakes DEF Made, Refresh, Over
      <4>3. Hears(e) \/ Close => call'[e].at = call[e].at \/ Moves(e)
        BY <1>t, <4>1, <4>2, CallsStep DEF CallStep, Hears, Record
      <4> QED BY <1>t, <2>2, <4>1, <4>2, <4>3, CallsStep DEF CallStep, Over
    <3>2. call[e].at = "waiting" /\ call[e].got.how # "none"
      BY <1>2, <1>t, <2>2, <3>1, CallerMoves DEF Armed, Away, Over
    <3>3. call[e].got.how \in Word \cup {"none", "gone"}
      BY <1>t DEF Record, Reply
    <3> QED BY <1>2, <3>2, <3>3 DEF AnsweredOnce, Answered
  <2> QED BY <1>2, <1>p, <2>1, <2>2 DEF TableStep
<1>3. ASSUME NEW slot \in opening' \cup loading'
      PROVE  ~Answered(slot.call)' /\ (Over(slot.call)' => conn' # "open")
  <2>1. CASE \E p \in opening \cup loading : p.call = slot.call
    <3>1. PICK p \in opening \cup loading : p.call = slot.call
      BY <2>1
    <3>2. p.call \in Calls /\ Armed(p.call) /\ ~Answered(p.call) /\ (Over(p.call) => conn # "open")
      BY <1>t DEF Awaited, SlotsHoldTheirs, SlotsTyped
    <3>3. ~((ReadAnswer \/ ReadDropped) /\ p.call = Head(up).call)
      BY <1>3, <1>t, <3>1, AnsweredSlotsGo
    <3> QED BY <1>2, <3>1, <3>2, <3>3
  <2>2. ASSUME NEW c \in Calls, Arm(c), slot.call = c
        PROVE  ~Answered(slot.call)' /\ (Over(slot.call)' => conn' # "open")
    BY <1>a, <2>2 DEF Answered, Over
  <2>3. \/ \E p \in opening \cup loading : p.call = slot.call
        \/ \E c \in Calls : Arm(c) /\ slot.call = c
    BY <1>s DEF SlotsStep
  <2> QED BY <2>1, <2>2, <2>3
<1>4. ASSUME conn' = "open", NEW l \in loading' PROVE \E o \in opening' : o.call = l.call
  <2>1. conn = "open" /\ ~Close /\ ~Disconnected
    BY <1>4, <1>p DEF TableStep, Disconnected
  <2>2. CASE \E p \in loading : p.call = l.call
    <3>1. PICK o \in opening : o.call = l.call
      BY <2>1, <2>2 DEF Awaited
    <3>2. ~((ReadAnswer \/ ReadDropped) /\ o.call = Head(up).call)
      BY <1>4, <1>t, <3>1, AnsweredSlotsGo
    <3>3. o.call \in Calls
      BY <1>t DEF SlotsTyped
    <3>4. \A c \in Calls : Arm(c) => call[c].op \notin Opens
      BY <1>o, <2>1, <3>3
    <3>5. \E p \in opening' : p.call = o.call
      BY <1>t, <2>1, <3>2, <3>4, OpeningStays
    <3> QED BY <3>1, <3>5
  <2>3. ASSUME NEW c \in Calls, Arm(c), call[c].op = "load", l.call = c PROVE \E o \in opening' : o.call = l.call
    BY <2>3 DEF Arm, Opens, Restores
  <2>4. \/ \E p \in loading : p.call = l.call
        \/ \E c \in Calls : Arm(c) /\ call[c].op = "load" /\ l.call = c
    BY <1>s DEF SlotsStep
  <2> QED BY <2>2, <2>3, <2>4
<1> QED BY <1>1, <1>3, <1>4 DEF Awaited

\* What a step notes: the loads that an answer finds to have replayed nothing.
LEMMA NotesGrow ==
  [Next]_vars => \/ notes' = notes
                 \/ ReadAnswer /\ Loaded(Head(up).call, Head(up).reply)
<1> SUFFICES ASSUME [Next]_vars, ~ReadAnswer PROVE notes' = notes
  BY DEF ReadAnswer
<1>1. ASSUME NEW c \in Calls, Asks(c) \/ Refresh(c) \/ Answer(c) PROVE notes' = notes
  BY <1>1 DEF Asks, Begin, Refresh, Answer, stores
<1>2. ASSUME NEW c \in Calls, Moves(c) PROVE notes' = notes
  BY <1>2 DEF Moves, Prepare, Register, Leave, Arm, Send, Fail, GoLive, SetReturns, EndReturns, Ended,
     ListReturns, LoginReturns, stores
<1>3. ASSUME NEW s, NEW kind, NEW what, Announce(s, kind, what) PROVE notes' = notes
  BY <1>3 DEF Announce, stores
<1>4. ASSUME ReadUpdate \/ ReadDropped \/ Close \/ Disconnected \/ UNCHANGED vars PROVE notes' = notes
  BY <1>4 DEF ReadUpdate, ReadDropped, Close, Disconnected, vars, stores
<1> QED BY <1>1, <1>2, <1>3, <1>4 DEF Next, Moves

\* A load's session is known for as long as its open waits, so that an update of
\* it is never taken for another's and is seen to be a replay.
LEMMA ReplaysAreSeen ==
  ASSUME IInv, Awaited, ReadUpdate, NEW l \in loading, l.on = Head(up).on
  PROVE  ~Foreign(Head(up).on) /\ loading' = {Replayed(p, Head(up)) : p \in loading}
<1>1. conn = "open" /\ l.on # None
  BY ReadsUpdate DEF IInv, ReadUpdate, Heads
<1>2. PICK o \in opening : o.call = l.call
  BY <1>1 DEF Awaited
<1>3. o.on = l.on
  BY <1>2 DEF IInv, SlotsHoldTheirs
<1>4. l.on \in Known
  BY <1>1, <1>3 DEF Known
<1>5. ~Foreign(Head(up).on)
  BY <1>4 DEF Foreign
<1> QED BY <1>5 DEF ReadUpdate

\* Every step keeps what the notes of a load's replay follow from.
LEMMA NotesKeep ==
  ASSUME IInv, Awaited, NotesFollow, [Next]_vars
  PROVE  NotesFollow'
<1>t. /\ Types /\ CallsFit /\ OneEach /\ SlotsHoldTheirs /\ call \in [Calls -> Record] /\ SlotsTyped
      /\ notes \subseteq Calls /\ HeardAreArmed
  BY DEF IInv, Types, CallsTyped, StoresTyped
<1>s. SlotsStep
  BY <1>t, SlotsAreArmed
<1>a. \A c \in Calls : Arm(c) => ~Armed(c) /\ call[c].at = "left"
  BY DEF Arm, Armed, Away, Over
<1>l. \A l \in loading : l.call \in Calls /\ call[l.call].op = "load"
  BY <1>t DEF SlotsHoldTheirs, SlotsTyped
<1>h. ASSUME NEW c \in heardIn', call[c].op = "load"
      PROVE  c \in heardIn \/ (ReadUpdate /\ \E l \in loading : l.call = c /\ l.on = Head(up).on)
  <2>1. c \notin heardIn => ReadUpdate /\ c \in HeardBy(Head(up))
    BY HeardGrows
  <2> QED BY <1>h, <2>1 DEF HeardBy
<1>1. ASSUME NEW l \in loading', l.call \in heardIn' PROVE l.replayed
  <2>1. ASSUME NEW c \in Calls, Arm(c), l = [call |-> c, on |-> call[c].on, replayed |-> FALSE] PROVE FALSE
    <3>1. c \notin heardIn
      BY <1>a, <1>t, <2>1 DEF HeardAreArmed
    <3>2. heardIn' = heardIn
      BY <2>1 DEF Arm
    <3> QED BY <1>1, <2>1, <3>1, <3>2
  <2>2. ASSUME NEW p \in loading, p.call = l.call, p.replayed => l.replayed PROVE l.replayed
    <3>1. CASE l.call \in heardIn
      BY <2>2, <3>1 DEF NotesFollow
    <3>2. CASE ReadUpdate /\ \E q \in loading : q.call = l.call /\ q.on = Head(up).on
      <4>1. p.on = Head(up).on
        BY <1>t, <3>2 DEF OneEach, AtMostOne
      <4>2. PICK q \in loading : l = Replayed(q, Head(up))
        BY <3>2, ReplaysAreSeen
      <4>3. q = p
        BY <1>t DEF OneEach, AtMostOne
      <4> QED BY <1>t, <4>1, <4>2, <4>3 DEF Replayed, SlotsTyped
    <3> QED BY <1>1, <1>h, <1>l, <2>2, <3>1, <3>2
  <2> QED BY <1>s, <2>1, <2>2 DEF SlotsStep
<1>2. ASSUME NEW c \in notes, c \in notes'
      PROVE  /\ call'[c].op = "load" /\ Away(c)' /\ c \notin heardIn'
             /\ \A l \in loading' : l.call # c
  <2>1. c \in Calls /\ call[c].op = "load" /\ Away(c) /\ c \notin heardIn /\ \A l \in loading : l.call # c
    BY <1>t DEF NotesFollow
  <2>2. call'[c].op = "load" /\ Away(c)'
    BY <1>t, <2>1, CallsMove, CallsAdvance DEF Kept, Away, Over
  <2>3. \A l \in loading' : l.call # c
    BY <1>a, <1>s, <2>1 DEF SlotsStep, Armed
  <2> QED BY <1>h, <2>1, <2>2, <2>3
<1>3. ASSUME ReadAnswer, Loaded(Head(up).call, Head(up).reply), NEW c \in notes', c \notin notes
      PROVE  /\ call'[c].op = "load" /\ Away(c)' /\ c \notin heardIn'
             /\ \A l \in loading' : l.call # c
  <2>1. PICK l \in loading : l.call = c /\ c = Head(up).call /\ ~l.replayed
    BY <1>3 DEF Loaded
  <2>2. c \in Calls /\ call[c].op = "load" /\ c \notin heardIn
    BY <1>l, <2>1 DEF NotesFollow
  <2>3. Away(c)
    <3>1. up # <<>> /\ Head(up).kind = "answer"
      BY <1>3 DEF ReadAnswer, Heads
    <3>2. c \in Answering
      <4>1. Head(up) = up[1] /\ 1 \in DOMAIN up
        BY <1>t, <3>1, HeadIsOne DEF Types, WireTyped
      <4> QED BY <2>1, <3>1, <4>1 DEF Answering
    <3> QED BY <3>2 DEF IInv, SentIsAway
  <2>4. call'[c].op = "load" /\ Away(c)'
    BY <1>t, <2>2, <2>3, CallsMove, CallsAdvance DEF Kept, Away, Over
  <2>5. heardIn' = heardIn /\ \A p \in loading' : p.call # c
    BY <1>3, <2>1 DEF ReadAnswer, Loaded
  <2> QED BY <2>2, <2>4, <2>5
<1>4. ASSUME NEW c \in notes'
      PROVE  /\ call'[c].op = "load" /\ Away(c)' /\ c \notin heardIn'
             /\ \A l \in loading' : l.call # c
  BY <1>2, <1>3, <1>4, NotesGrow
<1> QED BY <1>1, <1>4 DEF NotesFollow

\* What the notes need is there at the start and kept by every step.
LEMMA NInvHolds ==
  ASSUME ~Overlap
  PROVE  /\ Init => NInv
         /\ NInv /\ [Next]_vars => NInv'
<1>1. Init => NInv
  <2> SUFFICES ASSUME Init PROVE NInv
    OBVIOUS
  <2>1. IInv
    BY IInvHolds
  <2>2. /\ \A c \in Calls : call[c] = Fresh
        /\ conn = "open" /\ up = <<>> /\ pending = {} /\ asked = {} /\ opening = {} /\ loading = {} /\ notes = {}
    BY DEF Init
  <2>3. Fresh.at = "none" /\ Fresh.got = Unheard /\ Unheard.how = "none"
    BY DEF Fresh, Unheard
  <2>4. OneOpen
    BY <2>2, <2>3 DEF OneOpen, Opener
  <2>5. AnsweredOnce
    BY <2>2, <2>3 DEF AnsweredOnce, Answering, Unasked, Prepared
  <2>6. Awaited /\ NotesFollow
    BY <2>2, <2>3 DEF Awaited, NotesFollow
  <2> QED BY <2>1, <2>4, <2>5, <2>6 DEF NInv
<1>2. NInv /\ [Next]_vars => NInv'
  BY IInvHolds, OneOpenKeeps, AnsweredOnceKeeps, AwaitedKeeps, NotesKeep DEF NInv, IInv
<1> QED BY <1>1, <1>2

\* A load noted to have replayed nothing heard nothing of its session between
\* its frame and its answer, where no open overtakes another: its session stays
\* known for as long as it is being loaded ("can only make the rule quieter,
\* never wrong", rules.rs).
THEOREM ReplayNotesHold ==
  ASSUME ~Overlap
  PROVE  Spec => []ReplayNotesAreTrue
<1>1. NInv => ReplayNotesAreTrue
  BY DEF NInv, NotesFollow, ReplayNotesAreTrue
<1> QED BY <1>1, NInvHolds, PTL DEF Spec

(***************************************************************************)
(* Whose the settings are, and which set they acknowledge.                 *)
(***************************************************************************)
\* The live session changes where an open returns and where one ends.
LiveStep ==
  \/ live' = live
  \/ \E c \in Calls : GoLive(c) /\ Returns(c) /\ live' = OpenedBy(c) /\ live' # None /\ changing' = changing
  \/ \E c \in Calls : Ended(c) /\ live' = None /\ settings' = Empty /\ changing' = {}

\* The session followed changes only to one an open was answered with.
LEMMA LiveMoves ==
  [Next]_vars => LiveStep
<1> SUFFICES ASSUME [Next]_vars PROVE LiveStep
  OBVIOUS
<1>1. ASSUME live' = live PROVE LiveStep
  BY <1>1 DEF LiveStep
<1>2. ASSUME NEW c \in Calls, GoLive(c) PROVE LiveStep
  <2>1. Returns(c) /\ changing' = changing
    BY <1>2 DEF GoLive, Ready, Returns, Outcome, slots
  <2>2. live' = live \/ (live' = OpenedBy(c) /\ live' # None)
    BY <1>2 DEF GoLive, OpenedBy
  <2> QED BY <1>1, <1>2, <2>1, <2>2 DEF LiveStep
<1>3. ASSUME NEW c \in Calls, Ended(c) PROVE LiveStep
  BY <1>3 DEF Ended, Forget, LiveStep
<1>4. ASSUME NEW c \in Calls, Asks(c) \/ Refresh(c) \/ Answer(c) PROVE LiveStep
  BY <1>1, <1>4 DEF Asks, Begin, Refresh, Answer, stores
<1>5. ASSUME NEW c \in Calls,
             \/ Prepare(c) \/ Register(c) \/ Leave(c) \/ Arm(c) \/ Send(c) \/ Fail(c)
             \/ SetReturns(c) \/ EndReturns(c) \/ ListReturns(c) \/ LoginReturns(c)
      PROVE  LiveStep
  BY <1>1, <1>5 DEF Prepare, Register, Leave, Arm, Send, Fail, SetReturns, EndReturns, ListReturns,
     LoginReturns, stores
<1>6. ASSUME NEW s, NEW kind, NEW what, Announce(s, kind, what) PROVE LiveStep
  BY <1>1, <1>6 DEF Announce, stores
<1>7. ASSUME ReadUpdate \/ ReadAnswer \/ ReadDropped \/ Close \/ Disconnected \/ UNCHANGED vars PROVE LiveStep
  BY <1>1, <1>7 DEF ReadUpdate, ReadAnswer, ReadDropped, Close, Disconnected, vars, stores
<1> QED BY <1>2, <1>3, <1>4, <1>5, <1>6, <1>7 DEF Next

\* What was opened last changes where an open is answered.
LEMMA LastMoves ==
  [Next]_vars => \/ openedLast' = openedLast
                 \/ ReadAnswer /\ Opened(Head(up).call, Head(up).reply)
<1> SUFFICES ASSUME [Next]_vars, ~(ReadAnswer /\ Opened(Head(up).call, Head(up).reply))
             PROVE  openedLast' = openedLast
  OBVIOUS
<1>1. ASSUME NEW c \in Calls, Asks(c) \/ Refresh(c) \/ Answer(c) PROVE openedLast' = openedLast
  BY <1>1 DEF Asks, Begin, Refresh, Answer, memory
<1>2. ASSUME NEW c \in Calls, Moves(c) PROVE openedLast' = openedLast
  BY <1>2 DEF Moves, Prepare, Register, Leave, Arm, Send, Fail, GoLive, SetReturns, EndReturns, Ended,
     ListReturns, LoginReturns, memory
<1>3. ASSUME NEW s, NEW kind, NEW what, Announce(s, kind, what) PROVE openedLast' = openedLast
  BY <1>3 DEF Announce, memory
<1>4. ASSUME ReadUpdate \/ ReadDropped \/ Close \/ Disconnected \/ UNCHANGED vars PROVE openedLast' = openedLast
  BY <1>4 DEF ReadUpdate, ReadDropped, Close, Disconnected, vars, memory
<1>5. CASE ReadAnswer
  BY <1>5 DEF ReadAnswer, ChangedMode, SetAnswered
<1> QED BY <1>1, <1>2, <1>3, <1>4, <1>5 DEF Next, Moves

\* A session that is live was named by a call, and stays named.
LEMMA LiveIsMintedKeeps ==
  ASSUME IInv, AnsweredOnce, LiveIsMinted, [Next]_vars
  PROVE  LiveIsMinted'
<1>t. Types /\ CallsFit /\ call \in [Calls -> Record]
  BY DEF IInv, Types, CallsTyped
<1> SUFFICES ASSUME live' # None PROVE \E c \in Made' : live' = call'[c].on \/ live' = call'[c].got.on
  BY DEF LiveIsMinted
<1>1. PICK c \in Made : live' = call[c].on \/ live' = call[c].got.on
  <2>1. CASE live' = live
    BY <2>1 DEF LiveIsMinted
  <2>2. ASSUME NEW c \in Calls, Returns(c), live' = OpenedBy(c)
        PROVE  \E d \in Made : live' = call[d].on \/ live' = call[d].got.on
    BY <2>2 DEF Returns, OpenedBy, Made
  <2> QED BY <2>1, <2>2, LiveMoves DEF LiveStep
<1>2. c \in Calls /\ call[c].at # "none" /\ c \in Made' /\ call'[c].on = call[c].on
  BY <1>t, CallsMove DEF Made, Kept
<1>3. CASE live' = call[c].got.on
  <2>1. c \notin pending
    BY <1>3 DEF AnsweredOnce, Unheard
  <2>2. call'[c].got = call[c].got
    BY <1>2, <1>t, <2>1, HearSteps DEF HearStep
  <2> QED BY <1>2, <1>3, <2>2
<1> QED BY <1>1, <1>2, <1>3

\* What the answer to a session/new names was named by none before.
LEMMA AnswerNames ==
  ASSUME Types, AnsweredOnce, NEW e \in Calls, Answer(e), call[e].op = "new",
         NEW k \in DOMAIN up', IsAnswer(k)', up'[k].call = e, up'[k].on # None
  PROVE  up'[k].on \notin Minted
<1>t. up \in Seq(Frames)
  BY DEF Types, WireTyped
<1>1. PICK reply \in Replies(e) :
        up' = Append(up, [kind |-> "answer", call |-> e, reply |-> reply, on |-> reply.on, says |-> None])
  BY DEF Answer
<1> DEFINE f == [kind |-> "answer", call |-> e, reply |-> reply, on |-> reply.on, says |-> None]
<1>2. k \in DOMAIN up \/ up'[k] = f
  <2> HIDE DEF f
  <2>1. Len(up) \in Nat /\ DOMAIN up = 1..Len(up) /\ DOMAIN Append(up, f) = 1..(Len(up) + 1)
        /\ Append(up, f)[Len(up) + 1] = f
    BY <1>t
  <2>2. up' = Append(up, f)
    BY <1>1 DEF f
  <2> QED BY <2>1, <2>2
<1>3. k \notin DOMAIN up
  <2> SUFFICES ASSUME k \in DOMAIN up PROVE FALSE
    OBVIOUS
  <2>1. up'[k] = up[k]
    BY <1>t, <1>1
  <2>2. e \in Answering
    BY <2>1 DEF IsAnswer, Answering
  <2> QED BY <2>2 DEF Answer, AnsweredOnce
<1>4. up'[k].on = reply.on
  BY <1>2, <1>3
<1>5. reply.on = None \/ reply.on \in Sessions \ Minted
  BY DEF Replies, Unheard, Opens
<1> QED BY <1>4, <1>5

\* A session nobody opened stays unheard of.
LEMMA UnusedKeeps ==
  ASSUME IInv, OneOpen, AnsweredOnce, LiveIsMinted, UnusedSessions, [Next]_vars
  PROVE  UnusedSessions'
<1>t. Types /\ CallsFit /\ call \in [Calls -> Record] /\ up' \in Seq(Frames)
  BY WireKeeps DEF IInv, Types, CallsTyped, WireTyped
<1> SUFFICES ASSUME NEW k \in DOMAIN up', IsAnswer(k)', call'[up'[k].call].op = "new", up'[k].on # None
             PROVE  live' # up'[k].on /\ \A c \in Calls : call'[c].op \in Sets => call'[c].on # up'[k].on
  BY DEF UnusedSessions, Uses
<1> DEFINE s == up'[k].on
           e == up'[k].call
<1>e. e \in asked' \cup Answering'
  BY DEF IsAnswer, Answering
<1>1. CASE e \in Calls /\ Answer(e)
  <2>1. call' = call /\ live' = live
    BY <1>1 DEF Answer, stores
  <2>2. s \notin Minted
    BY <1>1, <1>t, <2>1, AnswerNames
  <2>3. \A c \in Calls : call[c].on \in Minted /\ call[c].got.on \in Minted
    BY DEF Minted
  <2> QED BY <2>1, <2>2, <2>3 DEF LiveIsMinted, Made
<1>2. CASE \E j \in DOMAIN up : IsAnswer(j) /\ up'[k] = up[j]
  <2>1. PICK j \in DOMAIN up : IsAnswer(j) /\ up'[k] = up[j]
    BY <1>2
  <2>2. e \in Answering /\ e \in pending /\ e \in Calls /\ call[e].at = "waiting" /\ call[e].got = Unheard
    <3>1. e \in Answering
      BY <2>1 DEF IsAnswer, Answering
    <3> QED BY <1>t, <3>1 DEF AnsweredOnce, Types, CallsTyped
  <2>3. call[e].op = "new" /\ Opener(e) /\ ~Settled(e)
    BY <1>t, <2>2, CallsMove DEF Kept, Opener, Settled, Opens
  <2>4. ~Uses(s)
    BY <2>1, <2>3 DEF UnusedSessions
  <2>5. live' # s
    <3>1. ASSUME NEW c \in Calls, GoLive(c), Returns(c) PROVE FALSE
      <4>1. Opener(c) /\ ~Settled(c) /\ call[c].got # Unheard
        BY <3>1 DEF Returns, Opener, Settled, Unheard
      <4> QED BY <2>2, <2>3, <4>1 DEF OneOpen
    <3> QED BY <2>4, <3>1, LiveMoves DEF LiveStep, Uses
  <2>6. ASSUME NEW c \in Calls, call'[c].op \in Sets PROVE call'[c].on # s
    <3>1. CASE call[c].at # "none"
      BY <1>t, <2>4, <2>6, <3>1, CallsMove DEF Kept, Uses
    <3>2. CASE call'[c] = call[c]
      BY <2>4, <2>6, <3>2 DEF Uses
    <3>3. CASE Asks(c)
      <4>1. PICK r \in Record : call' = [call EXCEPT ![c] = r] /\ (r.op \in Sets => r.on = live)
        BY <1>t, <3>3, AsksMakes
      <4>2. call'[c].on = live
        BY <1>t, <2>6, <4>1
      <4> QED BY <2>4, <4>2 DEF Uses
    <3>4. CASE call'[c] = Relisting
      BY <2>6, <3>4 DEF Relisting, Sets
    <3>5. call[c].at = "none" => c \notin pending
      BY DEF AnsweredOnce, Unasked
    <3> QED BY <1>t, <3>1, <3>2, <3>3, <3>4, <3>5, CallsStep, MovesStep DEF CallStep, Hears, Refresh
  <2> QED BY <2>5, <2>6
<1> QED BY <1>1, <1>2, <1>t, AnswersMove

\* An open's answer is its caller's to return by, and says whose the settings are.
LEMMA OpenReturns ==
  ASSUME IInv, AnsweredOnce, Awaited, [Next]_vars, ReadAnswer, NEW c \in Calls, c = Head(up).call,
         Opened(c, Head(up).reply)
  PROVE  /\ Opener(c) /\ ~Settled(c) /\ call'[c].at = "waiting" /\ call'[c].op = call[c].op
         /\ call'[c].got.how = Head(up).reply.how
         /\ \E slot \in opening : slot.call = c
         /\ opening' = {} /\ changing' = changing
         /\ IF Head(up).reply.how \in {"ok", "garbled"}
            THEN /\ settings'.of \in {None, OpenedBy(c)'} /\ settings'.change.how = "none"
                 /\ openedLast' = IF OpenedBy(c)' = None THEN openedLast ELSE OpenedBy(c)'
                 /\ Returns(c)'
            ELSE settings' = settings /\ openedLast' = openedLast
<1>t. /\ Types /\ CallsFit /\ SlotsHoldTheirs /\ SlotsTyped /\ call \in [Calls -> Record]
  BY DEF IInv, Types, CallsTyped
<1> DEFINE reply == Head(up).reply
<1>r. reply \in Reply /\ up # <<>> /\ Head(up).kind = "answer" /\ Head(up) = up[1] /\ 1 \in DOMAIN up
  BY <1>t, ReadsAnswer, HeadIsOne DEF ReadAnswer, Heads, AnswerFrame, Frame, Types, WireTyped
<1>1. PICK slot \in opening : /\ slot.call = c /\ opening' = {} /\ changing' = changing
                              /\ IF reply.how \in {"ok", "garbled"}
                                 THEN /\ settings' = Published(slot, reply)
                                      /\ LET on == IF slot.how = "new" THEN reply.on ELSE slot.on
                                         IN openedLast' = IF on = None THEN openedLast ELSE on
                                 ELSE settings' = settings /\ openedLast' = openedLast
  BY DEF Opened
<1>2. call[c].op = slot.how /\ slot.how \in Opens /\ call[c].on = slot.on
  BY <1>1, <1>t DEF SlotsHoldTheirs, SlotsTyped
<1>3. call[c].at = "waiting" /\ c \in pending
  <2>1. c \in Answering
    BY <1>r DEF Answering
  <2> QED BY <2>1 DEF AnsweredOnce
<1>4. /\ call'[c].at = "waiting" /\ call'[c].op = call[c].op /\ call'[c].on = call[c].on
      /\ call'[c].got = Handed(reply)
  <2>1. call' = [call EXCEPT ![c].got = Handed(reply)]
    BY <1>3, <1>t, ReadsAnswer
  <2> QED BY <1>3, <1>t, <2>1 DEF Record
<1>5. Handed(reply).how = reply.how /\ Handed(reply).on = reply.on
  BY <1>r DEF Handed, Unheard
<1>6. OpenedBy(c)' = IF slot.how = "new" THEN reply.on ELSE slot.on
  BY <1>2, <1>4, <1>5 DEF OpenedBy
<1>7. /\ Published(slot, reply).change.how = "none"
      /\ Published(slot, reply).of \in {None, IF slot.how = "new" THEN reply.on ELSE slot.on}
  BY <1>1, <1>r, <1>t, PublishedTyped DEF SlotsTyped
<1>8. Opener(c) /\ ~Settled(c)
  BY <1>2, <1>3 DEF Opener, Settled
<1>9. reply.how \in {"ok", "garbled"} => Returns(c)'
  BY <1>2, <1>4, <1>5 DEF Returns
<1> HIDE DEF reply
<1>10. IF reply.how \in {"ok", "garbled"}
       THEN /\ settings'.of \in {None, OpenedBy(c)'} /\ settings'.change.how = "none"
            /\ openedLast' = IF OpenedBy(c)' = None THEN openedLast ELSE OpenedBy(c)'
            /\ Returns(c)'
       ELSE settings' = settings /\ openedLast' = openedLast
  BY <1>1, <1>6, <1>7, <1>9
<1> QED BY <1>1, <1>4, <1>5, <1>8, <1>10 DEF reply

\* An open that returned goes on returning, with what it opened, until it does.
LEMMA ReturnsStay ==
  ASSUME IInv, AnsweredOnce, [Next]_vars, NEW c \in Calls, Returns(c)
  PROVE  /\ OpenedBy(c)' = OpenedBy(c)
         /\ Returns(c)' \/ (GoLive(c) /\ live' \in {OpenedBy(c), live} /\ (OpenedBy(c) # None => live' = OpenedBy(c)))
<1>t. Types /\ CallsFit /\ call \in [Calls -> Record]
  BY DEF IInv, Types, CallsTyped
<1>1. call[c].at = "waiting" /\ c \notin pending
  BY DEF Returns, AnsweredOnce, Unheard
<1>2. call'[c].op = call[c].op /\ call'[c].on = call[c].on /\ call'[c].got = call[c].got
  BY <1>1, <1>t, CallsMove, HearSteps DEF Kept, HearStep, Unasked
<1>3. CASE Moves(c)
  <2>1. call[c].op \in Opens /\ call[c].got.how \in {"ok", "garbled"}
    BY DEF Returns
  <2>2. GoLive(c)
    BY <1>1, <1>3, <2>1 DEF Moves, Prepare, Register, Leave, Arm, Send, Fail, SetReturns, EndReturns, Ended,
       ListReturns, LoginReturns, Outcome, Opens, Restores, Ends, Sets
  <2>3. live' \in {OpenedBy(c), live} /\ (OpenedBy(c) # None => live' = OpenedBy(c))
    BY <2>2 DEF GoLive, OpenedBy
  <2> QED BY <1>2, <2>2, <2>3 DEF OpenedBy
<1>4. CASE call'[c].at = "waiting"
  BY <1>2, <1>4 DEF Returns, OpenedBy
<1>5. ~Asks(c) /\ ~Refresh(c) /\ call[c] \in Record
  BY <1>1, <1>t, AsksMakes DEF Made, Refresh
<1> QED BY <1>1, <1>3, <1>4, <1>5, <1>t, CallsStep DEF CallStep, Hears

\* The settings stay those of the session followed, or of the open returning.
LEMMA SettingsFollowKeeps ==
  ASSUME IInv, OneOpen, AnsweredOnce, Awaited, SettingsFollow, [Next]_vars
  PROVE  SettingsFollow'
<1>t. Types /\ CallsFit /\ SlotsHoldTheirs /\ SlotsTyped /\ call \in [Calls -> Record]
  BY DEF IInv, Types, CallsTyped
<1> DEFINE c == Head(up).call
           Opens0 == ReadAnswer /\ Opened(c, Head(up).reply)
\* No open is answered, or one is that fails.
<1>1. ASSUME openedLast' = openedLast, settings'.of \in {None, settings.of},
             \A d \in Calls : Returns(d)' => Returns(d)
      PROVE  SettingsFollow'
  <2>1. ASSUME settings'.of # None
        PROVE  settings'.of = live' \/ \E d \in Calls : Returns(d)' /\ OpenedBy(d)' = settings'.of
    <3>1. settings'.of = settings.of /\ settings.of # None
      BY <1>1, <2>1
    <3>2. CASE \E d \in Calls : Returns(d) /\ OpenedBy(d) = settings.of
      BY <3>1, <3>2, ReturnsStay
    <3>3. CASE settings.of = live
      <4>1. ASSUME NEW d \in Calls, Returns(d), live' = OpenedBy(d), live' # None PROVE live' = settings.of
        BY <3>1, <4>1 DEF SettingsFollow
      <4>2. settings' # Empty
        BY <2>1 DEF Empty
      <4> QED BY <3>1, <3>3, <4>1, <4>2, LiveMoves DEF LiveStep
    <3> QED BY <3>1, <3>2, <3>3 DEF SettingsFollow
  <2>2. ASSUME NEW d \in Calls, Returns(d)' PROVE settings'.of \in {None, OpenedBy(d)'}
    BY <1>1, <2>2, ReturnsStay DEF SettingsFollow
  <2> QED BY <1>1, <2>1, <2>2 DEF SettingsFollow
<1>2. ASSUME NEW d \in Calls, Returns(d)', ~Returns(d)
      PROVE  Opens0 /\ d = c /\ Head(up).reply.how \in {"ok", "garbled"}
  <2>1. call[d].at \in {"armed", "waiting"} /\ call[d].op \in Opens
    <3>1. call[d].at \in {"armed", "waiting"}
      BY <1>2, <1>t, ArmedFirst DEF Returns
    <3> QED BY <1>2, <3>1, <1>t, CallsMove DEF Kept, Returns
  <2>2. call[d].got.how \notin {"ok", "garbled"}
    <3>1. call[d].at = "armed" => ~Answered(d)
      BY DEF IInv, Ledgers, Ledger, Away, Over
    <3> QED BY <1>2, <2>1, <3>1 DEF Returns, Answered, Word
  <2>3. d \in pending /\ d = c /\ call'[d].got = Handed(Head(up).reply) /\ (ReadAnswer \/ ReadDropped)
    BY <1>2, <2>1, <2>2, <1>t, HearSteps DEF HearStep, Returns, Unheard, Unasked
  <2>4. Head(up).reply.how \in {"ok", "garbled"}
    BY <1>2, <2>3 DEF Returns, Handed, Unheard
  <2>5. ReadAnswer /\ conn = "open"
    BY <2>3, <2>4 DEF ReadDropped, ReadAnswer, Heads
  <2>6. ~Answered(d)
    BY <2>3 DEF AnsweredOnce, Answered, Unheard, Word
  <2>7. \E o \in opening : o.call = d
    BY <2>1, <2>5, <2>6 DEF Awaited
  <2>8. ~ChangedMode(c, Head(up).reply) /\ ~SetAnswered(c, Head(up).reply)
    BY <1>t, <2>1, <2>3 DEF ChangedMode, SetAnswered, SlotsHoldTheirs, Opens, Restores
  <2>9. Slotted(c)
    BY <2>3, <2>7 DEF Slotted
  <2> QED BY <2>3, <2>4, <2>5, <2>8, <2>9 DEF ReadAnswer
<1>3. CASE ~Opens0
  <2>1. settings'.of \in {None, settings.of} /\ openedLast' = openedLast
    BY <1>3, <1>t, SettingsKeep, LastMoves DEF SettingsStep
  <2> QED BY <1>1, <1>2, <1>3, <2>1
<1>4. CASE Opens0
  <2>0. c \in Calls
    BY <1>4, <1>t, ReadsAnswer
  <2>1. CASE Head(up).reply.how \notin {"ok", "garbled"}
    <3>1. settings' = settings /\ openedLast' = openedLast
      BY <1>4, <2>0, <2>1, OpenReturns
    <3> QED BY <1>1, <1>2, <2>1, <3>1
  <2>2. CASE Head(up).reply.how \in {"ok", "garbled"}
    <3>1. PICK e \in Calls : e = c
      BY <2>0
    <3>2. /\ Opener(e) /\ ~Settled(e)
          /\ settings'.of \in {None, OpenedBy(e)'} /\ Returns(e)'
          /\ openedLast' = IF OpenedBy(e)' = None THEN openedLast ELSE OpenedBy(e)'
      BY <1>4, <2>2, <3>1, OpenReturns
    <3>3. ASSUME NEW d \in Calls, Returns(d)' PROVE d = e
      <4>1. CASE Returns(d)
        BY <3>2, <4>1 DEF OneOpen, Returns, Opener, Settled
      <4>2. CASE ~Returns(d)
        BY <1>2, <3>1, <3>3, <4>2
      <4> QED BY <4>1, <4>2
    <3> HIDE DEF c
    <3> QED BY <3>2, <3>3 DEF SettingsFollow
  <2> QED BY <2>1, <2>2
<1> QED BY <1>3, <1>4

\* Where a set, and an open about to leave what it has, come from.
LEMMA CallersStart ==
  ASSUME Types, CallsFit, [Next]_vars, NEW c \in Calls
  PROVE  /\ call'[c].op \in Sets /\ call'[c].at \in {"begun", "prepared", "left", "armed"} =>
              \/ Asks(c) /\ call'[c].on = live /\ live' = live
              \/ call[c].op \in Sets /\ call[c].at \in {"begun", "prepared", "left", "armed"}
                   /\ call'[c].on = call[c].on
         /\ Leaves(c)' =>
              \/ Leaves(c)
              \/ changing' = {}
              \/ live = None /\ changing' = changing
<1>t. call \in [Calls -> Record] /\ call[c] \in Record
  BY DEF Types, CallsTyped
<1> DEFINE P == /\ call'[c].op \in Sets /\ call'[c].at \in {"begun", "prepared", "left", "armed"} =>
                     \/ Asks(c) /\ call'[c].on = live /\ live' = live
                     \/ call[c].op \in Sets /\ call[c].at \in {"begun", "prepared", "left", "armed"}
                          /\ call'[c].on = call[c].on
                /\ Leaves(c)' =>
                     \/ Leaves(c)
                     \/ changing' = {}
                     \/ live = None /\ changing' = changing
<1>1. ASSUME call'[c].op = call[c].op, call'[c].at = call[c].at, call'[c].on = call[c].on PROVE P
  BY <1>1 DEF Leaves
<1>2. ASSUME Asks(c) PROVE P
  <2>1. PICK r \in Record : /\ call' = [call EXCEPT ![c] = r]
                            /\ r.at = "leaving" => r.op = "new" /\ live # None
                            /\ r.op \in Sets => r.on = live
                            /\ r.at \in {"leaving", "failed", "begun"}
                            /\ r.op = "new" /\ live # None => r.at = "leaving"
    <3>1. PICK op, on, ask : Begin(c, op, on, ask)
      BY <1>2 DEF Asks
    <3>2. call'[c].op = "new" /\ live # None => call'[c].at = "leaving"
      BY <1>t, <3>1 DEF Begin
    <3> QED BY <1>2, <1>t, <3>2, AsksMakes
  <2>2. call'[c] = r
    BY <1>t, <2>1
  <2>3. live' = live /\ changing' = changing
    BY <1>2 DEF Asks, Begin, slots
  <2> QED BY <1>2, <2>1, <2>2, <2>3 DEF Leaves, Restores
<1>3. ASSUME Prepare(c) \/ Send(c) PROVE P
  <2>1. /\ call'[c].op = call[c].op /\ call'[c].on = call[c].on
        /\ \/ call[c].at = "begun" /\ call'[c].at \in {"prepared", "failed"}
           \/ call[c].at = "armed" /\ call'[c].at = "waiting"
    BY <1>t, <1>3 DEF Prepare, Send, AtStep, Record
  <2> QED BY <2>1 DEF Leaves, Restores
<1>4. ASSUME Register(c) PROVE P
  <2>1. /\ call'[c].op = call[c].op /\ call'[c].on = call[c].on
        /\ call[c].at = "prepared" /\ changing' = changing
        /\ call'[c].at = IF call[c].op \in Restores /\ live # None THEN "leaving" ELSE "left"
    BY <1>t, <1>4 DEF Register, AtStep, Record, slots
  <2> QED BY <2>1 DEF Leaves, Restores
<1>5. ASSUME Leave(c) PROVE P
  <2>1. call'[c].op = call[c].op /\ call[c].at = "leaving" /\ changing' = {} /\ call[c].op \in AnyOp \cup {"none"}
    BY <1>t, <1>5 DEF Leave, Forget, AtStep, Record
  <2>2. call[c].op \in Opens
    BY <2>1 DEF CallsFit, Fits, Made
  <2> QED BY <2>1, <2>2 DEF Opens, Sets, Restores
<1>6. ASSUME Arm(c) PROVE P
  <2>1. /\ call'[c].op = call[c].op /\ call'[c].on = call[c].on
        /\ call[c].at = "left" /\ call'[c].at = "armed"
    BY <1>t, <1>6 DEF Arm, AtStep, Record
  <2> QED BY <2>1 DEF Leaves, Restores
<1>7. ASSUME call'[c].at \notin {"begun", "prepared", "left", "armed"} PROVE P
  BY <1>7 DEF Leaves
<1>8. ASSUME Fail(c) \/ GoLive(c) \/ SetReturns(c) \/ EndReturns(c) \/ Ended(c) \/ ListReturns(c) \/ LoginReturns(c)
      PROVE  call'[c].at \notin {"begun", "prepared", "left", "armed"}
  BY <1>t, <1>8 DEF Fail, GoLive, SetReturns, EndReturns, Ended, ListReturns, LoginReturns, AtStep, Record
<1>9. ASSUME call'[c] = Relisting PROVE P
  BY <1>9 DEF Relisting, Sets, Leaves, Restores
<1>10. ASSUME call'[c] = [call[c] EXCEPT !.at = "done"] PROVE P
  BY <1>7, <1>10, <1>t DEF Record
<1>11. ASSUME Hears(c) \/ call'[c] = [call[c] EXCEPT !.got.how = "gone"] PROVE P
  BY <1>1, <1>11, <1>t DEF Hears, Record
<1>12. ASSUME Moves(c) PROVE P
  BY <1>3, <1>4, <1>5, <1>6, <1>7, <1>8, <1>12 DEF Moves
<1> HIDE DEF P
<1> P
  BY <1>1, <1>2, <1>9, <1>10, <1>11, <1>12, CallsStep DEF CallStep
<1> QED BY DEF P

\* A set under way is of the session followed.
LEMMA SetsFollowLiveKeeps ==
  ASSUME IInv, SetsFollowLive, [Next]_vars
  PROVE  SetsFollowLive'
<1>t. Types /\ CallsFit /\ call \in [Calls -> Record] /\ SlotsStep /\ SlotsTyped /\ SlotsHoldTheirs
  BY SlotsAreArmed DEF IInv, Types, CallsTyped
\* A call between two awaits keeps the others where they are.
<1>r. ASSUME NEW d \in Calls, NEW c \in Calls, c # d, Runs(d)
      PROVE  call[c].at \notin {"begun", "prepared", "left", "armed"}
  BY <1>r DEF Runs, AwaitPoints
<1>a. ASSUME NEW d \in Calls, Arm(d), call[d].op = "mode"
      PROVE  live # None /\ call[d].on = live /\ Runs(d) /\ \A c \in Calls : ~Leaves(c)
  <2>1. call[d].at = "left" /\ Runs(d)
    BY <1>a DEF Arm
  <2>2. call[d].on # None
    BY <1>a, <1>t, <2>1 DEF CallsFit, Fits, Made, Sets
  <2>3. call[d].on = live
    BY <1>a, <2>1 DEF SetsFollowLive, Sets
  <2>4. ~Leaves(d)
    BY <1>a DEF Leaves, Restores
  <2>5. \A c \in Calls : c # d => ~Leaves(c)
    BY <1>r, <2>1 DEF Leaves
  <2> QED BY <2>1, <2>2, <2>3, <2>4, <2>5
<1>c. changing' # {} => changing # {} \/ \E d \in Calls : Arm(d) /\ call[d].op = "mode"
  BY <1>t DEF SlotsStep
<1>v. ASSUME NEW c \in Calls, call[c].op \in Sets, call[c].at \in {"begun", "prepared", "left", "armed"}
      PROVE  live' = live
  <2>1. ASSUME NEW d \in Calls, GoLive(d) \/ Ended(d) PROVE FALSE
    <3>1. Runs(d) /\ d # c
      BY <1>v, <2>1 DEF GoLive, Ended, Ready, Sets, Opens, Restores
    <3> QED BY <1>r, <1>v, <3>1
  <2> QED BY <2>1, LiveMoves DEF LiveStep
<1>1. ASSUME NEW c \in Calls, call'[c].op \in Sets, call'[c].at \in {"begun", "prepared", "left", "armed"}
      PROVE  call'[c].on = live'
  BY <1>1, <1>t, <1>v, CallersStart DEF SetsFollowLive
<1>2. ASSUME live' = None PROVE changing' = {}
  <2>1. CASE live' = live
    <3>1. ASSUME NEW d \in Calls, Arm(d), call[d].op = "mode" PROVE FALSE
      BY <1>2, <1>a, <2>1, <3>1
    <3> QED BY <1>2, <1>c, <2>1, <3>1 DEF SetsFollowLive
  <2> QED BY <1>2, <2>1, LiveMoves DEF LiveStep
<1>3. ASSUME NEW c \in Calls, Leaves(c)' PROVE changing' = {}
  <2>1. CASE Leaves(c)
    <3>1. ASSUME NEW d \in Calls, Arm(d), call[d].op = "mode" PROVE FALSE
      BY <1>a, <2>1, <3>1
    <3> QED BY <1>c, <2>1, <3>1 DEF SetsFollowLive
  <2> QED BY <1>3, <1>t, <2>1, CallersStart DEF SetsFollowLive
<1>4. ASSUME NEW m \in changing' PROVE call'[m.call].on # None
  <2>1. CASE \E p \in changing : p.call = m.call
    <3>1. m.call \in Calls /\ call[m.call].on # None /\ call[m.call].at # "none"
      BY <1>t, <2>1 DEF SetsFollowLive, SlotsTyped, SlotsHoldTheirs, Armed, Away, Over
    <3> QED BY <1>t, <3>1, CallsMove DEF Kept
  <2>2. ASSUME NEW d \in Calls, Arm(d), call[d].op = "mode", m.call = d PROVE call'[m.call].on # None
    <3>1. call[d].on # None /\ call[d].at # "none"
      BY <1>a, <2>2 DEF Arm
    <3> QED BY <1>t, <2>2, <3>1, CallsMove DEF Kept
  <2> QED BY <1>t, <2>1, <2>2 DEF SlotsStep
<1> QED BY <1>1, <1>2, <1>3, <1>4 DEF SetsFollowLive

\* An announcement of a mode, in a session that was opened or is being opened,
\* tells every set waiting for its answer, and clears an acknowledgement on show
\* where it is written.
LEMMA ModesAreHeard ==
  ASSUME Types, ReadUpdate, Head(up).on = openedLast \/ \E o \in opening : o.on = Head(up).on
  PROVE  /\ Head(up).kind = "mode" => changing' = {Restated(m) : m \in changing}
         /\ Head(up).kind = "mode" /\ ~OpeningNow(Head(up).on) => settings'.change.how # "acknowledged"
<1>1. Head(up).on # None
  BY ReadsUpdate
<1>2. ~Foreign(Head(up).on)
  BY <1>1 DEF Foreign, Known
<1>3. Head(up).kind = "mode" => changing' = {Restated(m) : m \in changing}
  BY <1>2 DEF ReadUpdate
<1>4. ASSUME Head(up).kind = "mode", ~OpeningNow(Head(up).on) PROVE settings'.change.how # "acknowledged"
  <2>1. settings' = NowIn(settings, Head(up).says)
    BY <1>2, <1>4 DEF ReadUpdate
  <2> QED BY <1>4, <2>1, ReadsUpdate, NowInTyped DEF Types, StoresTyped
<1> QED BY <1>3, <1>4

\* A set newly heard of is of the session the announcement is of.
LEMMA SetsHeard ==
  ASSUME Types, SlotsHoldTheirs, [Next]_vars, NEW e \in Calls, call[e].op = "mode", e \in heardIn', e \notin heardIn
  PROVE  /\ ReadUpdate /\ Head(up).kind = "mode" /\ ~OpeningNow(Head(up).on) /\ Head(up).on = call[e].on
         /\ Head(up).on # None
<1>1. ReadUpdate /\ e \in HeardBy(Head(up))
  BY HeardGrows
<1>2. \A l \in loading : l.call # e
  BY DEF SlotsHoldTheirs
<1>3. Head(up).kind = "mode" /\ ~OpeningNow(Head(up).on) /\ Head(up).on = call[e].on
  BY <1>1, <1>2 DEF HeardBy
<1> QED BY <1>1, <1>3, ReadsUpdate

\* A set whose answer came before a restatement is restated.
LEMMA HeardSetsKeep ==
  ASSUME NInv, UnusedSessions, SettingsFollow, SetsFollowLive, HeardSetsAreRestated, [Next]_vars
  PROVE  HeardSetsAreRestated'
<1>t. /\ Types /\ CallsFit /\ SlotsHoldTheirs /\ HeardAreArmed /\ SlotsTyped /\ call \in [Calls -> Record]
      /\ SlotsStep /\ SettingsStep /\ IInv /\ AnsweredOnce /\ Awaited
  BY SlotsAreArmed, SettingsKeep DEF NInv, IInv, Types, CallsTyped
\* A set armed now was not heard of yet.
<1>a. ASSUME NEW d \in Calls, Arm(d) PROVE d \notin heardIn' /\ (call[d].op \in Opens => changing = {})
  <2>1. call[d].at = "left" /\ heardIn' = heardIn
    BY <1>a DEF Arm
  <2>2. call[d].op \in Opens => Leaves(d)
    BY <2>1 DEF Leaves, Opens
  <2> QED BY <1>t, <2>1, <2>2 DEF HeardAreArmed, Armed, Away, Over, SetsFollowLive
<1>m. ASSUME NEW p \in changing
      PROVE  /\ p.call \in Calls /\ call[p.call].op = "mode" /\ call'[p.call].on = call[p.call].on
             /\ call[p.call].on # None
  <2>1. p.call \in Calls /\ call[p.call].op = "mode" /\ call[p.call].at # "none" /\ call[p.call].on # None
    BY <1>t DEF SetsFollowLive, SlotsTyped, SlotsHoldTheirs, Armed, Away, Over
  <2> QED BY <1>t, <2>1, CallsMove DEF Kept
<1>1. ASSUME NEW m \in changing', m.call \in heardIn', ~m.restated PROVE call'[m.call].on # settings'.of
  <2>1. PICK p \in changing : p.call = m.call /\ ~p.restated
    <3>1. ASSUME NEW d \in Calls, Arm(d), m.call = d PROVE FALSE
      BY <1>1, <1>a, <3>1
    <3> QED BY <1>1, <1>t, <3>1 DEF SlotsStep
  <2> DEFINE e == p.call
  <2>2. CASE e \notin heardIn
    <3>1. /\ ReadUpdate /\ Head(up).kind = "mode" /\ Head(up).on = call[e].on
      BY <1>1, <1>m, <1>t, <2>1, <2>2, SetsHeard
    <3>2. Head(up).on # openedLast
      <4>1. \A q \in changing : Restated(q).restated
        BY <1>t DEF Restated, SlotsTyped
      <4> QED BY <1>1, <1>t, <3>1, <4>1, ModesAreHeard
    <3>3. settings'.of \in {None, settings.of}
      BY <1>t, <3>1 DEF SettingsStep, ReadUpdate, ReadAnswer, Heads, Updates
    <3> QED BY <1>m, <2>1, <3>1, <3>2, <3>3 DEF SettingsFollow
  <2>3. CASE e \in heardIn
    <3>1. call[e].on # settings.of
      BY <2>1, <2>3 DEF HeardSetsAreRestated
    <3>2. CASE settings'.of \in {None, settings.of}
      BY <1>m, <2>1, <3>1, <3>2
    <3>3. CASE settings'.of \notin {None, settings.of}
      <4>1. ReadAnswer /\ Opened(Head(up).call, Head(up).reply)
        BY <1>t, <3>3 DEF SettingsStep
      <4>2. PICK c \in Calls : c = Head(up).call
        BY <1>t, <4>1, ReadsAnswer
      <4>3. /\ settings'.of = OpenedBy(c)' /\ call'[c].op = call[c].op /\ Opener(c)
            /\ \E slot \in opening : slot.call = c
        BY <1>t, <3>3, <4>1, <4>2, OpenReturns
      <4>4. call'[c].on = call[c].on
        BY <1>t, <4>3, CallsMove DEF Opener, Kept
      <4>5. CASE call[c].op = "new"
        <5>1. up # <<>> /\ Head(up) = up[1] /\ 1 \in DOMAIN up /\ Head(up).kind = "answer"
          BY <1>t, <4>1, HeadIsOne DEF ReadAnswer, Heads, Types, WireTyped
        <5>2. IsAnswer(1) /\ up[1].on = up[1].reply.on
          BY <5>1 DEF IsAnswer, AnsweredOnce, NInv
        <5>3. call'[c].got.on = up[1].on \/ call'[c].got.on = None
          <6>1. call' = [call EXCEPT ![c].got = IF c \in pending THEN Handed(Head(up).reply) ELSE @]
            BY <1>t, <4>1, <4>2, ReadsAnswer
          <6>2. c \in pending
            BY <4>2, <5>1, <5>2, <1>t DEF AnsweredOnce, Answering, IsAnswer
          <6>3. call'[c].got = Handed(Head(up).reply)
            BY <1>t, <6>1, <6>2 DEF Record
          <6> QED BY <1>t, <4>1, <5>1, <5>2, <6>3, ReadsAnswer DEF Handed, Unheard
        <5>4. settings'.of = up[1].on
          BY <3>3, <4>3, <4>5, <5>3 DEF OpenedBy
        <5>5. ~Uses(up[1].on)
          BY <3>3, <4>2, <4>5, <5>1, <5>2, <5>4 DEF UnusedSessions
        <5> QED BY <1>m, <2>1, <5>4, <5>5 DEF Uses, Sets
      <4>6. CASE call[c].op # "new"
        <5>1. PICK slot \in opening : slot.call = c
          BY <4>3
        <5>2. settings'.of = slot.on
          BY <1>t, <4>3, <4>4, <4>6, <5>1 DEF OpenedBy, SlotsHoldTheirs
        <5> QED BY <1>m, <2>1, <2>3, <5>1, <5>2 DEF HeardSetsAreRestated
      <4> QED BY <4>5, <4>6
    <3> QED BY <3>2, <3>3
  <2> QED BY <2>2, <2>3
<1>2. ASSUME NEW m \in changing', NEW o \in opening', call'[m.call].on = o.on, m.call \in heardIn'
      PROVE  m.restated
  <2>1. PICK p \in changing : p.call = m.call /\ (p.restated => m.restated)
    <3>1. ASSUME NEW d \in Calls, Arm(d), m.call = d PROVE FALSE
      BY <1>2, <1>a, <3>1
    <3> QED BY <1>2, <1>t, <3>1 DEF SlotsStep
  <2>2. PICK q \in opening : q.on = o.on
    <3>1. ASSUME NEW d \in Calls, Arm(d), call[d].op \in Opens PROVE FALSE
      BY <1>a, <2>1, <3>1
    <3> QED BY <1>2, <1>t, <3>1 DEF SlotsStep
  <2>3. call[p.call].on = q.on
    BY <1>2, <1>m, <2>1, <2>2
  <2>4. CASE p.call \in heardIn
    BY <2>1, <2>3, <2>4 DEF HeardSetsAreRestated
  <2>5. CASE p.call \notin heardIn
    <3>1. ReadUpdate /\ Head(up).kind = "mode" /\ Head(up).on = call[p.call].on
      BY <1>2, <1>m, <1>t, <2>1, <2>5, SetsHeard
    <3>2. changing' = {Restated(n) : n \in changing}
      BY <1>t, <2>3, <3>1, ModesAreHeard
    <3>3. \A n \in changing : Restated(n).restated
      BY <1>t DEF Restated, SlotsTyped
    <3> QED BY <1>2, <3>2, <3>3
  <2> QED BY <2>4, <2>5
<1> QED BY <1>1, <1>2 DEF HeardSetsAreRestated

\* What a step acknowledges: what was on show, or a set whose answer came ahead
\* of any announcement.
LEMMA ShownMoves ==
  ASSUME Types, SlotsHoldTheirs, [Next]_vars, settings'.change.how = "acknowledged"
  PROVE  \/ settings'.change = settings.change /\ settings'.of = settings.of
         \/ /\ ReadAnswer /\ heardIn' = heardIn /\ settings'.of = settings.of
            /\ \E slot \in changing : ~slot.restated /\ Shown' = slot.call
<1>1. CASE settings'.change = settings.change /\ settings'.of = settings.of
  BY <1>1
<1>2. CASE ReadAnswer /\ ChangedMode(Head(up).call, Head(up).reply)
  <2> DEFINE c == Head(up).call
  <2>1. c \in Calls /\ settings \in SettingsType /\ SlotsTyped
    BY <1>2, ReadsAnswer DEF Types, StoresTyped
  <2>2. PICK slot \in changing :
          /\ slot.call = c
          /\ \/ settings' = settings
             \/ ~slot.restated /\ settings' = [settings EXCEPT !.change = [how |-> "acknowledged", by |-> c]]
             \/ settings' = SetRefused(settings, c)
    BY <1>2, <2>1 DEF ChangedMode, SlotsTyped
  <2>3. CASE settings' = settings
    BY <2>3
  <2>4. CASE settings' = SetRefused(settings, c)
    <3>1. /\ settings'.of = settings.of
          /\ settings'.change \in {settings.change, [how |-> "refused", by |-> c]}
      BY <2>1, <2>4, SetRefusedTyped
    <3> QED BY <3>1
  <2>5. CASE ~slot.restated /\ settings' = [settings EXCEPT !.change = [how |-> "acknowledged", by |-> c]]
    <3>1. settings'.of = settings.of /\ Shown' = c
      BY <2>1, <2>5 DEF Shown, SettingsType
    <3>2. heardIn' = heardIn
      BY <1>2 DEF ReadAnswer
    <3>3. \E p \in changing : ~p.restated /\ Shown' = p.call
      BY <2>2, <2>5, <3>1
    <3> QED BY <1>2, <3>1, <3>2, <3>3
  <2> QED BY <2>2, <2>3, <2>4, <2>5
<1> QED BY <1>1, <1>2, SettingsKeep DEF SettingsStep

\* The acknowledgement shown is a set's own, after every step.
LEMMA ShownKeeps ==
  ASSUME IInv, ShownIsASet, [Next]_vars
  PROVE  ShownIsASet'
<1>t. Types /\ CallsFit /\ SlotsHoldTheirs /\ SlotsTyped
  BY DEF IInv, Types
<1> SUFFICES ASSUME settings'.change.how = "acknowledged"
             PROVE  Shown' \in Calls /\ call'[Shown'].op = "mode" /\ Armed(Shown)'
  BY DEF ShownIsASet
<1>1. PICK c \in Calls : Shown' = c /\ call[c].op = "mode" /\ Armed(c)
  <2>1. CASE settings'.change = settings.change
    BY <2>1 DEF ShownIsASet, Shown
  <2>2. CASE \E slot \in changing : Shown' = slot.call
    BY <1>t, <2>2 DEF SlotsHoldTheirs, SlotsTyped
  <2> QED BY <1>t, <2>1, <2>2, ShownMoves
<1>2. call'[c].op = "mode" /\ Armed(c)'
  BY <1>1, <1>t, CallsMove, CallsAdvance DEF Kept, Armed, Away, Over
<1> QED BY <1>1, <1>2 DEF Armed, Away, Over

\* A restatement heard before a set's answer stands, after every step.
LEMMA RestatementKeeps ==
  ASSUME IInv, SettingsFollow, HeardSetsAreRestated, ShownIsASet, RestatementStands, [Next]_vars
  PROVE  RestatementStands'
<1>t. Types /\ CallsFit /\ SlotsHoldTheirs /\ SlotsTyped
  BY DEF IInv, Types
<1> SUFFICES ASSUME settings'.change.how = "acknowledged", call'[Shown'].on = settings'.of, Shown' \in heardIn'
             PROVE  FALSE
  BY DEF RestatementStands
<1>k. ASSUME NEW c \in Calls, Armed(c) PROVE call'[c].on = call[c].on
  BY <1>t, <1>k, CallsMove DEF Kept, Armed, Away, Over
<1>1. CASE settings'.change = settings.change /\ settings'.of = settings.of
  <2>1. PICK c \in Calls : c = Shown /\ Shown' = c /\ call[c].op = "mode" /\ Armed(c)
    BY <1>1 DEF ShownIsASet, Shown
  <2>2. call[c].on = settings.of
    BY <1>1, <1>k, <2>1
  <2>3. c \notin heardIn
    BY <1>1, <2>1, <2>2 DEF RestatementStands
  <2>4. ReadUpdate /\ Head(up).kind = "mode" /\ ~OpeningNow(Head(up).on) /\ Head(up).on = call[c].on
        /\ Head(up).on # None
    BY <1>t, <2>1, <2>3, SetsHeard
  <2>5. Head(up).on = openedLast
    BY <2>2, <2>4 DEF SettingsFollow
  <2> QED BY <1>t, <2>4, <2>5, ModesAreHeard
<1>2. ASSUME heardIn' = heardIn, settings'.of = settings.of, NEW slot \in changing, ~slot.restated, Shown' = slot.call
      PROVE  FALSE
  <2>1. slot.call \in Calls /\ Armed(slot.call)
    BY <1>t DEF SlotsHoldTheirs, SlotsTyped
  <2> QED BY <1>2, <1>k, <2>1 DEF HeardSetsAreRestated
<1> QED BY <1>1, <1>2, <1>t, ShownMoves

\* What the settings need is there at the start and kept by every step.
LEMMA JInvHolds ==
  ASSUME ~Overlap
  PROVE  /\ Init => JInv
         /\ JInv /\ [Next]_vars => JInv'
<1>1. Init => JInv
  <2> SUFFICES ASSUME Init PROVE JInv
    OBVIOUS
  <2>1. NInv
    BY NInvHolds
  <2>2. /\ \A c \in Calls : call[c] = Fresh
        /\ live = None /\ up = <<>> /\ opening = {} /\ changing = {} /\ settings = Empty
    BY DEF Init
  <2>3. Fresh.at = "none" /\ Empty.of = None /\ Empty.change.how = "none"
    BY DEF Fresh, Empty
  <2>4. LiveIsMinted /\ UnusedSessions /\ SettingsFollow
    BY <2>2, <2>3 DEF LiveIsMinted, UnusedSessions, SettingsFollow, Returns
  <2>5. SetsFollowLive /\ HeardSetsAreRestated /\ ShownIsASet /\ RestatementStands
    BY <2>2, <2>3 DEF SetsFollowLive, Leaves, HeardSetsAreRestated, ShownIsASet, RestatementStands
  <2> QED BY <2>1, <2>4, <2>5 DEF JInv
<1>2. JInv /\ [Next]_vars => JInv'
  <2> SUFFICES ASSUME JInv, [Next]_vars PROVE JInv'
    OBVIOUS
  <2> USE DEF JInv
  <2>1. IInv /\ OneOpen /\ AnsweredOnce /\ Awaited
    BY DEF NInv
  <2>2. NInv'
    BY NInvHolds
  <2>3. LiveIsMinted' /\ UnusedSessions' /\ SettingsFollow'
    BY <2>1, LiveIsMintedKeeps, UnusedKeeps, SettingsFollowKeeps
  <2>4. SetsFollowLive' /\ HeardSetsAreRestated'
    BY <2>1, SetsFollowLiveKeeps, HeardSetsKeep
  <2>5. ShownIsASet' /\ RestatementStands'
    BY <2>1, ShownKeeps, RestatementKeeps
  <2> QED BY <2>2, <2>3, <2>4, <2>5
<1> QED BY <1>1, <1>2

\* Every variable keeps to its type: each slot holds one call at most.
LEMMA TypesAreOK ==
  ASSUME IInv
  PROVE  TypeOK
<1>1. Types /\ OneEach /\ Ledgers
  BY DEF IInv
<1>2. ASSUME NEW S, AtMostOne(S) PROVE Cardinality(S) <= 1
  <2>1. CASE S = {}
    BY <2>1, FS_EmptySet
  <2>2. CASE S # {}
    <3>1. PICK x \in S : S = {x}
      BY <1>2, <2>2 DEF AtMostOne
    <3>2. Cardinality({x}) = 1
      BY FS_Singleton
    <3> QED BY <3>1, <3>2
  <2> QED BY <2>1, <2>2
<1>3. \A size \in {Cardinality(opening), Cardinality(loading), Cardinality(changing), Cardinality(setting)} : size <= 1
  <2>1. Cardinality(opening) <= 1 /\ Cardinality(loading) <= 1
    BY <1>1, <1>2, Zenon DEF OneEach
  <2>2. Cardinality(changing) <= 1 /\ Cardinality(setting) <= 1
    BY <1>1, <1>2, Zenon DEF OneEach
  <2> QED BY <2>1, <2>2
<1>4. \A c \in Calls : told[c] \in 0..2
  BY <1>1 DEF Ledgers, Ledger, Types, CallsTyped
<1>5. told \in [Calls -> 0..2]
  BY <1>1, <1>4 DEF Types, CallsTyped
<1>6. /\ live \in Sessions \cup {None} /\ openedLast \in Sessions \cup {None}
      /\ settings.of \in Sessions \cup {None}
      /\ settings.modes \in Modes \cup {None} /\ settings.unoffered \in Modes \cup {None}
      /\ settings.opts \in Options \cup {None} /\ settings.refusal \in 0..MaxCalls
      /\ settings.change \in [how : {"none", "acknowledged", "refused"}, by : 0..MaxCalls]
      /\ listing.pages \in Seq(1..Pages) /\ listing.next \in 0..Pages
  BY <1>1 DEF Types, StoresTyped, SettingsType, Session0, Mode0, Option0
<1>7. /\ \A slot \in opening : slot.call \in Calls /\ slot.stated \in Modes \cup {None}
      /\ \A slot \in loading : slot.call \in Calls /\ slot.replayed \in BOOLEAN
      /\ \A slot \in changing : slot.call \in Calls /\ slot.restated \in BOOLEAN
      /\ setting \subseteq Calls
  BY <1>1 DEF Types, SlotsTyped, Mode0
<1>8. \A c \in Calls : call[c].at \in Steps /\ call[c].caps \subseteq Capabilities
  BY <1>1 DEF Types, CallsTyped, Record
<1> QED BY <1>1, <1>3, <1>5, <1>6, <1>7, <1>8 DEF TypeOK, Types, StoresTyped, CallsTyped, WireTyped

\* Where no open overtakes another, the settings on show are the agent's last
\* word on the session they are of: a mode is acknowledged only until the agent
\* names the session's mode, whichever of answer and announcement comes first,
\* and with nothing in flight they are the live session's (`opened`,
\* `changed_mode`, `now_in`; session_settings.rs, settings.rs).
THEOREM SettingsHold ==
  ASSUME ~Overlap
  PROVE  Spec => []SettingsAreTrue
<1>1. JInv => SettingsFollowLive
  <2> SUFFICES ASSUME JInv, AtRest, live # None, settings.of # None PROVE settings.of = live
    BY DEF SettingsFollowLive
  <2>1. \A c \in Calls : ~Returns(c)
    BY DEF AtRest, Made, Returns
  <2> QED BY <2>1 DEF JInv, SettingsFollow
<1>2. JInv => SettingsAreTrue
  BY <1>1, TypesAreOK DEF JInv, NInv, SettingsAreTrue
<1> QED BY <1>2, JInvHolds, PTL DEF Spec
=============================================================================
