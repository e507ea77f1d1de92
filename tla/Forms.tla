-------------------------------- MODULE Forms --------------------------------
(***************************************************************************)
(* A Blocking Request's card, and what the next launch claims (app         *)
(* elicitation.rs, elicitation_schema.rs, permission.rs,                   *)
(* client_services.rs): the Form and Raw drafts of one answer, the presses *)
(* that race core's state, the rules file that is read aside, and the      *)
(* policy core takes back.                                                 *)
(***************************************************************************)
EXTENDS Integers, Sequences, FiniteSets, SequencesExt

CONSTANTS
  Values,      \* what a form or a text may hold beside nothing: naturals above 0
  Policies,    \* permission policies; Ask is one
  Scripts,     \* rules files
  MaxActs      \* bound: edits, presses and choices

\* Contents: a value; an object without fields; nothing; text that is no object.
Bare == 0
Nothing == -1
Malformed == -2
Ask == "ask"
NoScript == "none"
Form == "form"
Raw == "raw"
Waiting == "waiting"
Answering == "answering"
Answered == "answered"
Over == "over"          \* abandoned, or withdrawn by the agent

VARIABLES
  state, seen,          \* core's state of the request, and the one drawn
  form,                 \* whether it asks for a form, or for a visit to a URL
  engine, ready,        \* the form engine's data, and whether it was bound
  frozen,               \* whether its fields are read-only
  filled, written, shown, \* Answering
  presses,              \* answers on their way to core, in the order pressed
  sent,                 \* the answers the agent got
  hand,                 \* history: what was written by hand since the form changed
  policy, control,      \* core's policy, and the select's
  draft, reading,       \* ClientServices, and the rules files being read
  claimed,              \* what `initialize` claims at the next launch
  acts                  \* bound

card == <<state, seen, form, engine, ready, frozen, filled, written, shown, presses, sent, hand>>
launch == <<draft, reading, claimed>>
vars == <<card, policy, control, launch, acts>>

Content == Values \cup {Bare, Nothing, Malformed}

TypeOK ==
  /\ {state, seen} \subseteq {Waiting, Answering, Answered, Over}
  /\ engine \in Values \cup {Bare} /\ filled \in Values \cup {Bare}
  /\ written \in Content /\ shown \in {Form, Raw}
  /\ {policy, control} \subseteq Policies
  /\ draft \in [services : BOOLEAN, script : Scripts \cup {NoScript}]

Init ==
  /\ state = Waiting /\ seen = Waiting /\ frozen = FALSE
  /\ form \in BOOLEAN
  /\ ready \in IF form THEN BOOLEAN ELSE {FALSE}   \* a schema may not compile
  /\ engine \in IF ready THEN Values \cup {Bare} ELSE {Bare}   \* its defaults
  /\ filled = Bare /\ written = Bare /\ shown = Form
  /\ presses = <<>> /\ sent = <<>> /\ hand = Nothing
  /\ policy = Ask /\ control = Ask
  /\ draft = [services |-> FALSE, script |-> NoScript] /\ reading = {} /\ claimed = draft
  /\ acts = 0

Acts == acts < MaxActs /\ acts' = acts + 1

-----------------------------------------------------------------------------
(***************************************************************************)
(* The panel of an elicitation.                                            *)
(***************************************************************************)
\* `advisory_content`, and the filter of an empty form.
OfForm(data) == IF data = Bare THEN Nothing ELSE data

\* `Answering::content`: what the shown tab would send.
Held == IF shown = Form THEN OfForm(filled) ELSE written

EditForm ==
  /\ Acts /\ ready /\ ~frozen /\ shown = Form
  /\ engine' \in (Values \cup {Bare}) \ {engine} /\ hand' = Nothing
  /\ UNCHANGED <<state, seen, form, ready, frozen, filled, written, shown, presses, sent, policy,
                 control, launch>>

\* A tab: only a changed form replaces what was written.
ChooseTab ==
  /\ Acts /\ form /\ shown' \in {Form, Raw}
  /\ IF ready /\ filled # engine
     THEN filled' = engine /\ written' = engine
     ELSE UNCHANGED <<filled, written>>
  /\ UNCHANGED <<state, seen, form, engine, ready, frozen, presses, sent, hand, policy, control,
                 launch>>

WriteRaw ==
  /\ Acts /\ shown = Raw /\ seen = Waiting
  /\ written' \in Content \ {written} /\ hand' = written'
  /\ UNCHANGED <<state, seen, form, engine, ready, frozen, filled, shown, presses, sent, policy,
                 control, launch>>

Press(reply, content, tab) ==
  /\ presses' = Append(presses, [reply |-> reply, content |-> content, tab |-> tab,
                                 engine |-> engine, written |-> written])
  /\ UNCHANGED <<state, seen, form, engine, ready, frozen, filled, written, shown, sent, hand,
                 policy, control, launch>>

\* Accept: the engine's own data from Form, the text from Raw, or a problem.
Accept ==
  /\ Acts /\ seen = Waiting /\ Held # Malformed
  /\ IF shown = Form /\ form
     THEN ready /\ Press("accept", OfForm(engine), shown)
     ELSE Press("accept", Held, shown)

Refuse == Acts /\ seen = Waiting /\ \E reply \in {"decline", "cancel"} : Press(reply, Nothing, shown)

\* Core takes the first answer to a request that waits; the agent gets it.
Takes ==
  /\ presses # <<>> /\ presses' = Tail(presses)
  /\ IF state = Waiting
     THEN state' = Answering /\ sent' = Append(sent, Head(presses))
     ELSE UNCHANGED <<state, sent>>
  /\ UNCHANGED <<seen, form, engine, ready, frozen, filled, written, shown, hand, policy, control,
                 launch, acts>>

CoreMoves ==
  /\ \/ state = Answering /\ state' \in {Answered, Over}
     \/ state = Waiting /\ state' = Over
  /\ UNCHANGED <<seen, form, engine, ready, frozen, filled, written, shown, presses, sent, hand,
                 policy, control, launch, acts>>

\* The panel is drawn again, and only then are its fields frozen.
Render ==
  /\ seen' = state /\ frozen' = (seen # Waiting)
  /\ <<seen', frozen'>> # <<seen, frozen>>
  /\ UNCHANGED <<state, form, engine, ready, filled, written, shown, presses, sent, hand, policy,
                 control, launch, acts>>

-----------------------------------------------------------------------------
(***************************************************************************)
(* The session's policy, and the services the next launch claims.          *)
(***************************************************************************)
\* Chosen by the reader, or taken back when the session changes.
SetPolicy ==
  /\ \/ Acts /\ policy' \in Policies \ {policy}
     \/ policy # Ask /\ policy' = Ask /\ UNCHANGED acts
  /\ UNCHANGED <<card, control, launch>>

PolicyWatched ==
  /\ control # policy /\ control' = policy
  /\ UNCHANGED <<card, policy, launch, acts>>

\* `change`: core's and the form's are one.
Change(next) == draft' = next /\ claimed' = next

Toggle ==
  /\ Acts /\ Change([draft EXCEPT !.services = ~@])
  /\ UNCHANGED <<card, policy, control, reading>>

RemoveRules ==
  /\ Acts /\ draft.script # NoScript /\ Change([draft EXCEPT !.script = NoScript])
  /\ UNCHANGED <<card, policy, control, reading>>

\* A file is read beside the form, over the values it was chosen with.
ChooseRules ==
  /\ Acts /\ \E script \in Scripts : reading' = reading \cup {[script |-> script, over |-> draft]}
  /\ UNCHANGED <<card, policy, control, draft, claimed>>

ReadRules ==
  /\ \E file \in reading :
       /\ reading' = reading \ {file}
       /\ \/ Change([file.over EXCEPT !.script = file.script])
          \/ UNCHANGED <<draft, claimed>>          \* it cannot be used
  /\ UNCHANGED <<card, policy, control, acts>>

Next ==
  \/ EditForm \/ ChooseTab \/ WriteRaw \/ Accept \/ Refuse \/ Takes \/ CoreMoves \/ Render
  \/ SetPolicy \/ PolicyWatched \/ Toggle \/ RemoveRules \/ ChooseRules \/ ReadRules

Spec == Init /\ [][Next]_vars

-----------------------------------------------------------------------------
(* Only a changed form replaces the Raw draft: switching tabs never erases *)
(* hand-written content (elicitation.rs:47-48).                            *)
HandWrittenIsKept == hand # Nothing => written = hand

(* Accept sends what the shown tab holds: the form as it stands, edits the *)
(* Raw tab has not been told of included, or the text; and never text that *)
(* is no object.                                                           *)
SentIsWhatTheTabHolds ==
  \A press \in Range(presses) \cup Range(sent) :
    press.reply = "accept" =>
      press.content = IF press.tab = Form THEN OfForm(press.engine) ELSE press.written

(* However many presses land before the card is drawn again, the agent     *)
(* gets one answer, and none once the request was over.                    *)
AnsweredOnce == Len(sent) <= 1 /\ (state = Waiting => sent = <<>>)

(* A launch claims what the form says it will.                             *)
ClaimIsTheForms == claimed = draft

FormsAreSafe == TypeOK /\ HandWrittenIsKept /\ SentIsWhatTheTabHolds /\ AnsweredOnce /\ ClaimIsTheForms
=============================================================================
