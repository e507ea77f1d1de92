------------------------------ MODULE Controls ------------------------------
(***************************************************************************)
(* Controls that remember something between a press and what is sent: a    *)
(* session's deletion, confirmed within six seconds (agent/sessions.rs     *)
(* `DeleteSession`), a config option's select (session_settings.rs         *)
(* `ConfigSelect`) and the composer's mode cycle (app/settings.rs          *)
(* `cycle`), while the agent restates what they offer.                     *)
(***************************************************************************)
EXTENDS Naturals, Sequences, FiniteSets

CONSTANTS
  Values,        \* values of a select, and ids of modes
  MaxArmings,    \* bound: times the deletion is armed
  MaxStates,     \* bound: times the agent restates what it offers
  MaxOffered     \* bound: values offered at once

NoValue == "none"
Lists == UNION {[1..n -> Values] : n \in 0..MaxOffered}
Holds(list, v) == \E i \in DOMAIN list : list[i] = v

VARIABLES
  connected,
  armed, arming, timers,    \* DeleteSession: and the timers that sleep
  ended,                    \* the armings the reader ended: confirmed or called off
  offered, current,         \* what the agent states: the values and the one set
  stated,                   \* bound: restatements
  epoch, selected, chosen,  \* the session; the select's own choice, and whose it is
  sent,                     \* the value last sent, and what was offered then
  walked                    \* modes the cycle went through since the last restatement

deletion == <<armed, arming, timers, ended>>
select == <<epoch, selected, chosen, sent>>
vars == <<connected, deletion, offered, current, stated, select, walked>>

TypeOK ==
  /\ connected \in BOOLEAN
  /\ armed \in BOOLEAN /\ arming \in 0..MaxArmings /\ timers \subseteq 1..arming
  /\ ended \subseteq 1..arming
  /\ offered \in Lists /\ current \in Values /\ stated \in 0..MaxStates
  /\ epoch \in 0..MaxStates /\ selected \in Values \cup {NoValue} /\ chosen \in 0..epoch
  /\ walked \in Seq(Values)

First(list) == IF list = <<>> THEN NoValue ELSE list[1]
Initially(list, v) == IF Holds(list, v) THEN v ELSE First(list)

Init ==
  /\ connected = TRUE
  /\ armed = FALSE /\ arming = 0 /\ timers = {} /\ ended = {}
  /\ offered \in Lists /\ current \in Values /\ stated = 0
  /\ epoch = 0 /\ selected = Initially(offered, current) /\ chosen = 0 /\ sent = <<>>
  /\ walked = <<>>

(***************************************************************************)
(* Deleting a session.                                                     *)
(***************************************************************************)
\* The first press arms it, the second sends.
PressDelete ==
  /\ connected
  /\ IF armed
     THEN armed' = FALSE /\ ended' = ended \cup {arming} /\ UNCHANGED <<arming, timers>>
     ELSE /\ arming < MaxArmings /\ armed' = TRUE /\ arming' = arming + 1
          /\ timers' = timers \cup {arming + 1} /\ UNCHANGED ended
  /\ UNCHANGED <<connected, offered, current, stated, select, walked>>

\* `CONFIRM_FOR` is over: an old timer leaves a newer press alone.
Timer(t) ==
  /\ t \in timers /\ timers' = timers \ {t}
  /\ armed' = (armed /\ arming # t)
  /\ UNCHANGED <<connected, arming, ended, offered, current, stated, select, walked>>

\* Cancel, or Escape.
CallOff ==
  /\ armed /\ armed' = FALSE /\ ended' = ended \cup {arming}
  /\ UNCHANGED <<connected, arming, timers, offered, current, stated, select, walked>>

(***************************************************************************)
(* A select of a config option.                                            *)
(***************************************************************************)
\* What is shown: the reader's choice while the agent offers it.
Shown == IF Holds(offered, selected) THEN selected ELSE Initially(offered, current)

Choose(v) ==
  /\ Holds(offered, v) /\ selected' = v /\ chosen' = epoch
  /\ UNCHANGED <<connected, deletion, offered, current, stated, epoch, sent, walked>>

\* *Set*: the current value is worth sending too.
Submit ==
  /\ connected /\ offered # <<>>
  /\ sent' = <<[value |-> Shown, offered |-> offered, of |-> epoch, chosen |-> chosen]>>
  /\ UNCHANGED <<connected, deletion, offered, current, stated, epoch, selected, chosen, walked>>

\* The agent restates its options; another session's select is another one.
Restate(list, v) ==
  /\ stated < MaxStates /\ stated' = stated + 1
  /\ offered' = list /\ current' = v /\ walked' = <<>>
  /\ UNCHANGED <<connected, deletion, select>>

Switch(list, v) ==
  /\ stated < MaxStates /\ stated' = stated + 1
  /\ offered' = list /\ current' = v /\ walked' = <<>>
  /\ epoch' = epoch + 1 /\ selected' = Initially(list, v) /\ chosen' = epoch + 1
  /\ UNCHANGED <<connected, deletion, sent>>

(***************************************************************************)
(* The mode cycle.                                                         *)
(***************************************************************************)
At == IF Holds(offered, current)
      THEN CHOOSE i \in DOMAIN offered : offered[i] = current /\ \A j \in 1..(i - 1) : offered[j] # current
      ELSE 0
Cycled == offered[(At % Len(offered)) + 1]

\* The agent sets what was asked for, or nothing.
Cycle ==
  /\ connected /\ Len(offered) > 1 /\ Len(walked) <= Len(offered)
  /\ current' = Cycled /\ walked' = Append(walked, Cycled)
  /\ UNCHANGED <<connected, deletion, offered, stated, select>>

Leaves ==
  /\ connected' = ~connected /\ stated < MaxStates /\ stated' = stated + 1
  /\ UNCHANGED <<deletion, offered, current, select, walked>>

Next ==
  \/ PressDelete \/ CallOff \/ Submit \/ Cycle \/ Leaves
  \/ \E t \in timers : Timer(t)
  \/ \E v \in Values : Choose(v)
  \/ \E list \in Lists, v \in Values : Restate(list, v) \/ Switch(list, v)

Spec == Init /\ [][Next]_vars

-----------------------------------------------------------------------------
\* A press that arms a deletion has the whole of its own six seconds, whatever
\* was armed and called off before it, and no longer (sessions.rs `arming`).
ArmedHasItsTime == armed <=> arming \in timers \ ended

\* What is set is a value the agent offered for this very session, even when it
\* restated the option, or the session changed, after the reader had chosen.
SetsWhatIsOffered ==
  \A s \in {sent[i] : i \in DOMAIN sent} : Holds(s.offered, s.value) /\ s.chosen = s.of

\* Pressed as often as there are modes, the cycle goes through every one of them
\* and is back, when the agent gave each an id of its own.
CycleReachesAll ==
  LET distinct == \A i, j \in DOMAIN offered : offered[i] = offered[j] => i = j
  IN distinct /\ Len(walked) >= Len(offered) => \A i \in DOMAIN offered : Holds(walked, offered[i])

ControlsAreSafe == TypeOK /\ ArmedHasItsTime /\ SetsWhatIsOffered /\ CycleReachesAll
=============================================================================
