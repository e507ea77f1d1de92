-------------------------------- MODULE Cards --------------------------------
(***************************************************************************)
(* The cards of the Blocking Requests (app permission.rs, elicitation.rs,  *)
(* client_services.rs and their rows in timeline.rs; core permission.rs,   *)
(* elicitation.rs and service.rs): what a card draws of a request that is  *)
(* answered meanwhile, whose answer it says was sent, and whose draft a    *)
(* row holds when the rows before it age out.                              *)
(***************************************************************************)
EXTENDS Naturals, Sequences, FiniteSets, SequencesExt

CONSTANTS
  Asks,        \* the requests of a connection, in order: sequences of
               \* [kind, id, options, page], an option being [id, kind]
               \* (page: a URL's scheme; of a service: "rule" where one matches)
  Policies,    \* permission policies beside "ask": "allow_once", "reject_once"
  MaxPresses,  \* bound: answers pressed
  MaxEdits     \* bound: edits of drafts

VARIABLES
  asked, policy,   \* what the agent asks, and the policy of the session
  arrived, rows,   \* how many it asked, and those whose row the Timeline holds
  up,              \* the connection can be written to
  core,            \* request -> what core holds of it
  claim,           \* request -> the answer on its way, and how far it came
  deciding,        \* request -> where the policy's answer stands
  wire,            \* the answers written, in order: <<request, answer>>
  cards,           \* key -> the card drawn, and the draft in its component
  presses,         \* answers pressed whose tasks have not claimed yet
  pressed, edits   \* bounds

vars == <<asked, policy, arrived, rows, up, core, claim, deciding, wire, cards, presses,
          pressed, edits>>

Requests == 1..Len(asked)
Settled == {"answered", "cancelled", "withdrawn", "abandoned"}

\* An answer: what it says, what with, whose card it was drafted on (0: nobody
\* drafted it), and who chose it.
Answer(say, what, of, by) == [say |-> say, what |-> what, of |-> of, by |-> by]
Unsaid == Answer("none", "none", 0, "nobody")

\* `Standing`: what a request is made with.
Asked == [state |-> "waiting", answer |-> Unsaid, completed |-> FALSE, credit |-> "ask"]

TypeOK ==
  /\ asked \in Asks /\ policy \in Policies \cup {"ask"}
  /\ arrived \in 0..Len(asked) /\ rows \subseteq 1..arrived
  /\ \A n \in Requests :
       /\ core[n].state \in {"waiting", "answering"} \cup Settled
       /\ claim[n].at \in {"none", "claimed", "sent", "failed"}
       /\ deciding[n] \in {"none", "shown", "credited"}
  /\ \A k \in DOMAIN cards : cards[k].of \in Requests

Init ==
  /\ asked \in Asks /\ policy \in Policies \cup {"ask"}
  /\ policy # "ask" => \E n \in Requests : asked[n].kind = "permission"   \* no other has one
  /\ arrived = 0 /\ rows = {} /\ up = TRUE
  /\ core = [n \in Requests |-> Asked]
  /\ claim = [n \in Requests |-> [at |-> "none", answer |-> Unsaid]]
  /\ deciding = [n \in Requests |-> "none"]
  /\ wire = <<>> /\ cards = <<>> /\ presses = <<>>
  /\ pressed = 0 /\ edits = 0

(***************************************************************************)
(* Core: a request is claimed once, written, and settled by what the write *)
(* came to.                                                                *)
(***************************************************************************)
\* `pick`: the first option of the policy's kind, never an `*_always` one.
Picked(options) == {o \in ToSet(options) : o.kind = policy /\
                      \A i \in 1..Len(options) :
                        options[i].kind = policy =>
                          \E j \in 1..i : options[j] = o}

ByPolicy(n) == asked[n].kind = "permission" /\ Picked(asked[n].options) # {}
ByScript(n) == asked[n].kind = "service" /\ asked[n].page = "rule"

\* `permission_requested`, `elicitation_requested`, `service`: the entry first,
\* so that a policy's answer lands on a card that says so.
Arrives ==
  /\ up /\ arrived < Len(asked)
  /\ arrived' = arrived + 1
  /\ rows' = rows \cup {arrived'}
  /\ deciding' = [deciding EXCEPT ![arrived'] =
                   IF ByPolicy(arrived') \/ ByScript(arrived') THEN "shown" ELSE "none"]
  /\ UNCHANGED <<asked, policy, up, core, claim, wire, cards, presses, pressed, edits>>

\* `claim`: the right to answer, where it is there to be taken.
MayClaim(n) == core[n].state = "waiting"

Claimed(n, answer) ==
  /\ core' = [core EXCEPT ![n].state = "answering"]
  /\ claim' = [claim EXCEPT ![n] = [at |-> "claimed", answer |-> answer]]

\* `answer_by_policy`: credited before the answer, and no longer when somebody
\* else has claimed it or nothing could be written.
Credits(n) ==
  /\ deciding[n] = "shown" /\ asked[n].kind = "permission"
  /\ deciding' = [deciding EXCEPT ![n] = "credited"]
  /\ core' = [core EXCEPT ![n].credit = policy]
  /\ UNCHANGED <<asked, policy, arrived, rows, up, claim, wire, cards, presses, pressed, edits>>

PolicyAnswers(n) ==
  /\ deciding[n] = "credited"
  /\ deciding' = [deciding EXCEPT ![n] = "none"]
  /\ IF MayClaim(n)
     THEN \E o \in Picked(asked[n].options) :
            Claimed(n, Answer("select", o.id, 0, "policy"))
     ELSE core' = [core EXCEPT ![n].credit = "ask"] /\ UNCHANGED claim
  /\ UNCHANGED <<asked, policy, arrived, rows, up, wire, cards, presses, pressed, edits>>

\* A rule's answer (`service`), to a request whose card is there already.
ScriptAnswers(n) ==
  /\ deciding[n] = "shown" /\ asked[n].kind = "service"
  /\ deciding' = [deciding EXCEPT ![n] = "none"]
  /\ IF MayClaim(n) THEN Claimed(n, Answer("result", "rule", 0, "script"))
     ELSE UNCHANGED <<core, claim>>
  /\ UNCHANGED <<asked, policy, arrived, rows, up, wire, cards, presses, pressed, edits>>

\* The task of a press: `select`, `accept`, `decline`, `cancel`, `respond` or
\* `refuse`.  A second answer finds nothing to claim and is dropped.
PressClaims(i) ==
  LET n == presses[i][1]
  IN  /\ presses' = RemoveAt(presses, i)
      /\ IF MayClaim(n) THEN Claimed(n, presses[i][2]) ELSE UNCHANGED <<core, claim>>
      /\ UNCHANGED <<asked, policy, arrived, rows, up, deciding, wire, cards, pressed, edits>>

\* The turn is cancelled or the session left; the agent takes its question back.
Overtaken(n, say) ==
  /\ n <= arrived /\ up /\ MayClaim(n)
  /\ Claimed(n, Answer(say, "none", 0, "nobody"))
  /\ UNCHANGED <<asked, policy, arrived, rows, up, deciding, wire, cards, presses, pressed, edits>>

\* `respond_to`, `refuse`: a write that fails means the connection is gone.
Writes(n) ==
  /\ claim[n].at = "claimed"
  /\ wire' = IF up THEN Append(wire, <<n, claim[n].answer>>) ELSE wire
  /\ claim' = [claim EXCEPT ![n].at = IF up THEN "sent" ELSE "failed"]
  /\ UNCHANGED <<asked, policy, arrived, rows, up, core, deciding, cards, presses, pressed, edits>>

\* What a request is when its answer was written, and when it was not.
Standing(n) ==
  IF claim[n].at = "failed" THEN "abandoned"
  ELSE IF claim[n].answer.say = "withdrawn" THEN "withdrawn"
  ELSE IF claim[n].answer.say = "cancelled" /\ asked[n].kind = "service" THEN "cancelled"
  ELSE "answered"

Settles(n) ==
  /\ claim[n].at \in {"sent", "failed"}
  /\ core' = [core EXCEPT ![n].state = Standing(n),
                          ![n].answer = IF Standing(n) = "answered" THEN claim[n].answer ELSE @,
                          ![n].credit = IF claim[n].at = "failed"
                                           /\ claim[n].answer.by = "policy" THEN "ask" ELSE @]
  /\ claim' = [claim EXCEPT ![n].at = "none"]
  /\ UNCHANGED <<asked, policy, arrived, rows, up, deciding, wire, cards, presses, pressed, edits>>

\* `abandoned`: an answer on its way is left for the wire to decide.
Abandoned(n) ==
  /\ n <= arrived /\ MayClaim(n)
  /\ core' = [core EXCEPT ![n].state = "abandoned"]
  /\ UNCHANGED <<asked, policy, arrived, rows, up, claim, deciding, wire, cards, presses,
                 pressed, edits>>

\* `outstanding`, `completed`: the agent says that a visit is over.
Completes(n) ==
  /\ n <= arrived /\ up /\ asked[n].kind = "url" /\ ~core[n].completed
  /\ core[n].state # "abandoned" /\ core[n].answer.say \notin {"decline", "cancel", "cancelled"}
  /\ core' = [core EXCEPT ![n].completed = TRUE]
  /\ UNCHANGED <<asked, policy, arrived, rows, up, claim, deciding, wire, cards, presses,
                 pressed, edits>>

Ends ==
  /\ up /\ up' = FALSE
  /\ UNCHANGED <<asked, policy, arrived, rows, core, claim, deciding, wire, cards, presses,
                 pressed, edits>>

\* `retain`, `retention_pinned`: the oldest row ages out that no answer is owed.
Pinned(n) == core[n].state \in {"waiting", "answering"}

Ages ==
  /\ \E n \in rows :
       /\ ~Pinned(n) /\ \A m \in rows : m < n => Pinned(m)
       /\ rows' = rows \ {n}
  /\ UNCHANGED <<asked, policy, arrived, up, core, claim, deciding, wire, cards, presses,
                 pressed, edits>>

(***************************************************************************)
(* The window: a row is known by its request's id, repeats told apart by   *)
(* their occurrence (`named`, `keys::distinct`).                           *)
(***************************************************************************)
Key(n) ==
  LET same(m) == m < n /\ asked[m].kind = asked[n].kind /\ asked[m].id = asked[n].id
  IN  <<asked[n].kind, asked[n].id, Cardinality({m \in rows : same(m)})>>

\* What a form, `Answering::new`, or an editor, `Editor`, starts from: the
\* request's own schema, or the skeleton of its method.
Fresh(n) == [made |-> n, mode |-> "result", text |-> "own", code |-> "own", problem |-> FALSE]

\* A component lives as long as its key does; an editor only while it waits.
Draft(k, n) ==
  IF k \in DOMAIN cards /\ asked[cards[k].of].kind = asked[n].kind
     /\ (asked[n].kind = "service" => cards[k].core.state = "waiting")
  THEN cards[k].draft ELSE Fresh(n)

RowOf(k) == CHOOSE n \in rows : Key(n) = k

\* The rows are drawn again: a card draws `state`, `completed` and `by_policy`
\* as they are now.
Redraw ==
  LET keys == {Key(n) : n \in rows}
      drawn == [k \in keys |-> [of |-> RowOf(k), core |-> core[RowOf(k)],
                                draft |-> Draft(k, RowOf(k))]]
  IN  /\ drawn # cards
      /\ cards' = drawn
      /\ UNCHANGED <<asked, policy, arrived, rows, up, core, claim, deciding, wire, presses,
                     pressed, edits>>

\* `available`: the card was drawn as waiting.
Live(k) == cards[k].core.state = "waiting"

\* `choices`: every option as the agent sent it.
Buttons(n) == {Answer("select", o.id, n, "reader") : o \in ToSet(asked[n].options)}

\* `Editor`: the result as it was typed, or an error.
EditorSends(draft) ==
  IF draft.mode = "result" THEN Answer("result", draft.text, draft.made, "reader")
  ELSE Answer("error", draft.code, draft.made, "reader")

\* `Panel`: a form accepts with what its own component holds, a visit with nothing.
Replies(n, draft) ==
  {Answer(say, "none", n, "reader") : say \in {"decline", "cancel"}}
    \cup {IF asked[n].kind = "form" THEN Answer("accept", draft.text, draft.made, "reader")
          ELSE Answer("accept", "none", n, "reader")}

Offers(k) ==
  LET n == cards[k].of
  IN  CASE asked[n].kind = "permission" -> Buttons(n)
        [] asked[n].kind = "service" -> {EditorSends(cards[k].draft)}
        [] OTHER -> Replies(n, cards[k].draft)

\* Text that is no JSON, and a code that is no whole number, are not sent.
Presses(k) ==
  /\ Live(k) /\ pressed < MaxPresses
  /\ \E a \in Offers(k) :
       IF a.what = "broken"
       THEN /\ cards' = [cards EXCEPT ![k].draft.problem = TRUE]
            /\ UNCHANGED presses
       ELSE /\ cards' = [cards EXCEPT ![k].draft.problem = FALSE]
            /\ presses' = Append(presses, <<cards[k].of, a>>)
  /\ pressed' = pressed + 1
  /\ UNCHANGED <<asked, policy, arrived, rows, up, core, claim, deciding, wire, edits>>

\* The editor's fields, and a form's.
Edits(k) ==
  /\ Live(k) /\ edits < MaxEdits /\ asked[cards[k].of].kind \in {"service", "form"}
  /\ \/ \E text \in {"typed", "broken"} :
          /\ cards[k].draft.mode = "result"
          /\ text = "broken" => asked[cards[k].of].kind = "service"
          /\ cards' = [cards EXCEPT ![k].draft.text = text]
     \/ \E code \in {"typed", "broken"} :
          /\ cards[k].draft.mode = "error"
          /\ cards' = [cards EXCEPT ![k].draft.code = code]
     \/ /\ asked[cards[k].of].kind = "service"
        /\ cards' = [cards EXCEPT ![k].draft.mode = IF @ = "result" THEN "error" ELSE "result"]
  /\ edits' = edits + 1
  /\ UNCHANGED <<asked, policy, arrived, rows, up, core, claim, deciding, wire, presses, pressed>>

\* `Destination::of`: a text that parses as anything but a web page is inert.
Web(n) == asked[n].kind = "url" /\ asked[n].page \in {"http", "https"}

\* `target`: a link while the visit can still be consented to, or was and is not over.
Linked(k) ==
  LET drawn == cards[k].core
  IN  /\ Web(cards[k].of)
      /\ \/ drawn.state \in {"waiting", "answering"}
         \/ drawn.state = "answered" /\ drawn.answer.say = "accept" /\ ~drawn.completed

\* `said`, `stands`: where the card says that its request stands.
PermissionSays(drawn) ==
  IF drawn.state = "answered" /\ drawn.answer.say = "cancelled" THEN "turn cancelled"
  ELSE IF drawn.state = "answered" /\ drawn.credit # "ask" THEN "sent by policy"
  ELSE IF drawn.state = "answered" THEN "sent"
  ELSE drawn.state

ServiceSays(drawn) ==
  IF drawn.state = "cancelled" THEN "turn cancelled"
  ELSE IF drawn.state = "answered" /\ drawn.answer.by = "script" THEN "answered by a rule"
  ELSE IF drawn.state = "answered" THEN "sent"
  ELSE drawn.state

ElicitationSays(drawn, url) ==
  IF drawn.state = "answered" /\ drawn.answer.say = "accept" /\ url /\ ~drawn.completed THEN
         "consented"
  ELSE IF drawn.state = "answered" THEN "sent"
  ELSE drawn.state

Says(k) ==
  LET kind == asked[cards[k].of].kind
  IN  CASE kind = "permission" -> PermissionSays(cards[k].core)
        [] kind = "service" -> ServiceSays(cards[k].core)
        [] OTHER -> ElicitationSays(cards[k].core, kind = "url")

\* `picked`: the buttons filled as the option that was sent.
Filled(k) ==
  LET drawn == cards[k].core  options == asked[cards[k].of].options
  IN  {i \in 1..Len(options) : drawn.state = "answered" /\ drawn.answer.say = "select"
                               /\ drawn.answer.what = options[i].id}

Next ==
  \/ Arrives \/ Ends \/ Ages \/ Redraw
  \/ \E n \in Requests :
       \/ Credits(n) \/ PolicyAnswers(n) \/ ScriptAnswers(n) \/ Writes(n) \/ Settles(n)
       \/ Abandoned(n) \/ Completes(n)
       \/ \E say \in {"cancelled", "withdrawn"} : Overtaken(n, say)
  \/ \E i \in 1..Len(presses) : PressClaims(i)
  \/ \E k \in DOMAIN cards : Presses(k) \/ Edits(k)

Spec == Init /\ [][Next]_vars

-----------------------------------------------------------------------------
\* The agent gets one answer to a question however many are racing; a card says
\* what it was and who chose it, and that a question nobody answered is over.
CardsTellTheWire ==
  /\ \A i, j \in 1..Len(wire) : wire[i][1] = wire[j][1] => i = j
  /\ \A k \in DOMAIN cards :
       LET drawn == cards[k].core
           told == {wire[i][2] : i \in {i \in 1..Len(wire) : wire[i][1] = cards[k].of}}
       IN  CASE Says(k) = "abandoned" -> told = {}
             [] Says(k) \in {"turn cancelled", "withdrawn"} -> \E a \in told : a.by = "nobody"
             [] Says(k) = "sent by policy" -> told = {drawn.answer} /\ drawn.credit = policy
             [] Says(k) = "answered by a rule" -> \E a \in told : a.by = "script"
             [] Says(k) \in {"sent", "consented"} ->
                  told = {drawn.answer} /\ drawn.answer.by \in {"reader", "nobody"}
             [] OTHER -> TRUE

\* A policy never gives an answer that outlives its question.
PoliciesAnswerOnce ==
  \A i \in 1..Len(wire) :
    wire[i][2].by = "policy" =>
      \E o \in ToSet(asked[wire[i][1]].options) : o.id = wire[i][2].what /\ o.kind = policy

\* While an agent repeats no id, what answers a request was drafted on its own
\* card, whichever rows aged out before it.
DraftsStayWithTheirRequest ==
  (\A m, n \in 1..arrived : asked[m].kind = asked[n].kind /\ asked[m].id = asked[n].id => m = n)
    => \A i \in 1..Len(wire) : wire[i][2].of \in {0, wire[i][1]}

\* A visit's link goes away only when nobody can consent to it any longer.
LinksCloseForGood ==
  \A k \in DOMAIN cards :
    Web(cards[k].of) /\ ~Linked(k) => core[cards[k].of].state \in Settled

CardsAreSafe ==
  /\ TypeOK
  /\ CardsTellTheWire
  /\ PoliciesAnswerOnce
  /\ DraftsStayWithTheirRequest
  /\ LinksCloseForGood

-----------------------------------------------------------------------------
\* What does not always hold.
\* A draft follows the id: the row it was typed in ages out, and the next row
\* under that id takes over its component, schema and draft.
DraftsStay == \A i \in 1..Len(wire) : wire[i][2].of \in {0, wire[i][1]}

\* The reader's answer is never drawn as the policy's: it may be while the
\* policy finds that it came too late, which wakes nobody (permission.rs:163).
ReaderIsCredited ==
  \A k \in DOMAIN cards : Says(k) = "sent by policy" => cards[k].core.answer.by = "policy"

\* Only the option that was sent is filled (permission.rs:105).
OneIsFilled == \A k \in DOMAIN cards : Cardinality(Filled(k)) <= 1
=============================================================================
