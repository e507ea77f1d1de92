------------------------------- MODULE Panel -------------------------------
(***************************************************************************)
(* The Sessions dialog: the live session's row and the listed ones, what   *)
(* each says of its title, the roots each is reopened with, and the pages  *)
(* of the listing (crates/app/src/agent/sessions.rs, agent/roots.rs and    *)
(* agent/mod.rs), over what core keeps: the listing (listing.rs, client/   *)
(* lifecycle.rs `list`), the reports (session_report.rs) and the roots a   *)
(* reopening asks for (roots.rs).                                          *)
(***************************************************************************)
EXTENDS Naturals, Sequences, FiniteSets

CONSTANTS
  Ids,            \* session ids
  Rows,           \* what a listing says of a session: [id, title, roots]
  Restores,       \* the ways in agents advertise: "load", "resume", "none"
  MaxPage,        \* bound: rows on a page
  MaxListed,      \* bound: rows listed at once
  MaxAsks,        \* bound: pages asked for
  MaxUpdates,     \* bound: updates about sessions
  MaxActs         \* bound: presses and edits, pages aside

None == "none"
Cleared == "cleared"
Titles == {"listed", "said"}
RootSets == {"here", "there", None}
Places == {"current", "other"} \X Ids

VARIABLES
  connected, restores,
  listing,     \* the rows, or the word that nothing was listed yet
  next,        \* the cursor of the page the agent has not sent, 0 for none
  asks,        \* the pages asked for: where from, and whether the reader asked
  reports,     \* the title each session's updates stated
  live,
  opening,     \* the session a reopening on its way is for
  fields,      \* the roots control of each row drawn, and whether it was typed into
  asked, updates, acts,     \* bounds
  said,        \* what updates said of a title since the session was last reopened
  last,        \* the page last added to the rows
  sent         \* the last reopening: what its control read and what it asked for

core == <<listing, next, asks, reports, live, opening>>
bounds == <<asked, updates, acts>>
seen == <<said, last, sent>>
vars == <<connected, restores, core, fields, bounds, seen>>

Words == Titles \cup {None, Cleared}

TypeOK ==
  /\ connected \in BOOLEAN /\ restores \in Restores
  /\ listing = None \/ listing \in Seq(Rows)
  /\ next \in 0..MaxAsks
  /\ asks \subseteq [n : 1..MaxAsks, from : 0..MaxAsks, shown : BOOLEAN]
  /\ reports \in [Ids -> Words] /\ said \in [Ids -> Words]
  /\ live \in Ids \cup {None} /\ opening \in Ids \cup {None}
  /\ DOMAIN fields \subseteq Places
  /\ \A p \in DOMAIN fields : fields[p] \in [text : RootSets, typed : BOOLEAN]
  /\ asked \in 0..MaxAsks /\ updates \in 0..MaxUpdates /\ acts \in 0..MaxActs
  /\ last \in 0..MaxAsks

(***************************************************************************)
(* What is drawn.                                                          *)
(***************************************************************************)
Listed == IF listing = None THEN <<>> ELSE listing
Pending == \E ask \in asks : ask.shown

\* A session's description, the first of a listing that holds it twice.
InfoOf(id) ==
  LET at == {i \in DOMAIN Listed : Listed[i].id = id}
  IN IF at = {} THEN <<>> ELSE <<Listed[CHOOSE i \in at : \A j \in at : i <= j]>>

\* While the listing is on its way the live row keeps only its id.
Current == IF Pending THEN <<>> ELSE InfoOf(live)

\* The others, each session once: pages are added as they come, and a session
\* may have moved between them.
Others ==
  {i \in DOMAIN Listed :
     Listed[i].id # live /\ \A j \in 1..(i - 1) : Listed[j].id # Listed[i].id}

\* The rows: where each stands, and its description if there is one.
Drawn ==
  (IF live = None THEN {} ELSE {[place |-> "current", id |-> live, info |-> Current]})
  \cup (IF Pending THEN {}
        ELSE {[place |-> "other", id |-> Listed[i].id, info |-> <<Listed[i]>>] : i \in Others})

\* What stands in for the other rows, or above them.
Status ==
  IF Pending THEN "loading"
  ELSE IF listing = None THEN "may be asked"
  ELSE IF listing = <<>> THEN "no sessions"
  ELSE IF Others = {} THEN "none besides this one"
  ELSE "rows"

\* An update's word outranks the listing's, whichever came later.
Stated(id, info) ==
  IF reports[id] # None THEN [value |-> reports[id], by |-> "update"]
  ELSE IF info # <<>> THEN [value |-> info[1].title, by |-> "listing"]
  ELSE [value |-> None, by |-> "nobody"]

\* The listing's title, where an update outranked it with another one.
Relisted(id, info) ==
  IF /\ info # <<>> /\ Stated(id, info).by = "update"
     /\ Stated(id, info).value # info[1].title
  THEN <<info[1].title>> ELSE <<>>

\* The title in the window's header.
LiveTitle == Stated(live, InfoOf(live))

\* A row keeps its roots control while it stays on the screen; a new row's is
\* filled in with what was reported.
WithControl == {row \in Drawn : row.info # <<>> /\ restores # None}
Redraw ==
  LET now == WithControl'
      row(p) == CHOOSE r \in now : <<r.place, r.id>> = p
  IN fields' = [p \in {<<r.place, r.id>> : r \in now} |->
                  IF p \in DOMAIN fields THEN fields[p]
                  ELSE [text |-> row(p).info[1].roots, typed |-> FALSE]]

Init ==
  /\ connected = TRUE /\ restores \in Restores
  /\ listing = None /\ next = 0 /\ asks = {} /\ reports = [i \in Ids |-> None]
  /\ live \in Ids \cup {None} /\ opening = None /\ fields = << >>
  /\ asked = 0 /\ updates = 0 /\ acts = 0
  /\ said = reports /\ last = 0 /\ sent = <<>>

(***************************************************************************)
(* The listing.                                                            *)
(***************************************************************************)
Asks(from, shown) ==
  /\ asked < MaxAsks /\ asked' = asked + 1
  /\ asks' = asks \cup {[n |-> asked + 1, from |-> from, shown |-> shown]}

\* "List sessions", or "Next page", which hands the cursor back. Both stay
\* usable while an answer is on its way.
List(from) ==
  /\ connected /\ Asks(from, TRUE)
  /\ UNCHANGED <<connected, restores, listing, next, reports, live, opening>>
  /\ UNCHANGED <<updates, acts, seen>> /\ Redraw

\* A fresh listing replaces the rows, a continuation extends them.
Folded(ask, page, more) ==
  /\ listing' = (IF ask.from = 0 THEN <<>> ELSE Listed) \o page
  /\ next' = IF more THEN ask.n ELSE 0

Answered(ask, page, more) ==
  /\ connected /\ ask \in asks /\ asks' = asks \ {ask}
  /\ Len(page) + (IF ask.from = 0 THEN 0 ELSE Len(Listed)) <= MaxListed
  /\ Folded(ask, page, more) /\ last' = ask.n
  /\ UNCHANGED <<connected, restores, reports, live, opening, bounds, said, sent>>
  /\ Redraw

Failed(ask) ==
  /\ ask \in asks /\ asks' = asks \ {ask}
  /\ UNCHANGED <<connected, restores, listing, next, reports, live, opening, bounds, seen>>
  /\ Redraw

(***************************************************************************)
(* Reopening a session.                                                    *)
(***************************************************************************)
\* The roots it asks for: what was reported, unless the control reads otherwise.
Asking(field, info) == IF field.text # info.roots THEN field.text ELSE "reported"

\* The roots the call carries, each under the session's directory.
Crosses(asking, info) == IF asking = "reported" THEN info.roots ELSE asking

\* What was said of it before is not what its replay will say.
Forget(id) == reports' = [reports EXCEPT ![id] = None]

Reopen(row) ==
  /\ connected /\ opening = None /\ row \in WithControl
  /\ acts < MaxActs /\ acts' = acts + 1
  /\ opening' = row.id /\ Forget(row.id) /\ said' = [said EXCEPT ![row.id] = None]
  /\ LET field == fields[<<row.place, row.id>>]
         asking == Asking(field, row.info[1])
     IN sent' = <<[field |-> field, asking |-> asking,
                   crossed |-> Crosses(asking, row.info[1])]>>
  /\ UNCHANGED <<connected, restores, listing, next, asks, live, asked, updates, last>>
  /\ Redraw

Opened ==
  /\ connected /\ opening # None /\ live' = opening /\ opening' = None
  /\ UNCHANGED <<connected, restores, listing, next, asks, reports, bounds, seen>>
  /\ Redraw

OpenFails ==
  /\ opening # None /\ opening' = None
  /\ UNCHANGED <<connected, restores, listing, next, asks, reports, live, fields, bounds, seen>>

\* A `session_info_update` crosses: a field it leaves out stays as it was. What
\* a load replays comes before its answer.
Patched(id, word) == reports' = [reports EXCEPT ![id] = word]
Update(id, word) ==
  /\ connected /\ updates < MaxUpdates /\ updates' = updates + 1
  /\ Patched(id, word) /\ said' = [said EXCEPT ![id] = word]
  /\ UNCHANGED <<connected, restores, listing, next, asks, live, opening, fields>>
  /\ UNCHANGED <<asked, acts, last, sent>>

Type(place, text) ==
  /\ place \in DOMAIN fields /\ text # fields[place].text
  /\ acts < MaxActs /\ acts' = acts + 1
  /\ fields' = [fields EXCEPT ![place] = [text |-> text, typed |-> TRUE]]
  /\ UNCHANGED <<connected, restores, core, asked, updates, seen>>

\* A session new to the agent; its updates may come before its answer.
NewSession(id) ==
  /\ connected /\ acts < MaxActs /\ acts' = acts + 1
  /\ id # live /\ InfoOf(id) = <<>> /\ live' = id
  /\ UNCHANGED <<connected, restores, listing, next, asks, reports, opening, asked, updates, seen>>
  /\ Redraw

\* A close or a delete was answered: core asks for the listing again.
Ended(row) ==
  /\ connected /\ row \in Drawn /\ acts < MaxActs /\ acts' = acts + 1
  /\ Asks(0, FALSE) /\ live' = IF live = row.id THEN None ELSE live
  /\ UNCHANGED <<connected, restores, listing, next, reports, opening, updates, seen>>
  /\ Redraw

Leaves ==
  /\ connected /\ connected' = FALSE
  /\ UNCHANGED <<restores, core, fields, bounds, seen>>

\* Another agent: the stores are emptied, and its own ways in are offered.
Connects(how) ==
  /\ ~connected /\ connected' = TRUE /\ restores' = how
  /\ acts < MaxActs /\ acts' = acts + 1
  /\ listing' = None /\ next' = 0 /\ asks' = {} /\ reports' = [i \in Ids |-> None]
  /\ live' = None /\ opening' = None /\ said' = reports' /\ last' = 0 /\ sent' = <<>>
  /\ UNCHANGED <<asked, updates>> /\ Redraw

Pages == UNION {[1..n -> Rows] : n \in 0..MaxPage}

Next ==
  \/ Opened \/ OpenFails \/ Leaves
  \/ \E from \in {0, next} : List(from)
  \/ \E ask \in asks : Failed(ask)
  \/ \E ask \in asks, page \in Pages, more \in BOOLEAN : Answered(ask, page, more)
  \/ \E row \in Drawn : Reopen(row) \/ Ended(row)
  \/ \E id \in Ids : NewSession(id)
  \/ \E id \in Ids, word \in {Cleared, "said"} : Update(id, word)
  \/ \E place \in Places, text \in {"there", None} : Type(place, text)
  \/ \E how \in Restores : Connects(how)

Spec == Init /\ [][Next]_vars

-----------------------------------------------------------------------------
\* A session is on the screen once, as the current one or among the others,
\* however often the pages hold it (sessions.rs `seen`),
\* and what is said in the others' place is so.
EachSessionOnce ==
  /\ \A r, s \in Drawn : r.id = s.id => r = s
  /\ (Status = "rows") = (\E row \in Drawn : row.place = "other")
  /\ Status = "none besides this one" => \A i \in DOMAIN Listed : Listed[i].id = live

\* What a row says an update stated is what updates stated since the last call
\* reopening that session went out: what its replay said before the answer is
\* there when it goes live, and what was said before the call is not
\* (lifecycle.rs `forget`, session_report.rs).
TitleIsThisOpenings ==
  \A row \in Drawn :
    Stated(row.id, row.info).by = "update" => Stated(row.id, row.info).value = said[row.id]

\* Where the agent's two words of a title differ the row shows both, and with
\* no listing on its way the header says what the live row does.
BothWordsAreShown ==
  /\ \A row \in Drawn :
       row.info # <<>> =>
         row.info[1].title \in {Stated(row.id, row.info).value}
                               \cup {Relisted(row.id, row.info)[i] :
                                     i \in DOMAIN Relisted(row.id, row.info)}
  /\ live # None /\ ~Pending => LiveTitle = Stated(live, Current)

\* A reopening carries the roots its control read when it was pressed, though
\* the listing was refreshed under it (roots.rs `asking`, core `reopening`).
RootsAreAsShown == \A i \in DOMAIN sent : sent[i].crossed = sent[i].field.text

\* "Next page" asks for the page after the last one added.
CursorIsTheLastPages == next # 0 => next = last

PanelIsSafe ==
  TypeOK /\ EachSessionOnce /\ TitleIsThisOpenings /\ BothWordsAreShown
  /\ RootsAreAsShown /\ CursorIsTheLastPages

\* roots.rs:15-16: "an unchanged control sends `None` so core sends the listing's
\* own roots byte for byte". Not so: a row refreshed with other roots keeps the
\* ones it was filled in with, and sends those as though they were typed.
UntouchedAsksNothing ==
  \A i \in DOMAIN sent : ~sent[i].field.typed => sent[i].asking = "reported"
=============================================================================
