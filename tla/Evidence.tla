------------------------------ MODULE Evidence ------------------------------
(***************************************************************************)
(* The Console's Trace (trace.rs, trace/filter.rs, trace/pairing.rs,       *)
(* page.rs, console.rs): the frames and stderr lines two rings hold, what  *)
(* a reader narrows them to, the page drawn, and the frame the pane under  *)
(* the list reads.  A frame is known by its ordinal, which survives the    *)
(* ring dropping older ones.                                               *)
(***************************************************************************)
EXTENDS Naturals, Sequences, FiniteSets, SequencesExt

CONSTANTS
  Words,         \* texts a frame may hold and the filter box may ask for
  Calls,         \* the calls captured: their method, way and text
  Size,          \* rows on a page
  Held,          \* frames the trace holds
  HeldLines,     \* diagnostic lines the log holds
  MaxFrames,     \* bound: frames captured
  MaxLines,      \* bound: diagnostic lines captured
  MaxActs        \* bound: what the reader does

NoMethod == "none"
NoText == ""
Ordinals == 0..MaxFrames + MaxLines
None == MaxFrames + MaxLines + 1
Optional(S) == S \cup {None}

\* What the filter box asked for.
Query == [method : {"m", NoMethod}, id : Optional(0..MaxFrames - 1), text : Words \cup {NoText}]
Unasked == [method |-> NoMethod, id |-> None, text |-> NoText]

VARIABLES
  log,       \* what was captured: frames, lines, and what dropped of each
  view,      \* the Console's signals
  memo,      \* Index: the text it is for, and the frames it looked at
  acts       \* bound: what the reader did

vars == <<log, view, memo, acts>>

Captured == log.dropped + Len(log.frames)
Lined == log.droppedLines + Len(log.lines)

\* Frame o of the log, where it is still held.
Holds(l, o) == o >= l.dropped /\ o < l.dropped + Len(l.frames)
Frame(l, o) == l.frames[o - l.dropped + 1]
HeldOrdinals(l) == l.dropped..l.dropped + Len(l.frames) - 1

IsAnswer(f) == f.kind = "result"

\* Core's pairing: an answer's frame names the call it answers.
Answers(l, o) == {a \in HeldOrdinals(l) : IsAnswer(Frame(l, a)) /\ Frame(l, a).of = o}
Unanswered(l, o) == Frame(l, o).kind = "call" /\ Answers(l, o) = {}

\* For an answer, the method of the call it answers while that is held.
Answering(l, o) ==
  LET f == Frame(l, o)
  IN IF IsAnswer(f) /\ Holds(l, f.of) THEN Frame(l, f.of).method ELSE NoMethod

Named(l, o) == IF IsAnswer(Frame(l, o)) THEN Answering(l, o) ELSE Frame(l, o).method
IdOf(f, o) == CASE f.kind = "call" -> o [] f.kind = "result" -> f.of [] OTHER -> None

(***************************************************************************)
(* What survives the narrowing.                                            *)
(***************************************************************************)
\* The text search looks at a frame once, and remembers what it saw.
Looked(l, q, m, o) == IF o \in DOMAIN m.saw THEN m.saw[o] ELSE Frame(l, o).word = q.text

Chipped(l, v, o) ==
  /\ Frame(l, o).kind \notin v.hiddenKinds
  /\ Frame(l, o).way \notin v.hiddenWays
  /\ v.pendingOnly => Unanswered(l, o)

Fielded(l, q, o) ==
  /\ q.method # NoMethod => Named(l, o) = q.method
  /\ q.id # None => IdOf(Frame(l, o), o) = q.id

Searched(l, v, o) == Chipped(l, v, o) /\ Fielded(l, v.query, o) /\ v.query.text # NoText

Survives(l, v, m, o) ==
  /\ Chipped(l, v, o) /\ Fielded(l, v.query, o)
  /\ v.query.text # NoText => Looked(l, v.query, m, o)

\* Index::update, before the frames are looked at.
Forgotten(l, q, m) ==
  IF m.text # q.text
  THEN [text |-> q.text, saw |-> <<>>]
  ELSE [m EXCEPT !.saw = [o \in {o \in DOMAIN m.saw : o >= l.dropped} |-> m.saw[o]]]

\* What the index holds once the list is drawn.
Indexed(l, v, m) ==
  LET kept == Forgotten(l, v.query, m)
      seen == {o \in HeldOrdinals(l) : Searched(l, v, o)}
  IN [kept EXCEPT !.saw =
        [o \in DOMAIN kept.saw \cup seen |-> Looked(l, v.query, kept, o)]]

Visible(l, v, m) == SetToSortSeq({o \in HeldOrdinals(l) : Survives(l, v, m, o)}, <)

(***************************************************************************)
(* The rows, in the order they were read, and the key of each: how many    *)
(* frames and lines were captured before it.                               *)
(***************************************************************************)
Stderr(l) == {p \in DOMAIN l.lines : l.lines[p].stderr}

\* The first stderr line not yet drawn when frame f is.
LinesBefore(l, f) ==
  LET later == {p \in Stderr(l) : l.lines[p].at > l.frames[f].at}
  IN IF later = {} THEN Len(l.lines) ELSE Min(later) - 1

FrameKey(l, f) == l.dropped + (f - 1) + l.droppedLines + LinesBefore(l, f)
LineKey(l, p) ==
  l.dropped + Cardinality({f \in DOMAIN l.frames : l.frames[f].at <= l.lines[p].at})
    + l.droppedLines + (p - 1)

\* A stderr line is drawn where no field of the envelope is asked for.
LineShows(l, v, p) ==
  /\ v.query.method = NoMethod /\ v.query.id = None /\ ~v.pendingOnly
  /\ v.query.text = NoText \/ l.lines[p].word = v.query.text

Rows(l, v, m) ==
  LET shown == Visible(l, v, m)
      frameRows == {[at |-> Frame(l, o).at, row |-> "frame", ordinal |-> o,
                     key |-> FrameKey(l, o - l.dropped + 1)] : o \in ToSet(shown)}
      lineRows == {[at |-> l.lines[p].at, row |-> "line", ordinal |-> p,
                    key |-> LineKey(l, p)] : p \in {p \in Stderr(l) : LineShows(l, v, p)}}
  IN IF v.merged
     THEN SetToSortSeq(frameRows \cup lineRows, LAMBDA a, b : a.at < b.at)
     ELSE [i \in DOMAIN shown |->
             [at |-> Frame(l, shown[i]).at, row |-> "frame", ordinal |-> shown[i],
              key |-> shown[i]]]

(***************************************************************************)
(* page.rs: the page starts at the anchor, or is the last.                 *)
(***************************************************************************)
Lesser(a, b) == IF a < b THEN a ELSE b
Minus(a, b) == IF a < b THEN 0 ELSE a - b

\* Rows before the page, and rows up to its end.
Start(rows, anchor) ==
  LET at == {i \in DOMAIN rows : rows[i].key = anchor}
  IN IF Len(rows) <= Size \/ at = {}
     THEN Minus(Len(rows), Size)
     ELSE Lesser(Min(at) - 1, Minus(Len(rows), Size))
End(rows, anchor) == Lesser(Start(rows, anchor) + Size, Len(rows))
Page(rows, anchor) == SubSeq(rows, Start(rows, anchor) + 1, End(rows, anchor))

Drawn == Rows(log, view, memo)
DrawnPage == Page(Drawn, view.anchor)
PageFrames(page) == {page[i].ordinal : i \in {i \in DOMAIN page : page[i].row = "frame"}}
Newest(os) == IF os = {} THEN None ELSE Max(os)

\* The frame the pane reads: the chosen one while it is held, else the
\* newest on the page.
Reading ==
  IF view.selected # None /\ Holds(log, view.selected)
  THEN view.selected
  ELSE Newest(PageFrames(DrawnPage))

\* The list's one Tab stop.
Current ==
  LET on == PageFrames(DrawnPage)
  IN IF view.focused \in on THEN view.focused
     ELSE IF view.selected \in on THEN view.selected
     ELSE Newest(on)

-----------------------------------------------------------------------------
TypeOK ==
  /\ Len(log.frames) <= Held /\ Len(log.lines) <= HeldLines
  /\ Captured <= MaxFrames /\ Lined <= MaxLines
  /\ view.query \in Query
  /\ view.hiddenKinds \subseteq {"call"} /\ view.hiddenWays \subseteq {"in"}
  /\ view.pendingOnly \in BOOLEAN /\ view.merged \in BOOLEAN
  /\ {view.anchor, view.selected, view.focused, view.revealed} \subseteq Optional(Ordinals)
  /\ DOMAIN memo.saw \subseteq HeldOrdinals(log)

Opening ==
  [query |-> Unasked, hiddenKinds |-> {}, hiddenWays |-> {}, pendingOnly |-> FALSE,
   merged |-> FALSE, anchor |-> None, selected |-> None, focused |-> None, revealed |-> None]

Init ==
  /\ log = [frames |-> <<>>, dropped |-> 0, lines |-> <<>>, droppedLines |-> 0]
  /\ view = Opening
  /\ memo = [text |-> NoText, saw |-> <<>>]
  /\ acts = 0

\* Drawing the list is part of every step: it fills the index.
Draws == memo' = Indexed(log', view', memo)

Clock == Captured + Lined + 1

\* The trace records one more frame, and its ring drops the oldest.
Record(f) ==
  LET all == Append(log.frames, f)
      over == Minus(Len(all), Held)
  IN log' = [log EXCEPT !.frames = SubSeq(all, over + 1, Len(all)), !.dropped = @ + over]

Capture ==
  /\ Captured < MaxFrames
  /\ \/ \E call \in Calls :
          Record([kind |-> "call", way |-> call.way, method |-> call.method, of |-> 0,
                  word |-> call.word, at |-> Clock])
     \/ \E o \in HeldOrdinals(log) :
          /\ Unanswered(log, o)
          /\ Record([kind |-> "result", method |-> NoMethod, of |-> o,
                     word |-> Frame(log, o).word,   \* bound: an answer reads as its call
                     way |-> IF Frame(log, o).way = "in" THEN "out" ELSE "in",
                     at |-> Clock])
  /\ UNCHANGED <<view, acts>> /\ Draws

\* A diagnostic line: the agent's stderr, or a remark of the transport.
Line ==
  /\ Lined < MaxLines
  /\ \E stderr \in BOOLEAN, word \in Words :
       LET all == Append(log.lines, [stderr |-> stderr, word |-> word, at |-> Clock])
           over == Minus(Len(all), HeldLines)
       IN log' = [log EXCEPT !.lines = SubSeq(all, over + 1, Len(all)), !.droppedLines = @ + over]
  /\ UNCHANGED <<view, acts>> /\ Draws

\* ClearTrace, confirmed: the frames go and their ordinals do not come back.
Clear ==
  /\ log.frames # <<>>
  /\ log' = [log EXCEPT !.frames = <<>>, !.dropped = Captured]
  /\ UNCHANGED <<view, acts>> /\ Draws

Left == acts < MaxActs
Acts(v) ==
  /\ Left /\ acts' = acts + 1
  /\ view' = v /\ UNCHANGED log /\ Draws

Toggled(set, one) == IF one \in set THEN set \ {one} ELSE set \cup {one}

\* The filter bar is drawn while the tab holds something.
Narrow ==
  /\ log.frames # <<>>
  /\ \/ \E text \in Words \cup {NoText}, method \in {"m", NoMethod} :
          Acts([view EXCEPT !.query = [method |-> method, id |-> None, text |-> text]])
     \/ Acts([view EXCEPT !.hiddenKinds = Toggled(@, "call")])
     \/ Acts([view EXCEPT !.hiddenWays = Toggled(@, "in")])
     \/ Acts([view EXCEPT !.pendingOnly = ~@])
     \/ Acts([view EXCEPT !.merged = ~@])

\* "Only this method" and "Only this id", of the frame the pane reads.
OnlyThis ==
  /\ Left /\ Reading # None
  /\ \/ /\ Named(log, Reading) = "m"
        /\ Acts([view EXCEPT !.query = [Unasked EXCEPT !.method = "m"]])
     \/ Acts([view EXCEPT !.query = [Unasked EXCEPT !.id = IdOf(Frame(log, Reading), Reading)]])

\* A press on a row, or on what a row is reached by with the keyboard.
Choose == Left /\ \E o \in PageFrames(DrawnPage) : Acts([view EXCEPT !.selected = o])
Focus == Left /\ \E o \in PageFrames(DrawnPage) : Acts([view EXCEPT !.focused = o])

\* "Go to request" and "Go to response" (`go`): a page is turned only for a
\* frame this one does not show.
Counterpart(o) ==
  LET f == Frame(log, o)
  IN IF IsAnswer(f) THEN {f.of} ELSE Answers(log, o)
Go ==
  /\ Left /\ Reading # None
  /\ \E o \in Counterpart(Reading) :
       Acts([view EXCEPT !.selected = o,
                         !.anchor = IF o \in PageFrames(DrawnPage) THEN @ ELSE o])

\* The Timeline shows the frames an entry was made of (Navigation::reveal,
\* the Console's effect and the list's own).
Reveal ==
  \E o \in HeldOrdinals(log) :
    /\ view.revealed # o
    /\ Acts([view EXCEPT !.revealed = o, !.query = Unasked, !.hiddenKinds = {},
                         !.hiddenWays = {}, !.selected = o, !.anchor = o])

Older ==
  LET rows == Drawn
      before == Start(rows, view.anchor)
  IN /\ Left /\ Len(rows) > Size /\ before > 0
     /\ Acts([view EXCEPT !.anchor = rows[Minus(before, Size) + 1].key])
Newer ==
  LET rows == Drawn
      upTo == End(rows, view.anchor)
  IN /\ Left /\ Len(rows) > Size /\ upTo < Len(rows)
     /\ Acts([view EXCEPT !.anchor = rows[upTo + 1].key])
Latest == view.anchor # None /\ Acts([view EXCEPT !.anchor = None])

\* The Diagnostics tab and back: the list is mounted again.
Remount ==
  /\ Left /\ acts' = acts + 1
  /\ view' = [view EXCEPT !.anchor = view.revealed, !.focused = None]
  /\ UNCHANGED log
  /\ memo' = Indexed(log, view', [text |-> NoText, saw |-> <<>>])

Next ==
  \/ Capture \/ Line \/ Clear
  \/ Narrow \/ OnlyThis \/ Choose \/ Focus \/ Go \/ Reveal
  \/ Older \/ Newer \/ Latest \/ Remount

Spec == Init /\ [][Next]_vars

-----------------------------------------------------------------------------
(* What the index remembers of a frame is what the frame holds, for the    *)
(* text now asked: a frame is never hidden or shown on an older word.      *)
IndexIsFresh ==
  /\ memo.text = view.query.text
  /\ \A o \in DOMAIN memo.saw : Holds(log, o) /\ memo.saw[o] = (Frame(log, o).word = memo.text)

(* Rows are told apart: frames and lines together, keys rise down the list.*)
KeysRise ==
  LET rows == Drawn IN \A i \in DOMAIN rows : i > 1 => rows[i - 1].key < rows[i].key

(* The page is as full as the rows allow, and holds the row it is anchored *)
(* to while that row is among them.                                        *)
PageHoldsItsAnchor ==
  LET rows == Drawn
      page == Page(rows, view.anchor)
  IN /\ Len(page) = Lesser(Size, Len(rows))
     /\ \A i \in DOMAIN rows : rows[i].key = view.anchor =>
          \E j \in DOMAIN page : page[j] = rows[i]

(* The pane reads what the reader chose while the trace holds it, and      *)
(* otherwise a frame on the page: never one narrowed away.  So does the    *)
(* Tab stop.                                                               *)
PaneReadsWhatIsShown ==
  LET read == Reading
      on == PageFrames(DrawnPage)
  IN /\ read # None => (read = view.selected \/ read \in on) /\ Holds(log, read)
     /\ on # {} => Current \in on

EvidenceIsSafe ==
  TypeOK /\ IndexIsFresh /\ KeysRise /\ PageHoldsItsAnchor /\ PaneReadsWhatIsShown

(* A reveal clears every narrowing, so the requested frame is shown        *)
(* (console.rs:107).                                                       *)
RevealedIsShown ==
  [][Reveal => \E i \in DOMAIN Drawn' :
       Drawn'[i].row = "frame" /\ Drawn'[i].ordinal = view'.revealed]_vars
=============================================================================
