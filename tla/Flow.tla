-------------------------------- MODULE Flow --------------------------------
(***************************************************************************)
(* The centre screen (app timeline.rs, page.rs, keys.rs, navigation.rs):   *)
(* the store's entries gathered into messages, the lines between turns,    *)
(* the page that is drawn, and the ways to one row: the Console's ask, Go  *)
(* to request, and the Tab stop.                                           *)
(***************************************************************************)
EXTENDS Integers, Sequences, FiniteSets, SequencesExt

CONSTANTS
  Size,        \* page::SIZE: rows drawn at once
  Capacity,    \* entries the store keeps
  Messages,    \* voices with their message ids; 0 is a chunk without one
  Requests,    \* request ids, which an agent may repeat
  MaxEntries,  \* bound: entries that arrive
  MaxTurns,    \* bound: turns opened
  MaxAsks      \* bound: asks, and presses of the page's controls

None == 0
NoMessage == 0

VARIABLES
  entries,     \* the store's entries, oldest first
  turns, open, \* its turns, and the one that runs
  held,        \* held_frames: the ordinals the trace still holds
  sought,      \* the frame the Console asked for
  anchor,      \* the row the page starts at; none follows the newest
  focused,     \* the row that was focused last, by its key
  landed,      \* history: the frame an ask just turned the page to
  arrived, asks \* bounds

view == <<sought, anchor, focused, landed>>
vars == <<entries, turns, open, held, view, arrived, asks>>

Entry == [name : [of : {"arrival", "request"}, id : Nat], speech : BOOLEAN, message : Messages,
          turn : 0..MaxTurns, frame : Nat, waiting : BOOLEAN]

TypeOK ==
  /\ entries \in Seq(Entry) /\ Len(entries) <= Capacity
  /\ turns \in Seq([id : 1..MaxTurns, over : BOOLEAN]) /\ open \in 0..MaxTurns
  /\ held.first <= held.next
  /\ anchor \in -1..2 * (MaxEntries + MaxTurns)

Init ==
  /\ entries = <<>> /\ turns = <<>> /\ open = None
  /\ held = [first |-> 1, next |-> 1]
  /\ sought = None /\ anchor = -1 /\ focused = <<>> /\ landed = None
  /\ arrived = 0 /\ asks = 0

-----------------------------------------------------------------------------
(***************************************************************************)
(* From entries to rows.                                                   *)
(***************************************************************************)
\* `blocks`: consecutive chunks of one voice and message, gathered.
Blocks ==
  FoldLeft(LAMBDA acc, entry :
             IF /\ acc # <<>> /\ entry.speech /\ Last(acc)[1].speech
                /\ Last(acc)[1].message = entry.message
             THEN [acc EXCEPT ![Len(acc)] = Append(@, entry)]
             ELSE Append(acc, <<entry>>),
           <<>>, entries)

BlockRow(block) == [kind |-> "block", name |-> block[1].name, turn |-> block[1].turn, of |-> block]
EndedRow(turn) == [kind |-> "ended", name |-> [of |-> "turn", id |-> turn.id], turn |-> turn.id, of |-> <<>>]
OutsideRow(block) == [kind |-> "outside", name |-> block[1].name, turn |-> 0, of |-> <<>>]

\* `close_through`: the line of every turn that is over, once.
CloseThrough(acc, upto) ==
  LET ended == SelectSeq(turns, LAMBDA t : t.id > acc.closed /\ t.id <= upto /\ t.over)
  IN [acc EXCEPT !.rows = @ \o [i \in DOMAIN ended |-> EndedRow(ended[i])],
                 !.closed = IF upto > @ THEN upto ELSE @]

\* The boundary a block begins, if its turn is another than the row's before.
Boundary(acc, block) ==
  LET turn == block[1].turn
      on == [acc EXCEPT !.current = turn]
  IN IF acc.current = turn THEN acc
     ELSE IF turn # None
     THEN [CloseThrough(on, turn - 1) EXCEPT !.reached = IF turn > @ THEN turn ELSE @]
     ELSE [CloseThrough(on, acc.reached) EXCEPT !.rows = Append(@, OutsideRow(block))]

Rows ==
  LET all == FoldLeft(LAMBDA acc, block : LET at == Boundary(acc, block)
                                          IN [at EXCEPT !.rows = Append(@, BlockRow(block))],
                      [rows |-> <<>>, closed |-> 0, reached |-> 0, current |-> -1], Blocks)
  IN CloseThrough(all, MaxTurns).rows

\* `keys::distinct`: a repeated name is told apart by its occurrence.
Key(rows, i) ==
  <<rows[i].kind, rows[i].name,
    Cardinality({j \in 1..i - 1 : rows[j].kind = rows[i].kind /\ rows[j].name = rows[i].name})>>

Holds(row, frame) == \E i \in DOMAIN row.of : row.of[i].frame = frame
RowOf(rows, frame) == {i \in DOMAIN rows : Holds(rows[i], frame)}

-----------------------------------------------------------------------------
(***************************************************************************)
(* Paging. Positions count from zero, as the code's do.                    *)
(***************************************************************************)
Least(a, b) == IF a < b THEN a ELSE b
Short(a, b) == IF a < b THEN 0 ELSE a - b

\* `page_start`: half a page before the row, and never past the last page.
PageStartVariant(row, total) == Least(row + 1, Short(total, Size))
PageStart(row, total) == Least(Short(row, Size \div 2), Short(total, Size))

\* `page::range`: where the page starts; the newest, if the anchor is no row.
Start(total) ==
  IF total <= Size THEN 0
  ELSE IF anchor \in 0..total - 1 THEN Least(anchor, total - Size) ELSE total - Size
Page(total) == {i \in 1..total : i > Start(total) /\ i <= Start(total) + Size}

\* The list's one Tab stop: the row focused last, or the newest on the page.
TabStop(rows) ==
  LET stops == {i \in Page(Len(rows)) : rows[i].kind = "block"}
      kept == {i \in stops : Key(rows, i) = focused}
  IN IF kept # {} THEN kept
     ELSE {i \in stops : \A j \in stops : j <= i}

\* The frame of the newest request that waits.
Waiting ==
  LET waiting == {i \in DOMAIN entries : entries[i].waiting}
  IN IF waiting = {} THEN None
     ELSE entries[CHOOSE i \in waiting : \A j \in waiting : j <= i].frame

-----------------------------------------------------------------------------
(***************************************************************************)
(* What arrives: the store's entries and turns, and the trace's frames.    *)
(***************************************************************************)
Arrives(name, speech, message, waiting) ==
  LET entry == [name |-> name, speech |-> speech, message |-> message, turn |-> open,
                frame |-> held.next, waiting |-> waiting]
      all == Append(entries, entry)
  IN /\ arrived < MaxEntries /\ arrived' = arrived + 1
     /\ entries' = IF Len(all) > Capacity THEN Tail(all) ELSE all
     /\ held' = [held EXCEPT !.next = @ + 1]
     /\ landed' = None
     /\ UNCHANGED <<turns, open, sought, anchor, focused, asks>>

Chunk == \E message \in Messages : Arrives([of |-> "arrival", id |-> held.next], TRUE, message, FALSE)
Other == Arrives([of |-> "arrival", id |-> held.next], FALSE, NoMessage, FALSE)
Ask == \E request \in Requests : Arrives([of |-> "request", id |-> request], FALSE, NoMessage, TRUE)

Settles ==
  /\ \E i \in DOMAIN entries : entries[i].waiting /\ entries' = [entries EXCEPT ![i].waiting = FALSE]
  /\ UNCHANGED <<turns, open, held, view, arrived, asks>>

OpenTurn ==
  /\ open = None /\ Len(turns) < MaxTurns
  /\ open' = Len(turns) + 1 /\ turns' = Append(turns, [id |-> open', over |-> FALSE])
  /\ landed' = None
  /\ UNCHANGED <<entries, held, sought, anchor, focused, arrived, asks>>

CloseTurn ==
  /\ open # None /\ open' = None /\ turns' = [turns EXCEPT ![open].over = TRUE]
  /\ landed' = None
  /\ UNCHANGED <<entries, held, sought, anchor, focused, arrived, asks>>

\* The trace lets go of its oldest frame, or of all when it is cleared.
Ages ==
  /\ held.first < held.next /\ held' \in {[held EXCEPT !.first = @ + 1], [held EXCEPT !.first = held.next]}
  /\ UNCHANGED <<entries, turns, open, view, arrived, asks>>

-----------------------------------------------------------------------------
(***************************************************************************)
(* What the reader does.                                                   *)
(***************************************************************************)
Asks == asks < MaxAsks /\ asks' = asks + 1
Still == UNCHANGED <<entries, turns, open, held, arrived>>

\* The Console asks for a frame: `seek`, and the effect that is keyed on the
\* ask, so the same ask again turns no page.
Seek ==
  \E frame \in held.first..held.next - 1 :
    /\ Asks /\ sought' = frame
    /\ LET rows == Rows at == RowOf(rows, frame)
       IN IF sought = frame \/ at = {} THEN landed' = None /\ UNCHANGED anchor
          ELSE \E i \in at : anchor' = PageStart(i - 1, Len(rows)) /\ landed' = frame
    /\ UNCHANGED focused /\ Still

\* Go to request, from the notice: the page first, and the newest one by
\* following.
GoToRequest ==
  /\ Asks /\ Waiting # None
  /\ LET rows == Rows
     IN \E i \in RowOf(rows, Waiting) :
          LET start == PageStart(i - 1, Len(rows))
          IN anchor' = IF start + Size < Len(rows) THEN start ELSE -1
  /\ landed' = Waiting
  /\ UNCHANGED <<sought, focused>> /\ Still

\* A row's press, and Show frames: the Console is given what the trace still
\* holds of its frames.
Linking(row) == {row.of[i].frame : i \in DOMAIN row.of} \cap (held.first..held.next - 1)
Reveal ==
  /\ Asks
  /\ LET rows == Rows IN \E i \in Page(Len(rows)) : Linking(rows[i]) # {}
  /\ sought' = None
  /\ UNCHANGED <<anchor, focused, landed>> /\ Still

\* Older, Newer, and Latest.
Turns ==
  /\ Asks
  /\ LET total == Len(Rows) start == Start(total)
     IN \/ total > Size /\ start > 0 /\ anchor' = Short(start, Size)
        \/ total > Size /\ start + Size < total /\ anchor' = start + Size
        \/ anchor # -1 /\ anchor' = -1
  /\ landed' = None
  /\ UNCHANGED <<sought, focused>> /\ Still

Focuses ==
  /\ Asks
  /\ LET rows == Rows
     IN \E i \in TabStop(rows), step \in {-1, 1} :
          /\ i + step \in Page(Len(rows)) /\ rows[i + step].kind = "block"
          /\ focused' = Key(rows, i + step)
  /\ UNCHANGED <<sought, anchor, landed>> /\ Still

Next ==
  \/ Chunk \/ Other \/ Ask \/ Settles \/ OpenTurn \/ CloseTurn \/ Ages
  \/ Seek \/ GoToRequest \/ Reveal \/ Turns \/ Focuses

Spec == Init /\ [][Next]_vars

-----------------------------------------------------------------------------
IsBlock(row) == row.kind = "block"

(* Screen order stays wire order: the rows, taken apart, are the entries.  *)
RowsAreTheEntries(rows) == FlattenSeq([i \in DOMAIN rows |-> rows[i].of]) = entries

(* A turn that is over has one line, under every row of it and above every *)
(* row of a later turn, said or silent; a turn that runs has none.         *)
LinesAreInPlace(rows) ==
  \A t \in Range(turns) :
    LET lines == {i \in DOMAIN rows : rows[i].kind = "ended" /\ rows[i].turn = t.id}
    IN IF ~t.over THEN lines = {}
       ELSE /\ Cardinality(lines) = 1
            /\ \A l \in lines, i \in DOMAIN rows :
                 IsBlock(rows[i]) /\ rows[i].turn # None =>
                   IF rows[i].turn <= t.id THEN i < l ELSE i > l

(* A run of rows outside every turn is marked where it begins, and nowhere *)
(* else.                                                                   *)
RunsAreMarked(rows) ==
  \A i \in DOMAIN rows :
    LET before == {j \in 1..i - 1 : IsBlock(rows[j])}
        begins == before = {} \/ rows[CHOOSE j \in before : \A k \in before : k <= j].turn # None
    IN IsBlock(rows[i]) /\ rows[i].turn = None =>
         (begins <=> i > 1 /\ rows[i - 1].kind = "outside")

(* No two rows of the list share a key, whatever ids an agent repeats.     *)
KeysAreDistinct(rows) == \A i, j \in DOMAIN rows : i # j => Key(rows, i) # Key(rows, j)

(* The page an ask turned to holds the row it was for.                     *)
AskedIsOnThePage(rows) ==
  landed # None => \A i \in RowOf(rows, landed) : i \in Page(Len(rows))

FlowIsSafe ==
  LET rows == Rows
  IN /\ TypeOK /\ RowsAreTheEntries(rows) /\ LinesAreInPlace(rows) /\ RunsAreMarked(rows)
     /\ KeysAreDistinct(rows) /\ AskedIsOnThePage(rows)

(* Grouping is read from the stamp and never inferred from the rows: what  *)
(* an agent said outside every turn is never drawn as part of a turn       *)
(* (docs/adr/0007).                                                        *)
OutsideIsTold ==
  \A i \in DOMAIN Rows : \A j \in DOMAIN Rows[i].of :
    Rows[i].of[j].message = NoMessage /\ Rows[i].of[j].turn = None => Rows[i].turn = None
=============================================================================
