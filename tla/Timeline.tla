------------------------------ MODULE Timeline ------------------------------
(***************************************************************************)
(* The timeline: entries that updates merge into, the turns they fall in,  *)
(* and what is let go when the budgets are spent (crates/core/src/         *)
(* timeline.rs).  Every operation holds the one lock throughout, so it is  *)
(* one step; a request entry is pinned by its own state, which changes     *)
(* outside that lock.                                                      *)
(***************************************************************************)
EXTENDS Naturals, Sequences, FiniteSets, SequencesExt, FiniteSetsExt, TLC

CONSTANTS
  Absent,        \* a field an update leaves out
  Tools, Compactions, Requests,  \* the ids the agent uses
  Values,        \* what a field is set to
  Sizes,         \* the bytes of a frame
  Capacity, FrameCapacity, ByteCapacity,
  Forms,         \* bound: the updates the agent sends, by the fields they carry
  MaxFrames,     \* bound: frames recorded
  MaxTurns,      \* bound: turns opened
  MaxResets      \* bound: reconnections and session switches

Maybe == Values \cup {Absent}

Calls == [what : {"call"}, id : Tools, status : Values, title : Maybe]
Patches == [what : {"patch"}, id : Tools, status : Maybe, title : Maybe]
\* A summary left out, cleared ("null") or given.
Upserts == [what : {"compact"}, id : Compactions, status : Values, title : Maybe \cup {"null"}]
Chunks == [what : {"chunk"}, id : Compactions, status : {Absent}, title : Values]
Plain(what) == [what |-> what, id |-> Absent, status |-> Absent, title |-> Absent]

Updates == Calls \cup Patches \cup Upserts \cup Chunks \cup {Plain("commands"), Plain("message")}
Keyed(update) == update.what \in {"call", "patch", "compact", "chunk"}

Form(update) ==
  {update.what} \cup (IF update.status = Absent THEN {} ELSE {"status"})
                \cup (IF update.title = Absent THEN {} ELSE {"title"})
Said == {update \in Updates : Form(update) \in Forms}

ASSUME TimelineAssumption ==
  /\ Sizes \subseteq Nat
  /\ {Capacity, FrameCapacity, ByteCapacity, MaxFrames, MaxTurns, MaxResets} \subseteq Nat
  /\ Absent \notin Values

VARIABLES
  entries,       \* the entries held, oldest first
  index,         \* merge id -> its position
  turns,         \* the turns held: their numbers, and whether they are over
  open,          \* the open turn, 0 for none
  nextTurn,
  dropped,       \* Retention: entries, frames and bytes let go, and turns
  rawFrames, rawBytes,
  pinned,        \* the requests still waiting or being answered
  count, resets, \* frames recorded; reconnections and switches
  history        \* history: entries, frames and bytes taken in, and the last commands
                 \* advertised, since the view was emptied; what the count was then,
                 \* or when the agent was last replaced

vars == <<entries, index, turns, open, nextTurn, dropped, rawFrames, rawBytes, pinned, count, resets,
          history>>

Fresh == [entries |-> 0, frames |-> 0, bytes |-> 0, commands |-> 0, since |-> 0]

TypeOK ==
  /\ \A k \in DOMAIN entries :
       /\ entries[k].made \in {"call", "patch", "compact", "commands", "message", "ask", "raw", "note"}
       /\ entries[k].turn \in 0..MaxTurns /\ entries[k].serial \in 0..count
       /\ \A j \in DOMAIN entries[k].frames : entries[k].frames[j].size \in Sizes
  /\ DOMAIN index \subseteq Tools \cup Compactions
  /\ turns \in Seq([id : 1..MaxTurns, over : BOOLEAN]) /\ open \in 0..MaxTurns
  /\ nextTurn \in 0..MaxTurns /\ count \in 0..MaxFrames /\ resets \in 0..MaxResets
  /\ dropped \in [entries : Nat, frames : Nat, bytes : Nat, turns : Nat]
  /\ rawFrames \in Nat /\ rawBytes \in Nat /\ pinned \subseteq 1..MaxFrames

Init ==
  /\ entries = <<>> /\ index = <<>> /\ turns = <<>> /\ open = 0 /\ nextTurn = 0
  /\ dropped = [entries |-> 0, frames |-> 0, bytes |-> 0, turns |-> 0]
  /\ rawFrames = 0 /\ rawBytes = 0 /\ pinned = {} /\ count = 0 /\ resets = 0
  /\ history = Fresh

(***************************************************************************)
(* Merging.                                                                *)
(***************************************************************************)
\* A field an update leaves out stays as it was.
Or(new, old) == IF new = Absent THEN old ELSE new

\* The fields an entry shows.  A summary is a sequence of blocks.
Summary(title) == IF title \in {Absent, "null"} THEN <<>> ELSE <<title>>

\* `created`: what an update is as the first for its id.  A chunk of a
\* compaction nobody announced makes one in progress.
Created(u) ==
  CASE u.what = "compact" -> [made |-> "compact", status |-> u.status, title |-> Summary(u.title)]
    [] u.what = "chunk" -> [made |-> "compact", status |-> Absent, title |-> <<u.title>>]
    [] OTHER -> [made |-> u.what, status |-> u.status, title |-> u.title]

\* `merge`, with `patch` and `patch_fields`: an update carries the fields that
\* changed, and a create restates the whole call.
MergeVariant(e, u) ==
  CASE u.what = "patch" -> [e EXCEPT !.status = u.status, !.title = Or(u.title, @)]
    [] u.what = "compact" ->
         [e EXCEPT !.status = u.status, !.title = IF u.title = Absent THEN @ ELSE Summary(u.title)]
    [] u.what = "chunk" -> [e EXCEPT !.title = Append(@, u.title)]
    [] OTHER -> [e EXCEPT !.made = Created(u).made, !.status = Created(u).status,
                          !.title = Created(u).title]
Merge(e, u) ==
  CASE u.what = "patch" -> [e EXCEPT !.status = Or(u.status, @), !.title = Or(u.title, @)]
    [] u.what = "compact" ->
         [e EXCEPT !.status = u.status, !.title = IF u.title = Absent THEN @ ELSE Summary(u.title)]
    [] u.what = "chunk" -> [e EXCEPT !.title = Append(@, u.title)]
    [] OTHER -> [e EXCEPT !.made = Created(u).made, !.status = Created(u).status,
                          !.title = Created(u).title]

(***************************************************************************)
(* Retention.  A view is the part of the state an operation rewrites.      *)
(***************************************************************************)
View == [entries |-> entries, index |-> index, turns |-> turns, open |-> open,
         dropped |-> dropped, frames |-> rawFrames, bytes |-> rawBytes, pinned |-> pinned]

Bytes(frames) == FoldLeft(LAMBDA sum, f : sum + f.size, 0, frames)

\* `charge`.
Charge(view, frame) == [view EXCEPT !.frames = @ + 1, !.bytes = @ + frame.size]

\* `retention_pinned`: a request not settled stays, and so does the last word
\* on the commands.
Pinned(view, e) == e.serial \in view.pinned
LatestCommands(list) == Max({0} \cup {k \in DOMAIN list : list[k].made = "commands"})

Within(view, held) ==
  held <= Capacity /\ view.frames <= FrameCapacity /\ view.bytes <= ByteCapacity

\* The pass over the entries, oldest first, which stops once the budgets are met.
Passed(view) ==
  LET LetGo(acc, k) ==
        LET e == view.entries[k]
        IN IF \/ Within(acc, Len(view.entries) - Cardinality(acc.gone))
              \/ Pinned(view, e) \/ k = LatestCommands(view.entries)
           THEN acc
           ELSE [acc EXCEPT !.gone = @ \cup {k}, !.frames = @ - Len(e.frames),
                            !.bytes = @ - Bytes(e.frames)]
  IN FoldLeft(LetGo, [gone |-> {}, frames |-> view.frames, bytes |-> view.bytes],
              [k \in DOMAIN view.entries |-> k])

\* `retain`: the entries that go are counted, and the index moves with the
\* ones that stay.
Reindexed(list, gone) ==
  [id \in {i \in DOMAIN list : list[i] \notin gone} |->
     list[id] - Cardinality({k \in gone : k < list[id]})]

\* Turns over the limit go, oldest first, unless an entry falls in one or it is
\* the open one.
TurnsKept(view) ==
  LET used == {view.entries[k].turn : k \in DOMAIN view.entries} \cup {view.open}
      LetGo(acc, t) == IF Len(view.turns) - Cardinality(acc) <= Capacity \/ t.id \in used
                       THEN acc ELSE acc \cup {t.id}
      gone == FoldLeft(LetGo, {}, view.turns)
  IN [view EXCEPT !.turns = SelectSeq(@, LAMBDA t : t.id \notin gone),
                  !.dropped.turns = @ + Cardinality(gone)]

Retained(view) ==
  LET pass == Passed(view)
      kept == {k \in DOMAIN view.entries : k \notin pass.gone}
  IN IF Within(view, Len(view.entries)) /\ Len(view.turns) <= Capacity THEN view
     ELSE TurnsKept([view EXCEPT
       !.entries = [j \in 1..Cardinality(kept) |->
                      view.entries[CHOOSE k \in kept : Cardinality({i \in kept : i <= k}) = j]],
       !.index = Reindexed(@, pass.gone),
       !.frames = pass.frames, !.bytes = pass.bytes,
       !.dropped.entries = @ + Cardinality(pass.gone),
       !.dropped.frames = @ + view.frames - pass.frames,
       !.dropped.bytes = @ + view.bytes - pass.bytes])

\* `moved`: every operation ends by keeping to the budgets.
Become(view) ==
  \E kept \in {Retained(view)} :
    /\ entries' = kept.entries /\ index' = kept.index /\ turns' = kept.turns /\ open' = kept.open
    /\ dropped' = kept.dropped /\ rawFrames' = kept.frames /\ rawBytes' = kept.bytes
    /\ pinned' = kept.pinned

(***************************************************************************)
(* Operations.                                                             *)
(***************************************************************************)
Frame(size, update) == [size |-> size, update |-> update]
\* Frames come in one at a time, or in twos with an annotation.
Records(frames) ==
  /\ count + Len(frames) <= MaxFrames /\ count' = count + Len(frames)

\* An entry as it starts.
Entry(id, shown, frames) ==
  [id |-> id, made |-> shown.made, status |-> shown.status, title |-> shown.title,
   frames |-> frames, turn |-> open, serial |-> count + 1]
Bare(made) == [made |-> made, status |-> Absent, title |-> Absent]
Added(view, e) == [view EXCEPT !.entries = Append(@, e)]
Charged(view, frames) == FoldLeft(LAMBDA v, f : Charge(v, f), view, frames)

TookIn(frames, made) ==
  history' = [history EXCEPT !.frames = @ + Len(frames), !.bytes = @ + Bytes(frames),
                             !.entries = @ + (IF made = "merged" THEN 0 ELSE 1),
                             !.commands = IF made = "commands" THEN count + 1 ELSE @]

\* `update`: onto the entry it updates, or at the end.
Update(u, size) ==
  LET frame == Frame(size, u)
      charged == Charge(View, frame)
  IN /\ Records(<<frame>>)
     /\ IF Keyed(u) /\ u.id \in DOMAIN index
        THEN /\ Become([charged EXCEPT !.entries[index[u.id]] =
                          [Merge(@, u) EXCEPT !.frames = Append(@, frame)]])
             /\ TookIn(<<frame>>, "merged")
        ELSE /\ Become([Added(charged, Entry(u.id, Created(u), <<frame>>))
                          EXCEPT !.index = IF Keyed(u) THEN (u.id :> Len(entries) + 1) @@ @ ELSE @])
             /\ TookIn(<<frame>>, u.what)
     /\ UNCHANGED <<nextTurn, resets>>

\* `blocked`, `elicited`, `serviced`: never merged, even under an id asked
\* under before.
Ask(r, size) ==
  LET frame == Frame(size, Plain("ask"))
  IN /\ Records(<<frame>>)
     /\ Become([Added(Charge(View, frame), Entry(r, Bare("ask"), <<frame>>))
                  EXCEPT !.pinned = @ \cup {count + 1}])
     /\ TookIn(<<frame>>, "ask")
     /\ UNCHANGED <<nextTurn, resets>>

\* A request is settled by its own state; the timeline only ticks.
Settle(serial) ==
  /\ serial \in pinned /\ pinned' = pinned \ {serial}
  /\ UNCHANGED <<entries, index, turns, open, nextTurn, dropped, rawFrames, rawBytes, count, resets, history>>

\* `unrecognized`, and `annotate` with the frames that decide it.
Append1(made, frames) ==
  /\ Records(frames)
  /\ Become(Added(Charged(View, frames), Entry(Absent, Bare(made), frames)))
  /\ TookIn(frames, made)
  /\ UNCHANGED <<nextTurn, resets>>
Unrecognized(size) == Append1("raw", <<Frame(size, Plain("raw"))>>)
Annotate(one, two) == Append1("note", <<Frame(one, Plain("note")), Frame(two, Plain("note"))>>)

\* `completed`: the frame joins every entry it names, or stays by itself.
CompletedVariant(named, size) ==
  LET frame == Frame(size, Plain("completed"))
      joins == {k \in DOMAIN entries : entries[k].made = "ask" /\ entries[k].id \in named}
  IN /\ Records(<<frame>>)
     /\ Become([Charge(View, frame) EXCEPT
          !.entries = [k \in DOMAIN entries |->
             IF k \in joins THEN [entries[k] EXCEPT !.frames = Append(@, frame)] ELSE entries[k]]])
     /\ TookIn([k \in 1..Cardinality(joins) |-> frame], "merged")
     /\ UNCHANGED <<nextTurn, resets>>
Completed(named, size) ==
  LET frame == Frame(size, Plain("completed"))
      joins == {k \in DOMAIN entries : entries[k].made = "ask" /\ entries[k].id \in named}
  IN IF joins = {} THEN Append1("raw", <<frame>>)
     ELSE /\ Records(<<frame>>)
          /\ Become([View EXCEPT
               !.entries = [k \in DOMAIN entries |->
                  IF k \in joins THEN [entries[k] EXCEPT !.frames = Append(@, frame)]
                  ELSE entries[k]],
               !.frames = @ + Cardinality(joins),
               !.bytes = @ + Cardinality(joins) * size])
          /\ TookIn([k \in 1..Cardinality(joins) |-> frame], "merged")
          /\ UNCHANGED <<nextTurn, resets>>

\* `attach`: onto the first entry of that id, if one is held.
Attach(r, size) ==
  LET frame == Frame(size, Plain("attached"))
      held == {k \in DOMAIN entries : entries[k].made = "ask" /\ entries[k].id = r}
  IN /\ held # {} /\ Records(<<frame>>)
     /\ Become([Charge(View, frame) EXCEPT !.entries[Min(held)].frames = Append(@, frame)])
     /\ TookIn(<<frame>>, "merged")
     /\ UNCHANGED <<nextTurn, resets>>

\* `open_turn`: a turn already open is kept.
OpenTurn ==
  /\ open = 0 /\ nextTurn < MaxTurns /\ nextTurn' = nextTurn + 1
  /\ Become([View EXCEPT !.turns = Append(@, [id |-> nextTurn', over |-> FALSE]), !.open = nextTurn'])
  /\ UNCHANGED <<count, resets, history>>

\* `close_turn`: with what it came to, where one is open.
CloseTurn ==
  /\ open # 0
  /\ Become([View EXCEPT
       !.turns = [k \in DOMAIN turns |-> [turns[k] EXCEPT !.over = @ \/ turns[k].id = open]],
       !.open = 0])
  /\ UNCHANGED <<nextTurn, count, resets, history>>

\* `reopen`: another agent; its ids are its own.
Reopen ==
  /\ resets < MaxResets /\ resets' = resets + 1
  /\ Become([View EXCEPT !.index = <<>>, !.open = 0])
  /\ history' = [history EXCEPT !.since = count]
  /\ UNCHANGED <<nextTurn, count>>

\* `discard`: another session; everything goes but the count of arrivals.
Discard ==
  /\ resets < MaxResets /\ resets' = resets + 1
  /\ entries' = <<>> /\ index' = <<>> /\ turns' = <<>> /\ open' = 0 /\ nextTurn' = 0
  /\ dropped' = [entries |-> 0, frames |-> 0, bytes |-> 0, turns |-> 0]
  /\ rawFrames' = 0 /\ rawBytes' = 0
  /\ history' = [Fresh EXCEPT !.since = count]
  /\ UNCHANGED <<pinned, count>>

\* `snapshot`, `entries`: a reading keeps to the budgets too.
Read == Become(View) /\ UNCHANGED <<nextTurn, count, resets, history>>

\* Bound: only the last two kinds come in every size.
Small == Min(Sizes)

Next ==
  \/ \E u \in Said : Update(u, Small)
  \/ \E r \in Requests : Ask(r, Small) \/ Attach(r, Small)
  \/ \E named \in SUBSET Requests : Completed(named, Small)
  \/ \E size \in Sizes : Unrecognized(size) \/ Annotate(Small, size)
  \/ \E serial \in 1..MaxFrames : Settle(serial)
  \/ OpenTurn \/ CloseTurn \/ Reopen \/ Discard \/ Read

Spec == Init /\ [][Next]_vars

-----------------------------------------------------------------------------
Sum(set, op(_)) == MapThenSumSet(op, set)

\* Nothing is lost from the books: what is held and what was let go are
\* together what came in, and the budgets are measured on what is held
\* (`charge`, `retain`, and the additions of `completed` and `attach`).
AccountIsTrue ==
  /\ rawFrames = Sum(DOMAIN entries, LAMBDA k : Len(entries[k].frames))
  /\ rawBytes = Sum(DOMAIN entries, LAMBDA k : Bytes(entries[k].frames))
  /\ history.entries = Len(entries) + dropped.entries
  /\ history.frames = rawFrames + dropped.frames
  /\ history.bytes = rawBytes + dropped.bytes

\* An update never lands on another entry: the index points at the entry of
\* that id, one the agent now connected made, whatever aged out before it.
IndexPointsHome ==
  \A id \in DOMAIN index :
    /\ index[id] \in DOMAIN entries
    /\ entries[index[id]].id = id
    /\ entries[index[id]].serial > history.since

\* The books balance and point where they say, whatever aged out in between.
BooksAreTrue == TypeOK /\ AccountIsTrue /\ IndexPointsHome

\* A tool call shows, of each field, the last its own frames said since the
\* call was last stated whole.
ShownIsTold ==
  \A k \in {k \in DOMAIN entries : entries[k].made \in {"call", "patch"}} :
    LET frames == entries[k].frames
        whole == Max({1} \cup {j \in DOMAIN frames : frames[j].update.what = "call"})
        Latest(Field(_)) ==
          LET said == {j \in whole..Len(frames) : Field(frames[j].update) # Absent}
          IN IF said = {} THEN Absent ELSE Field(frames[Max(said)].update)
    IN /\ entries[k].status = Latest(LAMBDA u : u.status)
       /\ entries[k].title = Latest(LAMBDA u : u.title)

\* Room is made at the expense of nothing still needed: a request not settled,
\* the commands the agent last advertised, and the turns entries fall in stay.
NeededStays ==
  /\ \A serial \in pinned : serial > history.since =>
        \E k \in DOMAIN entries : entries[k].serial = serial
  /\ history.commands # 0 => \E k \in DOMAIN entries : entries[k].serial = history.commands
  /\ \A turn \in {entries[k].turn : k \in DOMAIN entries} \cup {open} :
        turn = 0 \/ \E k \in DOMAIN turns : turns[k].id = turn

\* What is left to read is right and is what is needed.
ReadersAreServed == ShownIsTold /\ NeededStays
=============================================================================
