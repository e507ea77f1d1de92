------------------------------- MODULE TraceFile -------------------------------
(***************************************************************************)
(* The exported trace (crates/core/src/export.rs) and its two readers: the *)
(* window, which opens it as a trace and a timeline replayed from the      *)
(* frames (import.rs), and `acp-inspector-cli inspect`, which counts it    *)
(* (crates/cli/src/inspect.rs).  A save goes to a picked path over a       *)
(* sibling `.partial`, or to a fresh name in a directory; it is written    *)
(* piece by piece, and the disk may fill or the program die at any piece.  *)
(* A frame keeps what the readers tell apart: which way it went, what its  *)
(* envelope says, whether a person sent it, and how its bytes are carried. *)
(***************************************************************************)
EXTENDS Integers, Sequences, FiniteSets, SequencesExt, FiniteSetsExt

CONSTANTS
  Shapes,          \* what a frame may be
  Ids,             \* JSON-RPC ids
  MaxFrames,       \* bound: frames captured
  MaxSaid,         \* bound: stderr lines
  MaxConnections,  \* bound: connections
  MaxSaves,        \* bound: exports taken
  MaxDoc,          \* bound: frames captured, stderr lines among them, where exports are saved
  MaxNames         \* NAMES: how many names one export tries

VARIABLES
  frames, gone,    \* what the trace holds, and how many it let go
  said,            \* when each stderr line was read
  now,             \* the clock, which every capture moves
  connection,      \* the connection frames are captured under
  next,            \* the id of its next call
  owed,            \* what the agent asked on it and was not answered
  disk,            \* what each name holds
  writing,         \* the export under way: the name written to, its document
  saves,           \* how many were taken
  told, left       \* what each name was told to hold, and the ones a crash left

captured == <<frames, gone, said, now, connection, next, owed>>
saved == <<disk, writing, saves, told, left>>
vars == <<captured, saved>>

AnyShape == [way: {"toAgent", "fromAgent"}, kind: {"call", "note", "result", "error", "omitted"},
             method: {"prompt", "initialize", "permission", "none"}, hand: BOOLEAN, lossy: BOOLEAN]

Fresh(n) == <<"acp-trace", n>>
Names == {<<"picked", 0>>, <<"partial", 0>>} \cup {Fresh(n) : n \in 1..MaxNames}
Picked == <<"picked", 0>>
Partial == <<"partial", 0>>
Absent == <<[type |-> "absent"]>>
Idle == [name |-> <<"none", 0>>, doc |-> Absent]

Omitted(f) == f.shape.kind = "omitted"
Carried(fs) == SelectSeq(fs, LAMBDA f : ~Omitted(f))
Placeholders(fs) == Len(fs) - Len(Carried(fs))
IsAnswer(f) == f.shape.kind \in {"result", "error"}

TypeOK ==
  /\ Shapes \subseteq AnyShape
  /\ \A i \in DOMAIN frames : frames[i].shape \in Shapes /\ frames[i].at < now
  /\ gone + Len(frames) <= MaxFrames /\ owed \subseteq Ids
  /\ DOMAIN disk = Names /\ DOMAIN told = Names /\ left \subseteq Names
  /\ writing.name \in Names \cup {Idle.name} /\ (writing = Idle \/ disk[writing.name] # Absent)

Init ==
  /\ frames = <<>> /\ gone = 0 /\ said = <<>> /\ now = 0
  /\ connection = 1 /\ next = 1 /\ owed = {}
  /\ disk = [n \in Names |-> Absent] /\ told = [n \in Names |-> Absent]
  /\ writing = Idle /\ saves = 0 /\ left = {}

(***************************************************************************)
(* Writing (export.rs).                                                    *)
(***************************************************************************)
Header(fs, dropped) ==
  [type |-> "header", frames |-> Len(Carried(fs)), dropped |-> dropped + Placeholders(fs)]

\* A frame's record; a lossy one is carried as its bytes.
Record(f) ==
  IF Omitted(f)
    THEN [type |-> "dropped", at |-> f.at, connection |-> f.connection, shape |-> f.shape]
    ELSE [type |-> "frame", at |-> f.at, connection |-> f.connection, id |-> f.id,
          encoding |-> IF f.shape.lossy THEN "base64" ELSE "utf8",
          frame |-> [f.shape EXCEPT !.lossy = FALSE]]

\* Stderr goes before the first frame read after it; the frames keep the trace's order.
Exported(fs, dropped, lines) ==
  LET Says(ls) == [i \in DOMAIN ls |-> [type |-> "stderr", at |-> ls[i]]]
      Step(acc, f) ==
        [out |-> acc.out \o Says(SelectSeq(acc.left, LAMBDA at : at < f.at)) \o <<Record(f)>>,
         left |-> SelectSeq(acc.left, LAMBDA at : at >= f.at)]
      all == FoldLeft(Step, [out |-> <<Header(fs, dropped)>>, left |-> lines], fs)
  IN all.out \o Says(all.left)

\* Three bytes as four digits, and 64 where there is no byte to carry.
Base64(bytes) ==
  LET Byte(i) == IF i \in DOMAIN bytes THEN bytes[i] ELSE 0
      Number(k) == Byte(3 * k + 1) * 65536 + Byte(3 * k + 2) * 256 + Byte(3 * k + 3)
      Digit(k, i) == IF 3 * k + i <= Len(bytes) + 1 THEN (Number(k) \div 64^(4 - i)) % 64 ELSE 64
  IN [d \in 1..(4 * ((Len(bytes) + 2) \div 3)) |-> Digit((d - 1) \div 4, 1 + ((d - 1) % 4))]

Unbase64(digits) ==
  LET Value(d) == IF digits[d] = 64 THEN 0 ELSE digits[d]
      Number(k) == FoldLeft(LAMBDA n, i : n * 64 + Value(4 * k + i), 0, <<1, 2, 3, 4>>)
      padding == Cardinality({d \in DOMAIN digits : digits[d] = 64})
  IN [b \in 1..(3 * (Len(digits) \div 4) - padding) |->
        (Number((b - 1) \div 3) \div 256^(2 - ((b - 1) % 3))) % 256]

(***************************************************************************)
(* Opening (import.rs).                                                    *)
(***************************************************************************)
Refused == [ok |-> FALSE, frames |-> <<>>, stderr |-> <<>>, dropped |-> 0, skipped |-> 0,
            warned |-> FALSE]

Known == {"frame", "dropped", "stderr"}
Bad == {"torn", "header", "absent"}       \* not JSON, a second header, no type

\* The frame a record is read back as.
Rebuilt(r) ==
  IF r.type = "dropped" THEN [at |-> r.at, connection |-> r.connection, id |-> 0, shape |-> r.shape]
  ELSE [at |-> r.at, connection |-> r.connection, id |-> r.id,
        shape |-> [r.frame EXCEPT !.lossy = (r.encoding = "base64")]]

Parse(lines) ==
  IF lines = <<>> \/ lines[1].type # "header" THEN Refused
  ELSE LET rest == Tail(lines)
           Of(type) == SelectSeq(rest, LAMBDA r : r.type = type)
           records == SelectSeq(rest, LAMBDA r : r.type \in {"frame", "dropped"})
           placeholders == Len(Of("dropped"))
           stderr == Of("stderr")
           skipped == Len(SelectSeq(rest, LAMBDA r : r.type \notin Known))
           claimed == lines[1].dropped
       IN IF \E r \in Range(rest) : r.type \in Bad THEN Refused
          ELSE [ok |-> TRUE, frames |-> [i \in DOMAIN records |-> Rebuilt(records[i])],
                stderr |-> [i \in DOMAIN stderr |-> stderr[i].at],
                dropped |-> IF claimed < placeholders THEN 0 ELSE claimed - placeholders,
                skipped |-> skipped,
                warned |-> \/ lines[1].frames # Len(records) - placeholders
                           \/ claimed < placeholders
                           \/ skipped > 0]

(***************************************************************************)
(* The timeline the frames replay into: turns and what ended them, rows,   *)
(* and the agent's requests, which the file's own answers resolve.         *)
(***************************************************************************)
AskedKey(f) == <<f.connection, f.id>>

\* An answer resolves the first waiting request of its id, or abandons it.
Resolve(state, f) ==
  LET mine == {i \in DOMAIN state.rows : state.rows[i].row = "waiting" /\ state.rows[i].id = f.id}
  IN IF mine = {} THEN state
     ELSE [state EXCEPT !.rows[Min(mine)].row =
             IF f.shape.kind = "result" THEN "answered" ELSE "abandoned"]

ToAgentFrame(state, f) ==
  IF f.shape.kind = "call" THEN
    [state EXCEPT !.asked = {a \in @ : a.key # AskedKey(f)}
                        \cup {[key |-> AskedKey(f), method |-> f.shape.method,
                               hand |-> f.shape.hand]},
                  !.open = @ \/ (~f.shape.hand /\ f.shape.method = "prompt")]
  ELSE IF IsAnswer(f) THEN Resolve(state, f)
  ELSE state

\* What the client makes of a frame that answers nothing the inspector asked.
Receive(state, f, i) ==
  LET row == IF Omitted(f) THEN "dropped"
             ELSE IF IsAnswer(f) THEN "unsolicited"
             ELSE IF f.shape.kind = "call" THEN "waiting"
             ELSE "update"
  IN [state EXCEPT !.rows = Append(@, [row |-> row, id |-> f.id, frame |-> i])]

AnsweredVariant(state, f, asked) ==
  [state EXCEPT !.asked = @ \ {asked},
                !.open = @ /\ asked.method # "prompt",
                !.agent = @ \/ (asked.method = "initialize" /\ f.shape.kind = "result")]
Answered(state, f, asked) ==
  [state EXCEPT !.asked = @ \ {asked},
                !.open = @ /\ (asked.hand \/ asked.method # "prompt"),
                !.agent = @ \/ (/\ ~asked.hand /\ asked.method = "initialize"
                                 /\ f.shape.kind = "result")]

FromAgentFrame(state, f, i) ==
  LET ours == {a \in state.asked : IsAnswer(f) /\ a.key = AskedKey(f)}
  IN IF ours = {} THEN Receive(state, f, i) ELSE Answered(state, f, CHOOSE a \in ours : TRUE)

\* Whatever the file leaves unanswered can no longer be answered.
Replay(fs) ==
  LET Step(state, i) == IF fs[i].shape.way = "toAgent" THEN ToAgentFrame(state, fs[i])
                        ELSE FromAgentFrame(state, fs[i], i)
      all == FoldLeft(Step, [asked |-> {}, open |-> FALSE, agent |-> FALSE, rows |-> <<>>],
                      [i \in DOMAIN fs |-> i])
  IN [all EXCEPT !.rows = [i \in DOMAIN @ |->
                             [@[i] EXCEPT !.row = IF @ = "waiting" THEN "abandoned" ELSE @]]]

(***************************************************************************)
(* Counting (inspect.rs): each answer under the call it answers.           *)
(***************************************************************************)
Label(acc, r) ==
  LET key == <<r.connection, r.id>>
      asked == {k \in acc.asked : k[1] = key /\ k[2] # r.frame.way}
  IN IF r.frame.kind = "call" THEN [acc EXCEPT !.asked = @ \cup {<<key, r.frame.way>>}]
     ELSE IF r.frame.kind \notin {"result", "error"} THEN acc
     ELSE IF asked # {} THEN [acc EXCEPT !.asked = @ \ asked]
     ELSE [acc EXCEPT !.unpaired[r.frame.way] = @ + 1]

Counts(lines) ==
  IF \/ lines = <<>> \/ lines[1].type # "header"
     \/ \E r \in Range(lines) : r.type \in {"torn", "absent"}
    THEN [ok |-> FALSE, frames |-> 0, headerFrames |-> 0, unknown |-> 0]
  ELSE LET records == SelectSeq(Tail(lines), LAMBDA r : r.type = "frame")
           named == SelectSeq(records, LAMBDA r : r.encoding = "utf8")
           none == [way \in {"toAgent", "fromAgent"} |-> 0]
       IN [ok |-> TRUE, frames |-> Len(records), headerFrames |-> lines[1].frames,
           lossy |-> Len(records) - Len(named),
           unpaired |-> FoldLeft(Label, [asked |-> {}, unpaired |-> none], named).unpaired,
           unknown |-> Len(SelectSeq(Tail(lines), LAMBDA r : r.type \notin {"frame", "dropped"}))]

\* Its exit code.
Inspect(lines) ==
  IF Counts(lines).ok /\ Counts(lines).frames = Counts(lines).headerFrames THEN 0 ELSE 1

(***************************************************************************)
(* The trace.  The inspector's own calls have ids of their own, and it     *)
(* answers what it was asked; what the agent sends, and what a person      *)
(* sends by hand, is anything.                                             *)
(***************************************************************************)
Room == saves = 0 \/ gone + Len(frames) + Len(said) < MaxDoc

Capture(shape, id) ==
  LET own == shape.way = "toAgent" /\ ~shape.hand
      asks == shape.kind = "call"
      answers == shape.kind \in {"result", "error"}
  IN
  /\ gone + Len(frames) < MaxFrames /\ Room
  /\ own /\ asks => id = next
  /\ own /\ answers => id \in owed
  /\ (id = 0) = ~(asks \/ answers)
  /\ frames' = Append(frames, [at |-> now, connection |-> connection, id |-> id, shape |-> shape])
  /\ now' = now + 1
  /\ next' = IF own /\ asks THEN next + 1 ELSE next
  /\ owed' = IF shape.way = "fromAgent" /\ asks THEN owed \cup {id}
             ELSE IF own /\ answers THEN owed \ {id} ELSE owed
  /\ UNCHANGED <<gone, said, connection, saved>>

Says ==
  /\ Len(said) < MaxSaid /\ Room /\ said' = Append(said, now) /\ now' = now + 1
  /\ UNCHANGED <<frames, gone, connection, next, owed, saved>>

Reconnect ==
  /\ connection < MaxConnections /\ connection' = connection + 1 /\ next' = 1 /\ owed' = {}
  /\ UNCHANGED <<frames, gone, said, now, saved>>

Clear ==
  /\ frames # <<>> /\ gone' = gone + Len(frames) /\ frames' = <<>>
  /\ UNCHANGED <<said, now, connection, next, owed, saved>>

(***************************************************************************)
(* Saving.                                                                 *)
(***************************************************************************)
Begin(name, lines) ==
  /\ writing = Idle /\ saves < MaxSaves /\ saves' = saves + 1
  /\ gone + Len(frames) + Len(said) <= MaxDoc
  /\ disk' = [disk EXCEPT ![name] = <<>>]
  /\ writing' = [name |-> name, doc |-> Exported(frames, gone, lines)]
  /\ left' = left \ {name}
  /\ UNCHANGED <<captured, told>>

\* `save_to`: an old `.partial` is removed first.
SaveTo(lines) == Begin(Partial, lines)

\* `save_in`: the first name nothing holds.
SaveIn(lines) ==
  LET free == {n \in 1..MaxNames : disk[Fresh(n)] = Absent}
  IN free # {} /\ Begin(Fresh(Min(free)), lines)

NoNameLeft ==
  /\ \A n \in 1..MaxNames : disk[Fresh(n)] # Absent
  /\ writing = Idle /\ saves < MaxSaves /\ saves' = saves + 1
  /\ UNCHANGED <<captured, disk, writing, told, left>>

Down == Len(disk[writing.name])

WriteLine ==
  /\ writing # Idle /\ Down < Len(writing.doc)
  /\ disk' = [disk EXCEPT ![writing.name] = Append(@, writing.doc[Down + 1])]
  /\ UNCHANGED <<captured, writing, saves, told, left>>

\* The whole of it is down; a picked path gets it by a rename.
Finish ==
  LET to == IF writing.name = Partial THEN Picked ELSE writing.name
  IN
  /\ writing # Idle /\ Down = Len(writing.doc)
  /\ disk' = IF writing.name # Partial THEN disk
             ELSE [disk EXCEPT ![Picked] = disk[Partial], ![Partial] = Absent]
  /\ told' = [told EXCEPT ![to] = writing.doc]
  /\ left' = left \ {to} /\ writing' = Idle
  /\ UNCHANGED <<captured, saves>>

\* A write or the rename fails, and what was written is removed.
Fail ==
  /\ writing # Idle
  /\ disk' = [disk EXCEPT ![writing.name] = Absent] /\ writing' = Idle
  /\ UNCHANGED <<captured, saves, told, left>>

\* The program dies, in the middle of a line or between two, and starts again.
Crash ==
  /\ writing # Idle
  /\ \E torn \in {<<>>, <<[type |-> "torn"]>>} :
       /\ Down = Len(writing.doc) => torn = <<>>
       /\ disk' = [disk EXCEPT ![writing.name] = @ \o torn]
  /\ left' = left \cup {writing.name} /\ writing' = Idle
  /\ frames' = <<>> /\ gone' = 0 /\ said' = <<>> /\ connection' = 1 /\ next' = 1 /\ owed' = {}
  /\ UNCHANGED <<now, saves, told>>

Next ==
  \/ \E s \in Shapes, id \in Ids \cup {0} : Capture(s, id)
  \/ Says \/ Reconnect \/ Clear
  \/ \E lines \in {said, <<>>} : SaveTo(lines) \/ SaveIn(lines)
  \/ NoNameLeft \/ WriteLine \/ Finish \/ Fail \/ Crash

Spec == Init /\ [][Next]_vars

-----------------------------------------------------------------------------
\* A whole file reads back as what was exported: the frames, their ordinals and the
\* stderr lines, with nothing to warn of (docs/trace-export.md, `Imported::parse`).
ReadsBack ==
  LET file == Parse(Exported(frames, gone, said))
  IN /\ file.ok /\ ~file.warned
     /\ file.frames = frames
     /\ file.dropped = gone /\ file.stderr = said

\* Base64 loses no byte, at each of the paddings.
BytesReadBack ==
  \A n \in 0..4 : \A bytes \in [1..n -> {0, 1, 255}] : Unbase64(Base64(bytes)) = bytes

\* A file cut short anywhere is refused, or said to be cut once a frame is missing, by
\* both readers; a record from a newer writer is skipped and said.
CutIsSeen ==
  LET doc == Exported(frames, gone, said)
      Frames(lines) == Len(SelectSeq(lines, LAMBDA r : r.type = "frame"))
      newer == doc \o <<[type |-> "later"]>>
  IN /\ \A k \in 0..(Len(doc) - 1) :
          LET cut == SubSeq(doc, 1, k)
              torn == cut \o <<[type |-> "torn"]>>
          IN /\ ~Parse(torn).ok /\ Inspect(torn) = 1
             /\ Frames(cut) < Frames(doc) =>
                  /\ ~Parse(cut).ok \/ Parse(cut).warned
                  /\ Inspect(cut) = 1
     /\ Inspect(doc) = 0
     /\ Parse(newer).skipped = 1 /\ Parse(newer).warned /\ Inspect(newer) = 0

\* The call an agent's answer answers: the last of its id on its connection, if no
\* answer came between.
Answers(i, j) ==
  /\ j < i /\ frames[j].shape.way = "toAgent" /\ frames[j].shape.kind = "call"
  /\ AskedKey(frames[j]) = AskedKey(frames[i])
  /\ \A k \in (j + 1)..(i - 1) :
       AskedKey(frames[k]) = AskedKey(frames[i]) =>
         ~(IsAnswer(frames[k]) /\ frames[k].shape.way = "fromAgent")

\* The replay shows as unsolicited exactly the answers no call of the file asked for,
\* as `inspect` counts them; a turn is open exactly when its prompt's answer is not
\* in the file, and the agent is what it answered `initialize` with, neither moved by
\* a person's own frames; and a request is shown answered only by an answer of its
\* own id that followed it (import.rs `replay`).
ReplayIsHonest ==
  LET replay == Replay(frames)
      FromAgent == {i \in DOMAIN frames : frames[i].shape.way = "fromAgent"}
      Alone == {i \in FromAgent : IsAnswer(frames[i]) /\ \A j \in DOMAIN frames : ~Answers(i, j)}
      Row(kind) == {r.frame : r \in {q \in Range(replay.rows) : q.row = kind}}
      Own(j, method) ==
        frames[j].shape.method = method /\ frames[j].shape.way = "toAgent" /\ ~frames[j].shape.hand
      Ends(i, method) ==
        /\ i \in FromAgent /\ IsAnswer(frames[i])
        /\ \E j \in DOMAIN frames :
             Answers(i, j) /\ Own(j, method) /\ \A k \in DOMAIN frames : Answers(i, k) => k <= j
  IN /\ Row("unsolicited") = Alone
     /\ (\A i \in DOMAIN frames : ~frames[i].shape.lossy) =>
          Counts(Exported(frames, gone, said)).unpaired["fromAgent"] = Cardinality(Alone)
     /\ replay.open = \E j \in DOMAIN frames :
          Own(j, "prompt") /\ \A i \in (j + 1)..Len(frames) : ~Ends(i, "prompt")
     /\ replay.agent = \E i \in DOMAIN frames :
          frames[i].shape.kind = "result" /\ Ends(i, "initialize")
     /\ \A i \in Row("answered") : \E j \in (i + 1)..Len(frames) :
          frames[j].shape.way = "toAgent" /\ IsAnswer(frames[j]) /\ frames[j].id = frames[i].id

\* A name told to hold a trace holds the whole of it, whatever failed or died since;
\* nothing half-written stays under a name but what a crash left, and never under the
\* one that was picked (export.rs `save_to`, `save_in`).
SavedIsKept ==
  \A n \in Names :
    /\ told[n] # Absent => disk[n] = told[n]
    /\ disk[n] # Absent => told[n] # Absent \/ writing.name = n \/ n \in left
    /\ n = Picked => disk[n] = told[n]

FilesAreHonest == TypeOK /\ ReadsBack /\ CutIsSeen /\ ReplayIsHonest /\ SavedIsKept
=============================================================================
