------------------------------- MODULE Prompt -------------------------------
(***************************************************************************)
(* The composer (composer.rs, attachment_draft.rs, attachment.rs,          *)
(* clipboard.rs): files picked, dropped or pasted become rows in the order *)
(* they arrived, one worker and the page's clipboard read them at their    *)
(* own pace and say what they are, and Send takes the rows as they stand   *)
(* or nothing; while a `/word` is typed the keys are the command list's.   *)
(***************************************************************************)
EXTENDS Naturals, Sequences, FiniteSets, SequencesExt

CONSTANTS
  MaxAttachments,  \* rows a draft may hold
  MaxTotalBytes,   \* what its rows may come to
  MaxBytes,        \* what one file may come to
  Files,           \* shapes of files: [bytes, begins, named, reads]
  Prompts,         \* what an agent may advertise: sets of "image", "audio", "embedded"
  Lists,           \* the commands it may publish: sequences of names, which
                   \* are sequences of characters
  Texts,           \* what may be typed: sequences of characters
  Budgets,         \* bound: the arrivals and the keys a behaviour has behind it
  MaxKeys,         \* bound: texts typed, keys, and lists published
  MaxArrivals,     \* bound: files, links and pastes that arrive
  MaxTurns,        \* bound: prompts sent
  MaxSessions      \* bound: sessions opened

Reading == "reading"
Ready == "ready"
Failed == "failed"
Refused == [ok |-> FALSE, bytes |-> 0, kind |-> "none"]
Read(kind, size) == [ok |-> TRUE, bytes |-> size, kind |-> kind]
NoRow == [id |-> 0, reading |-> FALSE]

VARIABLES
  session, turn,           \* the session prompted, and how its turn stands
  caps,                    \* what the agent advertised
  rows, next, completed,   \* AttachmentDraft
  queued, reader,          \* the files to read, and the worker: idle, or at one
  overflow,                \* the notice that rows were refused
  pasting,                 \* paste_waiting: the pastes the page has not reserved yet
  deferred,                \* deferred_files: files that arrived behind pastes
  clipboard,               \* rows the page reads
  text, commands,          \* what the box holds, and the agent's latest commands
  highlighted, dismissed,  \* the command list
  drawn,                   \* what the composer drew: its handlers go by that
  prompts,                 \* what was sent, in order
  arrivals, keys           \* bounds, and the order files arrived in

draft == <<rows, next, completed>>
reads == <<queued, reader, clipboard>>
waits == <<pasting, deferred>>
box == <<text, highlighted, dismissed>>
vars == <<session, turn, caps, draft, reads, overflow, waits, box, commands, drawn, prompts,
          arrivals, keys>>

Kinds == {"image", "audio", "pdf", "text", "blob", "link", "none"}
Row == [id : Nat, arrival : Nat, pasted : BOOLEAN, state : {Reading, Ready, Failed},
        bytes : Nat, kind : Kinds]

TypeOK ==
  /\ rows \in Seq(Row) /\ Len(rows) <= MaxAttachments
  /\ DOMAIN completed \subseteq 0..next
  /\ \A i \in DOMAIN queued : queued[i] < next
  /\ turn \in {"idle", "in flight", "cancelling"} /\ caps \in Prompts
  /\ {overflow, dismissed} \subseteq BOOLEAN /\ highlighted \in Nat

Empty ==
  /\ rows = <<>> /\ next = 0 /\ completed = <<>>
  /\ queued = <<>> /\ reader = NoRow /\ clipboard = {}
  /\ overflow = FALSE /\ pasting = <<>> /\ deferred = <<>>
  /\ text = <<>> /\ highlighted = 0 /\ dismissed = FALSE

-----------------------------------------------------------------------------
(***************************************************************************)
(* AttachmentDraft.                                                        *)
(***************************************************************************)
BytesOf(list) == FoldLeft(LAMBDA sum, row : sum + row.bytes, 0, list)
Ids(list) == {list[i].id : i \in DOMAIN list}

\* One row settles with what its read came to, if it fits in what the rows
\* before it left.
SettleRow(before, row, result) ==
  IF ~result.ok \/ before + result.bytes > MaxTotalBytes
  THEN [row EXCEPT !.state = Failed]
  ELSE [row EXCEPT !.state = Ready, !.bytes = result.bytes, !.kind = result.kind]

\* `settle`: rows settle in their order, and the first that is still being
\* read stops the rest.
Settle(list, done) ==
  FoldLeft(LAMBDA acc, row :
             IF acc.stopped \/ (row.state = Reading /\ row.id \notin DOMAIN done)
             THEN [acc EXCEPT !.stopped = TRUE, !.list = Append(@, row)]
             ELSE LET settled == IF row.state # Reading THEN row
                                 ELSE SettleRow(acc.bytes, row, done[row.id])
                  IN [acc EXCEPT !.bytes = @ + settled.bytes, !.list = Append(@, settled)],
           [list |-> <<>>, bytes |-> 0, stopped |-> FALSE], list).list

\* Results a settled or departed row no longer needs are taken out.
Kept(list, done) ==
  [id \in {id \in DOMAIN done : \E i \in DOMAIN list : list[i].id = id /\ list[i].state = Reading}
     |-> done[id]]

Settles(list, done) ==
  /\ rows' = Settle(list, done)
  /\ completed' = Kept(Settle(list, done), done)

\* `finish`, of a row that is still there and being read.
Finish(list, id, result) ==
  IF \E i \in DOMAIN list : list[i].id = id /\ list[i].state = Reading
  THEN Settles(list, [i \in DOMAIN completed \cup {id} |-> IF i = id THEN result ELSE completed[i]])
  ELSE rows' = list /\ UNCHANGED completed

\* `reserve`, of files that arrived together: rows while there is room.
Fit(files) == IF Len(files) <= MaxAttachments - Len(rows) THEN Len(files)
              ELSE MaxAttachments - Len(rows)
Reserved(files, pasted) ==
  [i \in 1..Fit(files) |->
     [id |-> next + i - 1, arrival |-> files[i], pasted |-> i <= pasted,
      state |-> Reading, bytes |-> 0, kind |-> "none"]]
Reserves(files, pasted) ==
  /\ rows' = rows \o Reserved(files, pasted) /\ next' = next + Fit(files)
  /\ overflow' = (overflow \/ Fit(files) < Len(files))
  /\ UNCHANGED completed

(***************************************************************************)
(* Attachment: what a file is, by its bytes before its name.               *)
(***************************************************************************)
KindOf(file) ==
  IF file.begins \in {"image", "audio", "pdf"} THEN file.begins
  ELSE IF file.begins = "none" /\ file.reads = "text" /\ file.named = "other" THEN "text"
  ELSE IF file.named = "media" THEN "none"
  ELSE "blob"

\* `from_bytes`: too large, or named as media its bytes are not, is refused.
FromBytes(file) ==
  IF file.bytes > MaxBytes \/ KindOf(file) = "none" THEN Refused
  ELSE Read(KindOf(file), file.bytes)

\* `require_advertisement`: a link every agent must accept.
Advertised(kind) ==
  CASE kind \in {"image", "audio"} -> kind \in caps
    [] kind \in {"text", "pdf", "blob"} -> "embedded" \in caps
    [] OTHER -> TRUE

\* What a read may come to: the file cannot be read, or is what it is.
FilesRead == {Refused} \cup {FromBytes(file) : file \in Files}
FromFile == {IF Advertised(r.kind) THEN r ELSE Refused : r \in FilesRead}
FromClipboard == {IF r.kind = "image" THEN r ELSE Refused : r \in FilesRead}

(***************************************************************************)
(* The composer's drawing: a handler goes by what was drawn.               *)
(***************************************************************************)
ForTurn ==
  CASE turn = "idle" -> "send" [] turn = "in flight" -> "stop" [] OTHER -> "stopping"

NamingACommand ==
  /\ ~dismissed /\ text # <<>> /\ Head(text) = "/" /\ ~Contains(text, " ")
Matching ==
  IF NamingACommand THEN SelectSeq(commands, LAMBDA name : IsPrefix(Tail(text), name)) ELSE <<>>

\* The list may have become shorter than where the keyboard was.
Highlight(matches) ==
  IF highlighted < Len(matches) \/ matches = <<>> THEN highlighted ELSE Len(matches) - 1

Blank == \A i \in DOMAIN text : text[i] = " "
AllReady == \A i \in DOMAIN rows : rows[i].state = Ready

Now ==
  [running |-> turn # "idle", affordance |-> ForTurn,
   sendable |-> turn = "idle" /\ AllReady /\ ~overflow /\ (~Blank \/ rows # <<>>),
   slashing |-> NamingACommand, matches |-> Matching, highlight |-> Highlight(Matching)]

Undrawn ==
  [running |-> FALSE, affordance |-> "send", sendable |-> FALSE, slashing |-> FALSE,
   matches |-> <<>>, highlight |-> 0]

Init ==
  /\ session = 1 /\ turn = "idle" /\ caps \in Prompts
  /\ commands = <<>> /\ prompts = <<>> /\ \E b \in Budgets : arrivals = b[1] /\ keys = b[2]
  /\ Empty /\ drawn = Undrawn

Redraw ==
  /\ drawn # Now /\ drawn' = Now
  /\ UNCHANGED <<session, turn, caps, draft, reads, overflow, waits, box, commands, prompts,
                 arrivals, keys>>

(***************************************************************************)
(* The composer.                                                           *)
(***************************************************************************)
Open == ~drawn.running
Arrived(n) == [i \in 1..n |-> arrivals + i]

\* Queued rows are read by the one worker, which a first file starts.
Queues(files) ==
  LET ids == [i \in 1..Fit(files) |-> next + i - 1]
  IN /\ queued' = queued \o ids
     /\ reader' = IF files = <<>> THEN reader ELSE [reader EXCEPT !.reading = TRUE]

\* `ingest`, of files picked or dropped: behind a paste they wait for it.
Ingest ==
  \E n \in 1..2 :
    /\ Open /\ caps # {} /\ arrivals + n <= MaxArrivals /\ arrivals' = arrivals + n
    /\ IF pasting # <<>>
       THEN /\ deferred' = Append(deferred, [waiting |-> Len(pasting), files |-> Arrived(n)])
            /\ UNCHANGED <<draft, queued, reader, overflow>>
       ELSE Reserves(Arrived(n), 0) /\ Queues(Arrived(n)) /\ UNCHANGED deferred
    /\ UNCHANGED <<session, turn, caps, clipboard, pasting, box, commands, drawn, prompts, keys>>

\* A paste is counted at once; what it held, the page says later.
Paste ==
  \E n \in 0..1 :
    /\ arrivals < MaxArrivals /\ arrivals' = arrivals + 1
    /\ pasting' = Append(pasting, IF n = 0 THEN <<>> ELSE <<arrivals + 1>>)
    /\ UNCHANGED <<session, turn, caps, draft, reads, overflow, deferred, box, commands, drawn,
                   prompts, keys>>

\* ClipboardInput::Reserve: the paste's rows, then the files that waited only
\* for it.
Freed == FlattenSeq([i \in 1..Len(SelectSeq(deferred, LAMBDA d : d.waiting = 1)) |->
                       SelectSeq(deferred, LAMBDA d : d.waiting = 1)[i].files])
ReservePasted ==
  /\ pasting # <<>>
  /\ LET images == IF Open /\ "image" \in caps THEN Head(pasting) ELSE <<>>
         files == IF Open THEN Freed ELSE <<>>
         all == images \o files
         taken == Fit(images)
     IN /\ Reserves(all, Len(images))
        /\ clipboard' = clipboard \cup {next + i - 1 : i \in 1..taken}
        /\ queued' = queued \o [i \in 1..Fit(all) - taken |-> next + taken + i - 1]
        /\ reader' = IF files = <<>> THEN reader ELSE [reader EXCEPT !.reading = TRUE]
  /\ pasting' = Tail(pasting)
  /\ deferred' = LET left == SelectSeq(deferred, LAMBDA d : d.waiting > 1)
                 IN [i \in DOMAIN left |-> [left[i] EXCEPT !.waiting = @ - 1]]
  /\ UNCHANGED <<session, turn, caps, box, commands, drawn, prompts, arrivals, keys>>

\* The page finished reading a pasted image.
ClipboardFinish ==
  \E id \in clipboard, result \in FromClipboard :
    /\ clipboard' = clipboard \ {id}
    /\ Finish(rows, id, result) /\ UNCHANGED next
    /\ UNCHANGED <<session, turn, caps, queued, reader, overflow, waits, box, commands, drawn,
                   prompts, arrivals, keys>>

\* The worker: it takes the next file, or is done; a read ends in its own time.
WorkerTakes ==
  /\ reader.reading /\ reader.id = 0
  /\ IF queued = <<>>
     THEN reader' = NoRow /\ UNCHANGED queued
     ELSE reader' = [reader EXCEPT !.id = queued[1] + 1] /\ queued' = Tail(queued)
  /\ UNCHANGED <<session, turn, caps, draft, clipboard, overflow, waits, box, commands, drawn,
                 prompts, arrivals, keys>>

WorkerFinishes ==
  /\ reader.reading /\ reader.id # 0
  /\ \E result \in FromFile : Finish(rows, reader.id - 1, result)
  /\ reader' = [reader EXCEPT !.id = 0]
  /\ UNCHANGED <<session, turn, caps, next, queued, clipboard, overflow, waits, box, commands,
                 drawn,
                 prompts, arrivals, keys>>

\* A resource link takes a row and no bytes.
AddLink ==
  /\ Open /\ arrivals < MaxArrivals /\ arrivals' = arrivals + 1
  /\ LET link == <<arrivals + 1>>
     IN IF Fit(link) = 0
        THEN overflow' = TRUE /\ UNCHANGED draft
        ELSE /\ next' = next + 1 /\ UNCHANGED overflow
             /\ Finish(rows \o Reserved(link, 0), next, Read("link", 0))
  /\ UNCHANGED <<session, turn, caps, reads, waits, box, commands, drawn, prompts, keys>>

RemoveRow ==
  \E i \in DOMAIN rows :
    LET left == RemoveAt(rows, i)
    IN /\ Settles(left, [id \in DOMAIN completed \ {rows[i].id} |-> completed[id]])
       /\ queued' = SelectSeq(queued, LAMBDA id : id # rows[i].id)
       /\ clipboard' = clipboard \ {rows[i].id}
       /\ UNCHANGED <<session, turn, caps, next, reader, overflow, waits, box, commands, drawn,
                      prompts, arrivals, keys>>

Dismiss ==
  /\ overflow /\ overflow' = FALSE
  /\ UNCHANGED <<session, turn, caps, draft, reads, waits, box, commands, drawn, prompts,
                 arrivals, keys>>

Type ==
  \E typed \in Texts \ {text} :
    /\ keys < MaxKeys /\ keys' = keys + 1
    /\ text' = typed /\ dismissed' = FALSE /\ highlighted' = 0
    /\ UNCHANGED <<session, turn, caps, draft, reads, overflow, waits, commands, drawn, prompts,
                   arrivals>>

\* The agent publishes its commands, whatever is being typed.
Publish ==
  \E list \in Lists \ {commands} :
    /\ keys < MaxKeys /\ keys' = keys + 1 /\ commands' = list
    /\ UNCHANGED <<session, turn, caps, draft, reads, overflow, waits, box, drawn, prompts,
                   arrivals>>

\* While the list is open its keys move over it, fill the box or wave it away.
Moves(to) == highlighted' = to /\ UNCHANGED <<text, dismissed>>
Fill(name) == text' = <<"/">> \o name \o <<" ">> /\ highlighted' = 0 /\ UNCHANGED dismissed
ListKey ==
  LET size == Len(drawn.matches)
  IN /\ keys < MaxKeys /\ keys' = keys + 1
     /\ \/ /\ size > 0
           /\ \/ Moves((drawn.highlight + 1) % size)
              \/ Moves((drawn.highlight + size - 1) % size)
              \/ \E i \in 1..size :  \* Enter or Tab on the highlighted one, or a click on any
                   Fill(drawn.matches[i])
        \/ drawn.slashing /\ dismissed' = TRUE /\ UNCHANGED <<text, highlighted>>
     /\ UNCHANGED <<session, turn, caps, draft, reads, overflow, waits, commands, drawn, prompts,
                    arrivals>>

\* Input, a drop and Send may come in one batch: what was drawn sendable is
\* looked at again.
RecheckedVariant == TRUE
Rechecked == ~overflow /\ pasting = <<>> /\ AllReady /\ (~Blank \/ rows # <<>>)

\* Send, by its button or by Enter. Core refuses a prompt while a turn runs,
\* and only an admitted one clears the draft.
Send ==
  /\ drawn.sendable
  /\ Rechecked /\ turn = "idle" /\ Len(prompts) < MaxTurns
  /\ prompts' = Append(prompts, rows) /\ turn' = "in flight"
  /\ text' = <<>> /\ rows' = <<>> /\ completed' = <<>> /\ queued' = <<>>
  /\ UNCHANGED <<session, caps, next, reader, clipboard, overflow, waits, commands, highlighted,
                 dismissed, drawn, arrivals, keys>>

\* Stop, the same button drawn while the turn ran.
Stop ==
  /\ drawn.affordance = "stop" /\ turn = "in flight" /\ turn' = "cancelling"
  /\ UNCHANGED <<session, caps, draft, reads, overflow, waits, box, commands, drawn, prompts,
                 arrivals, keys>>

TurnEnds ==
  /\ turn # "idle" /\ turn' = "idle"
  /\ UNCHANGED <<session, caps, draft, reads, overflow, waits, box, commands, drawn, prompts,
                 arrivals, keys>>

\* Another session is another composer: its worker goes with it.
Switch ==
  /\ session < MaxSessions /\ session' = session + 1 /\ turn' = "idle"
  /\ rows' = <<>> /\ next' = 0 /\ completed' = <<>> /\ queued' = <<>> /\ reader' = NoRow
  /\ clipboard' = {} /\ overflow' = FALSE /\ pasting' = <<>> /\ deferred' = <<>>
  /\ text' = <<>> /\ highlighted' = 0 /\ dismissed' = FALSE
  /\ commands' = <<>> /\ drawn' = Undrawn
  /\ UNCHANGED <<caps, prompts, arrivals, keys>>

Next ==
  \/ Ingest \/ Paste \/ ReservePasted \/ ClipboardFinish
  \/ WorkerTakes \/ WorkerFinishes \/ AddLink \/ RemoveRow \/ Dismiss
  \/ Type \/ Publish \/ ListKey \/ Send \/ Stop \/ TurnEnds \/ Switch \/ Redraw

Spec == Init /\ [][Next]_vars

-----------------------------------------------------------------------------
(* Results settle in selection order, so disk speed cannot decide which    *)
(* attachment gets the remaining bytes: no row is settled behind one still *)
(* being read, and the ready ones fit (attachment_draft.rs:23-25).         *)
SettledInOrder ==
  /\ \A i, j \in DOMAIN rows : i < j /\ rows[j].state # Reading => rows[i].state # Reading
  /\ BytesOf(rows) <= MaxTotalBytes

(* A late completion resurrects nothing: what is kept is of a row that is  *)
(* being read, and every such row has somebody reading it.                 *)
ReadsAreOfRows ==
  /\ DOMAIN completed \subseteq {rows[i].id : i \in {i \in DOMAIN rows : rows[i].state = Reading}}
  /\ \A i \in DOMAIN rows : rows[i].state = Reading =>
       \/ rows[i].id \in DOMAIN completed \cup clipboard
       \/ reader.reading /\ (reader.id = rows[i].id + 1 \/ Contains(queued, rows[i].id))

(* Rows stand in the order their files arrived, a paste the page was slow  *)
(* to describe before the drop behind it; and what waits for a paste is    *)
(* never left waiting for none.                                            *)
ArrivalOrder(list) == \A i, j \in DOMAIN list : i < j => list[i].arrival < list[j].arrival
FilesOf(list) == SelectSeq(list, LAMBDA r : r.state # Ready \/ r.bytes > 0)
RowsInOrder ==
  /\ ArrivalOrder(FilesOf(rows))
  /\ \A i \in DOMAIN deferred : deferred[i].waiting \in 1..Len(pasting)

(* A prompt carries every row its reader saw, whole: nothing still being   *)
(* read or refused is left out in silence.                                 *)
SentIsWhole ==
  \A i \in DOMAIN prompts :
    /\ \A j \in DOMAIN prompts[i] : prompts[i][j].state = Ready
    /\ BytesOf(prompts[i]) <= MaxTotalBytes

(* Nothing is sent that the agent did not advertise or twice: each file is *)
(* in one prompt at most, and what was pasted is an image.                 *)
SentAsAdvertised ==
  \A i \in DOMAIN prompts : \A j \in DOMAIN prompts[i] :
    LET row == prompts[i][j]
    IN /\ Advertised(row.kind) /\ (row.pasted => row.kind = "image")
       /\ \A k \in DOMAIN prompts : \A l \in DOMAIN prompts[k] :
            prompts[k][l].arrival = row.arrival => <<i, j>> = <<k, l>>

(* The highlighted command is one of those listed, though the agent may    *)
(* have published a shorter list meanwhile: Enter indexes the list with it.*)
HighlightInRange == drawn.matches # <<>> => drawn.highlight < Len(drawn.matches)

PromptIsSafe ==
  /\ TypeOK /\ SettledInOrder /\ ReadsAreOfRows /\ RowsInOrder /\ SentIsWhole
  /\ SentAsAdvertised /\ HighlightInRange
=============================================================================
