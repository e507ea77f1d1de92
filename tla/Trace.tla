-------------------------------- MODULE Trace --------------------------------
(***************************************************************************)
(* The trace (crates/core/src/trace.rs) over the log it is kept in         *)
(* (store.rs) and the frame ends that record into it (connection.rs):      *)
(* senders that reserve a place and then record and enqueue under the      *)
(* log's lock, a reader per connection that records what it takes, a       *)
(* person who clears the log, and the file an export writes and an import  *)
(* reads back (export.rs, import.rs).                                      *)
(*                                                                         *)
(* A frame is its JSON-RPC envelope and its weight.  Ordinals count from   *)
(* zero.  `past`, `handed` and `said` remember what happened and are read  *)
(* by the properties only.                                                 *)
(***************************************************************************)
EXTENDS Integers, Sequences, FiniteSets, SequencesExt

CONSTANTS
  Senders,          \* the tasks that send frames
  Sends(_),         \* the frames each of them sends,
  Says,             \* and those the agent does: [method, id, result, error, omitted, weight]
  NoId,             \* the id of a frame without one
  None,             \* no frame
  Capacity,         \* Trace::CAPACITY
  ByteCapacity,     \* Trace::BYTE_CAPACITY
  QueueCapacity,    \* FRAME_CAPACITY of a connection
  MaxConnections,   \* bound: connections tapped
  MaxFrames,        \* bound: frames recorded
  MaxUnread,        \* bound: frames read from an agent and not yet received
  MaxClears         \* bound: times a person clears

Frames == Says \cup UNION {Sends(s) : s \in Senders}

ASSUME TraceAssumption ==
  /\ Capacity \in Nat \ {0} /\ ByteCapacity \in Nat
  /\ QueueCapacity \in Nat \ {0}
  /\ MaxConnections \in Nat \ {0} /\ MaxFrames \in Nat /\ MaxUnread \in Nat /\ MaxClears \in Nat
  /\ None \notin Frames
  /\ \A s \in Senders : \A f \in Sends(s) : ~f.omitted
  /\ \A f \in Frames : f.weight \in Nat

Connections == 1..MaxConnections
Ways == {"ToAgent", "FromAgent"}
Opposite(way) == IF way = "ToAgent" THEN "FromAgent" ELSE "ToAgent"

\* An id keeps its JSON type in `exact`; `loose` is the integer it means.
Kind(f) ==
  IF f.omitted THEN "Unreadable"
  ELSE IF f.method THEN IF f.id = NoId THEN "Notification" ELSE "Call"
  ELSE IF f.error THEN "Error"
  ELSE IF f.result THEN "Result"
  ELSE "Unreadable"

VARIABLES
  entries, dropped, bytes,     \* Log: the ring, what it let go of, its bytes
  open, links,                 \* Pairs: requests without an answer; counterparts
  connections,                 \* connections tapped so far
  permit,                      \* sender -> the frame it has a place for, and where
  queue,                       \* connection -> frames queued for the transport
  incoming,                    \* connection -> frames read and not yet received
  clearing, bound, clears,     \* where `clear` is, what it read, how often it ran
  past, handed, said           \* history: recorded, enqueued, sent by the agent

log == <<entries, dropped, bytes>>
pairs == <<open, links>>
ends == <<queue, incoming>>
vars == <<log, pairs, connections, permit, ends, clearing, bound, clears, past, handed, said>>

Traced == [connection : Connections, way : Ways, frame : Frames]
Ordinals == 0..(MaxFrames - 1)

TypeOK ==
  /\ entries \in Seq(Traced) /\ dropped \in Nat /\ bytes \in Nat
  /\ \A o \in open : /\ o.connection \in Connections /\ o.way \in Ways
                     /\ o.ordinal \in Ordinals
  /\ DOMAIN links \subseteq Ordinals
  /\ \A o \in DOMAIN links : links[o].ordinal \in Ordinals /\ links[o].mistyped \in BOOLEAN
  /\ connections \in 0..MaxConnections
  /\ \A s \in Senders : permit[s] = None \/ permit[s] \in Traced
  /\ \A c \in Connections :
       /\ queue[c] \in Seq(Frames) /\ Len(queue[c]) <= QueueCapacity
       /\ incoming[c] \in Seq(Frames)
  /\ clearing \in {"idle", "emptied", "read"} /\ bound \in Nat
  /\ clears \in 0..MaxClears
  /\ past \in Seq(Traced)

Init ==
  /\ entries = <<>> /\ dropped = 0 /\ bytes = 0
  /\ open = {} /\ links = <<>>
  /\ connections = 0
  /\ permit = [s \in Senders |-> None]
  /\ queue = [c \in Connections |-> <<>>]
  /\ incoming = [c \in Connections |-> <<>>]
  /\ clearing = "idle" /\ bound = 0 /\ clears = 0
  /\ past = <<>>
  /\ handed = [c \in Connections |-> <<>>]
  /\ said = [c \in Connections |-> <<>>]

(***************************************************************************)
(* The log: a ring bounded by entries and by bytes (`Log::append_then`).   *)
(* The definitions named "...Variant" are plausible slips of the one after *)
(* them; no specification uses them.                                       *)
(***************************************************************************)
Weight(es) == FoldLeft(LAMBDA sum, e : sum + e.frame.weight, 0, es)

\* How many entries leave from the front so that the rest is within budget.
Excess(es, total) ==
  CHOOSE k \in 0..Len(es) :
    /\ Len(es) - k <= Capacity /\ total - Weight(SubSeq(es, 1, k)) <= ByteCapacity
    /\ \A j \in 0..(k - 1) :
         \/ Len(es) - j > Capacity
         \/ total - Weight(SubSeq(es, 1, j)) > ByteCapacity

\* A log with `e` appended, and the ordinal it took.
Appended(l, e) ==
  LET es == Append(l.entries, e)
      total == l.bytes + e.frame.weight
      gone == Excess(es, total)
  IN [entries |-> SubSeq(es, gone + 1, Len(es)),
      dropped |-> l.dropped + gone,
      bytes |-> total - Weight(SubSeq(es, 1, gone))]

NextOrdinal(l) == l.dropped + Len(l.entries)

(***************************************************************************)
(* Pairing requests with their answers (`Trace::pair`).                    *)
(***************************************************************************)
\* A request replaces the one still open under its key.
Asks(p, e, ordinal) ==
  [p EXCEPT !.open =
     {o \in @ : ~(o.connection = e.connection /\ o.way = e.way /\ o.exact = e.frame.id.exact)}
       \cup {[connection |-> e.connection, way |-> e.way, exact |-> e.frame.id.exact,
              loose |-> e.frame.id.loose, ordinal |-> ordinal]}]

Link(other, mistyped) == [ordinal |-> other, mistyped |-> mistyped]
With(f, o, value) == [x \in DOMAIN f \cup {o} |-> IF x = o THEN value ELSE f[x]]

\* Where an answer looks for the request it answers.
Asker(e) == [connection |-> e.connection, way |-> Opposite(e.way)]

AskedBy(p, e) == {o \in p.open : [connection |-> o.connection, way |-> o.way] = Asker(e)}
Exactly(p, e) == {o \in AskedBy(p, e) : o.exact = e.frame.id.exact}
Loosely(p, e) == {o \in AskedBy(p, e) : o.loose = e.frame.id.loose /\ o.loose # NoId}

\* An answer closes the request with its id; a mistyped one only points at one
\* that means the same number, whichever the map yields first.
AnswersVariant(p, e, ordinal) ==
  IF Loosely(p, e) = {} THEN {p}
  ELSE {[open |-> p.open \ {r},
         links |-> With(With(p.links, r.ordinal, Link(ordinal, r.exact # e.frame.id.exact)),
                        ordinal, Link(r.ordinal, r.exact # e.frame.id.exact))]
          : r \in Loosely(p, e)}
Answers(p, e, ordinal) ==
  IF Exactly(p, e) # {}
    THEN {[open |-> p.open \ {r},
           links |-> With(With(p.links, r.ordinal, Link(ordinal, FALSE)),
                          ordinal, Link(r.ordinal, FALSE))] : r \in Exactly(p, e)}
  ELSE IF Loosely(p, e) # {}
    THEN {[p EXCEPT !.links = With(@, ordinal, Link(r.ordinal, TRUE))] : r \in Loosely(p, e)}
  ELSE {p}

\* Both ends of a pair must still be held for it to be kept.
Kept(ls, from) ==
  LET both == {o \in DOMAIN ls : o >= from /\ ls[o].ordinal >= from}
  IN [o \in both |-> ls[o]]

\* The pairing lets go of what the ring has let go of, now and then.
Forgotten(p, from) ==
  [open  |-> IF Cardinality(p.open) > Capacity
             THEN {o \in p.open : o.ordinal >= from} ELSE p.open,
   links |-> IF Cardinality(DOMAIN p.links) > 2 * Capacity
             THEN Kept(p.links, from) ELSE p.links]

\* What the pairing can be after `e`; a frame without an id leaves it alone.
Paired(p, e, ordinal, from) ==
  IF Kind(e.frame) = "Unreadable" \/ e.frame.id = NoId THEN {p}
  ELSE {Forgotten(q, from) :
          q \in CASE Kind(e.frame) = "Call" -> {Asks(p, e, ordinal)}
                  [] Kind(e.frame) \in {"Result", "Error"} -> Answers(p, e, ordinal)
                  [] OTHER -> {p}}

(***************************************************************************)
(* Recording and handing on.                                               *)
(***************************************************************************)
\* `Trace::record` and the recording half of `record_then`: one lock.
Recorded(e) ==
  LET now == [entries |-> entries, dropped |-> dropped, bytes |-> bytes]
  IN \E then \in {Appended(now, e)} :
     /\ entries' = then.entries /\ dropped' = then.dropped /\ bytes' = then.bytes
     /\ \E p \in Paired([open |-> open, links |-> links], e, NextOrdinal(now), then.dropped) :
          open' = p.open /\ links' = p.links
     /\ past' = Append(past, e)

Enqueue(e) ==
  /\ queue' = [queue EXCEPT ![e.connection] = Append(@, e.frame)]
  /\ handed' = [handed EXCEPT ![e.connection] = Append(@, e.frame)]

\* `Trace::tap`: a launch's connection records under the next number.
Tap ==
  /\ connections < MaxConnections
  /\ connections' = connections + 1
  /\ UNCHANGED <<log, pairs, permit, ends, clearing, bound, clears, past, handed, said>>

\* The places reserved on a connection's queue.
Reserved(c) == {s \in Senders : permit[s] # None /\ permit[s].connection = c}

\* Frames recorded and on their way to be.
Crossing == Len(past) + Cardinality({s \in Senders : permit[s] # None})
              + Cardinality(UNION {{c} \X DOMAIN incoming[c] : c \in Connections})

\* `try_send`, `send_captured`: a place in the queue first.
Reserve(s, c, f) ==
  /\ permit[s] = None /\ c <= connections
  /\ Len(queue[c]) + Cardinality(Reserved(c)) < QueueCapacity
  /\ Crossing < MaxFrames
  /\ permit' = [permit EXCEPT ![s] = [connection |-> c, way |-> "ToAgent", frame |-> f]]
  /\ UNCHANGED <<log, pairs, connections, ends, clearing, bound, clears, past, handed, said>>

\* Then recorded and enqueued under the log's lock.
RecordThenVariant(s) ==
  /\ permit[s] # None
  /\ UNCHANGED <<connections, incoming, clearing, bound, clears, said>>
  /\ \/ /\ permit[s].way = "ToAgent"
        /\ Recorded(permit[s])
        /\ permit' = [permit EXCEPT ![s].way = "FromAgent"]
        /\ UNCHANGED <<queue, handed>>
     \/ /\ permit[s].way = "FromAgent"
        /\ Enqueue(permit[s])
        /\ permit' = [permit EXCEPT ![s] = None]
        /\ UNCHANGED <<log, pairs, past>>
RecordThen(s) ==
  /\ permit[s] # None
  /\ Recorded(permit[s])
  /\ Enqueue(permit[s])
  /\ permit' = [permit EXCEPT ![s] = None]
  /\ UNCHANGED <<connections, incoming, clearing, bound, clears, said>>

TransportWrites(c) ==
  /\ queue[c] # <<>>
  /\ queue' = [queue EXCEPT ![c] = Tail(@)]
  /\ UNCHANGED <<log, pairs, connections, permit, incoming, clearing, bound,
                 clears, past, handed, said>>

AgentSays(c, f) ==
  /\ c <= connections /\ Len(incoming[c]) < MaxUnread
  /\ Crossing < MaxFrames
  /\ incoming' = [incoming EXCEPT ![c] = Append(@, f)]
  /\ said' = [said EXCEPT ![c] = Append(@, f)]
  /\ UNCHANGED <<log, pairs, connections, permit, queue, clearing, bound, clears, past, handed>>

\* `FrameStream::recv`: taken off the channel, and recorded before it returns.
Receive(c) ==
  /\ incoming[c] # <<>>
  /\ Recorded([connection |-> c, way |-> "FromAgent", frame |-> Head(incoming[c])])
  /\ incoming' = [incoming EXCEPT ![c] = Tail(@)]
  /\ UNCHANGED <<connections, permit, queue, clearing, bound, clears, handed, said>>

(***************************************************************************)
(* `Trace::clear`: three lockings, with frames recorded in between.        *)
(***************************************************************************)
ClearLog ==
  /\ clearing = "idle" /\ clears < MaxClears
  /\ dropped' = dropped + Len(entries)
  /\ entries' = <<>> /\ bytes' = 0
  /\ clearing' = "emptied" /\ clears' = clears + 1
  /\ UNCHANGED <<pairs, connections, permit, ends, bound, past, handed, said>>

ReadDropped ==
  /\ clearing = "emptied"
  /\ bound' = dropped /\ clearing' = "read"
  /\ UNCHANGED <<log, pairs, connections, permit, ends, clears, past, handed, said>>

\* Pairs made since the log was emptied are kept.
ForgetPairs ==
  /\ clearing = "read"
  /\ links' = Kept(links, bound)
  /\ clearing' = "idle"
  /\ UNCHANGED <<log, open, connections, permit, ends, bound, clears, past, handed, said>>

Next ==
  \/ Tap
  \/ \E s \in Senders : \/ \E c \in Connections : \E f \in Sends(s) : Reserve(s, c, f)
                        \/ RecordThen(s)
  \/ \E c \in Connections : \/ TransportWrites(c)
                            \/ \E f \in Says : AgentSays(c, f)
                            \/ Receive(c)
  \/ ClearLog \/ ReadDropped \/ ForgetPairs

Spec == Init /\ [][Next]_vars

(***************************************************************************)
(* The file an export writes and what an import makes of it.               *)
(***************************************************************************)
Omitted(es) == SelectSeq(es, LAMBDA e : e.frame.omitted)

\* `Export`: the snapshot's frames, and a header that counts a placeholder for
\* a frame too long to carry among what the file does not have.
ExportedVariant(es, gone) ==
  [records |-> SelectSeq(es, LAMBDA e : ~e.frame.omitted), frames |-> Len(es), dropped |-> gone]
Exported(es, gone) ==
  [records |-> es,
   frames  |-> Len(es) - Len(Omitted(es)),
   dropped |-> gone + Len(Omitted(es))]

\* A placeholder read back carries no text.
Rebuilt(e) == IF e.frame.omitted THEN [e EXCEPT !.frame.weight = 0] ELSE e

\* `Trace::from_records`: numbered from `gone`, and paired again.
FromRecords(es, gone) ==
  FoldLeft(LAMBDA made, e :
             LET then == Appended(made, e) IN
             [entries |-> then.entries, dropped |-> then.dropped, bytes |-> then.bytes,
              pairs |-> UNION {Paired(p, e, NextOrdinal(made), then.dropped) : p \in made.pairs}],
           [entries |-> <<>>, dropped |-> gone, bytes |-> 0,
            pairs |-> {[open |-> {}, links |-> <<>>]}],
           es)

\* `Imported::parse`: what the header counts less the placeholders it carries.
Imported(file) ==
  LET placeholders == Len(Omitted(file.records))
      claimed == file.dropped
  IN FromRecords([i \in DOMAIN file.records |-> Rebuilt(file.records[i])],
                 IF claimed > placeholders THEN claimed - placeholders ELSE 0)

(***************************************************************************)
(* What the trace promises.                                                *)
(***************************************************************************)
Of(es, c, way) ==
  LET those == SelectSeq(es, LAMBDA e : e.connection = c /\ e.way = way)
  IN [i \in DOMAIN those |-> those[i].frame]

\* Recorded order is send order and reading order, on every connection, with
\* several tasks sending and an old connection still draining
\* (trace.rs `record_then`, connection.rs `send_captured`, `recv`).
RecordedAsSent ==
  \A c \in Connections :
    /\ Of(past, c, "ToAgent") = handed[c]
    /\ Of(past, c, "FromAgent") \o incoming[c] = said[c]

\* An ordinal finds its frame as the ring turns and is cleared: what is held is
\* the end of all that crossed, within both limits, and `dropped` counts exactly
\* the rest; the bytes counted are those held (store.rs `append_then`, `clear`).
TailIsHeld ==
  /\ dropped + Len(entries) = Len(past)
  /\ entries = SubSeq(past, dropped + 1, Len(past))
  /\ Len(entries) <= Capacity
  /\ bytes = Weight(entries) /\ bytes <= ByteCapacity

\* The log is the truth about what crossed: its order, its place and its count.
LogIsTrue == TypeOK /\ RecordedAsSent /\ TailIsHeld

\* Reference: frame `a` of the past answers request `r` by id, exactly or only
\* as a number; `r` was the latest under its key and had no answer before.
Meets(a, r, exactly) ==
  LET answer == past[a + 1]
      request == past[r + 1]
      Same(x) == x.connection = request.connection /\ x.frame.id # NoId
                   /\ x.frame.id.exact = request.frame.id.exact
  IN /\ r < a
     /\ Kind(request.frame) = "Call" /\ Kind(answer.frame) \in {"Result", "Error"}
     /\ answer.frame.id # NoId
     /\ answer.connection = request.connection /\ answer.way = Opposite(request.way)
     /\ IF exactly THEN answer.frame.id.exact = request.frame.id.exact
        ELSE /\ answer.frame.id.loose = request.frame.id.loose
             /\ answer.frame.id.loose # NoId
             /\ answer.frame.id.exact # request.frame.id.exact
     /\ \A i \in (r + 1)..(a - 1) :
          ~(/\ Same(past[i + 1])
            /\ \/ past[i + 1].way = request.way /\ Kind(past[i + 1].frame) = "Call"
               \/ /\ past[i + 1].way = answer.way
                  /\ Kind(past[i + 1].frame) \in {"Result", "Error"})

Held == dropped..(dropped + Len(entries) - 1)

\* Every counterpart the trace names is right, and none between two frames it
\* holds is missing, however the ring turned and clearing ran among the
\* recordings; a mistyped answer points at a request and never closes it.
PairsAreTrue ==
  /\ \A o \in DOMAIN links :
       LET other == links[o].ordinal IN
       IF links[o].mistyped THEN Meets(o, other, FALSE)
       ELSE Meets(o, other, TRUE) \/ Meets(other, o, TRUE)
  /\ \A a, r \in Held :
       Meets(a, r, TRUE) => /\ {a, r} \subseteq DOMAIN links
                            /\ links[a] = Link(r, FALSE) /\ links[r] = Link(a, FALSE)
  /\ \A a \in Held :
       /\ \E r \in Held : Meets(a, r, FALSE)
       /\ ~\E r \in 0..(a - 1) : Meets(a, r, TRUE)
       => a \in DOMAIN links

\* The pairing holds no more than the ring's frames call for: it lets go of
\* what the ring let go of, so an agent that never answers cannot make it grow.
PairingIsBounded ==
  /\ Cardinality(open) <= Capacity
  /\ Cardinality(DOMAIN links) <= 2 * Capacity

\* Pairing is right, complete for what is held, and no larger than it.
PairingIsTrue == PairsAreTrue /\ PairingIsBounded

\* A file opened again is the trace it was saved from: the frames under the
\* ordinals they were captured with, and every exact pair among them.
FileRebuildsTrace ==
  LET file == Exported(entries, dropped)
      made == Imported(file)
      Exact(ls) == {<<o, ls[o].ordinal>> : o \in {x \in DOMAIN ls \cap Held :
                       ~ls[x].mistyped /\ ls[x].ordinal \in Held}}
  IN /\ made.entries = [i \in DOMAIN entries |-> Rebuilt(entries[i])]
     /\ made.dropped = dropped
     /\ \A p \in made.pairs : Exact(p.links) = Exact(links)
=============================================================================
