------------------------------- MODULE MCTrace -------------------------------
(***************************************************************************)
(* One number as an id, written as a number and as a string: a request,    *)
(* its answer, and an answer that got the type wrong.  A ring of two       *)
(* frames turns and pairs while it is cleared.                             *)
(***************************************************************************)
EXTENDS Trace

CONSTANTS Number, Text, One, Caller, Answerer

Typed == [exact |-> Number, loose |-> One]
Mistyped == [exact |-> Text, loose |-> One]
Envelope(method, id, weight) ==
  [method |-> method, id |-> id, result |-> ~method, error |-> FALSE,
   omitted |-> FALSE, weight |-> weight]

Request == {Envelope(TRUE, Typed, 1)}
Answer == {Envelope(FALSE, Typed, 1)}

MCSends(s) == IF s = Caller THEN Request ELSE Answer
MCSays ==
  {Envelope(TRUE, Typed, 1), Envelope(FALSE, Typed, 2), Envelope(FALSE, Mistyped, 1),
   [Envelope(FALSE, NoId, 1) EXCEPT !.omitted = TRUE]}
=============================================================================
