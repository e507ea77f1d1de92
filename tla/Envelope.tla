------------------------------ MODULE Envelope ------------------------------
(***************************************************************************)
(* How a frame is read: the label the trace gives it (crates/core/src/     *)
(* frame.rs `summary`), what it is acted on as (rpc.rs `classify`), what   *)
(* is still read off one that was cut short (`answer_id`, `request_id`),   *)
(* the value and the numbers it decodes to (decode.rs, stock_number.rs),   *)
(* and the one line a composed frame is written as (rpc.rs `composed`).    *)
(* Each reader is written by hand over the text; the properties compare    *)
(* them with each other and with what JSON says the text means.            *)
(***************************************************************************)
EXTENDS Integers, Sequences, FiniteSets, SequencesExt

CONSTANTS
  MaxMembers,      \* members of an envelope
  MaxDepth,        \* containers within containers: 127 in the code
  Width,           \* bits of an integer: 64
  Power,           \* the powers of ten a float is scaled by at once: 308
  MaxExplicit      \* the largest exponent that can be written: 2^31 - 1

VARIABLE read      \* what is read: a line, a cut line, a value, a text or a number

None == [json |-> "none"]

(***************************************************************************)
(* An envelope: its members in order, a key perhaps repeated.              *)
(***************************************************************************)
Ids == {[json |-> "integer", means |-> 3], [json |-> "integer", means |-> 4],
        [json |-> "text", means |-> 3], [json |-> "text", means |-> -1],
        [json |-> "float", means |-> 3], [json |-> "float", means |-> -1],
        [json |-> "null"], [json |-> "other"]}         \* -1: no integer
Members == {[key |-> "method", value |-> v] : v \in {[json |-> "text"], [json |-> "other"]}}
             \cup {[key |-> "id", value |-> v] : v \in Ids}
             \cup {[key |-> k, value |-> [json |-> "other"]] : k \in {"result", "error", "params"}}
Lines == SeqOf(Members, MaxMembers)

\* A repeated key keeps its last value.
Field(line, key) ==
  LET said == {i \in DOMAIN line : line[i].key = key}
  IN IF said = {} THEN None ELSE line[CHOOSE i \in said : \A j \in said : j <= i].value
Has(line, key) == Field(line, key) # None

\* The trace's label (frame.rs `summary`).
Kind(line) ==
  LET named == Field(line, "method").json = "text"
      numbered == Field(line, "id").json \in {"integer", "float", "text"}
  IN IF named /\ numbered THEN "call"
     ELSE IF named THEN "notification"
     ELSE IF Has(line, "error") THEN "error"
     ELSE IF Has(line, "result") THEN "result"
     ELSE "unreadable"

\* What the typed layer acts on (rpc.rs `classify`).
Incoming(line) ==
  LET named == Field(line, "method").json = "text"
      id == Field(line, "id")
      answers == id.json \notin {"none", "null"}
  IN IF named /\ answers THEN [is |-> "request", id |-> id]
     ELSE IF named THEN [is |-> "notification", id |-> None]
     ELSE IF answers THEN [is |-> IF Has(line, "error") THEN "refusal" ELSE "answer", id |-> id]
     ELSE IF Has(line, "error") THEN [is |-> "unaddressed", id |-> None]
     ELSE [is |-> "unreadable", id |-> None]

(***************************************************************************)
(* Ids: which are this client's, and which were when they crossed.         *)
(***************************************************************************)
Ours(id) == IF id.json = "integer" THEN id.means ELSE -1
Mistyped(id) == IF id.json \in {"integer", "float", "text"} THEN id.means ELSE -1
Key(id) == [exact |-> <<id.json, id>>, loose |-> Mistyped(id)]

(***************************************************************************)
(* A line past the limit keeps its start: whole members, then the key the  *)
(* cut left readable, if any.                                              *)
(***************************************************************************)
CutAt(line, n, readable) ==
  [whole |-> SubSeq(line, 1, n), next |-> IF readable THEN line[n + 1].key ELSE "cut",
   line |-> line]

\* Read until `result` or `error`; a `method` before it makes it no answer.
AnswerId(cut) ==
  LET Keys == Append([i \in DOMAIN cut.whole |-> cut.whole[i].key], cut.next)
      ends == {i \in DOMAIN Keys : Keys[i] \in {"method", "result", "error"}}
      at == CHOOSE i \in ends : \A j \in ends : i <= j
  IN IF ends = {} \/ Keys[at] = "method" THEN -1
     ELSE LET id == Field(SubSeq(cut.whole, 1, at - 1), "id") IN
          IF id = None THEN -1 ELSE Ours(id)

\* Read until both `id` and `method` are behind; a `result` or an `error` before that
\* makes it no request.
RequestId(cut) ==
  LET Upto(n) == SubSeq(cut.whole, 1, n)
      Addressed(n) == Field(Upto(n), "id").json \in {"integer", "float", "text"}
      done == {n \in 0..Len(cut.whole) : Addressed(n) /\ Has(Upto(n), "method")}
      first == CHOOSE n \in done : \A m \in done : n <= m
  IN IF done = {} \/ (cut.next = "cut" /\ first = Len(cut.whole)) THEN None
     ELSE IF Has(Upto(first), "result") \/ Has(Upto(first), "error") THEN None
     ELSE Field(Upto(first), "id")

(***************************************************************************)
(* Values: text the JSON reader validated, walked once (decode.rs `Walk`). *)
(***************************************************************************)
Leaf == [is |-> "leaf"]
Problem == [is |-> "problem"]
RECURSIVE Trees(_)
Trees(depth) ==
  IF depth = 0 THEN {Leaf}
  ELSE LET below == Trees(depth - 1)
           named == {[key |-> k, value |-> t] : k \in {"a", "b"}, t \in below}
       IN {Leaf} \cup {[is |-> "object", members |-> m] : m \in SeqOf(named, 2)}
                 \cup {[is |-> "array", items |-> m] : m \in SeqOf(below, 2)}

RECURSIVE Text(_)
Text(tree) ==
  LET Listed(parts) ==
        FoldLeft(LAMBDA text, part : IF text = <<>> THEN part ELSE text \o <<",">> \o part,
                 <<>>, parts)
  IN CASE tree.is = "leaf" -> <<"0">>
       [] tree.is = "array" ->
            <<"[">> \o Listed([i \in DOMAIN tree.items |-> Text(tree.items[i])]) \o <<"]">>
       [] OTHER ->
            <<"{">> \o Listed([i \in DOMAIN tree.members |->
                        <<tree.members[i].key, ":">> \o Text(tree.members[i].value)]) \o <<"}">>

\* The value at `at`, and where it ends. An object is built up member by member.
RECURSIVE Value(_, _, _), ObjectFrom(_, _, _, _), ArrayFrom(_, _, _, _)
Value(text, at, depth) ==
  IF text[at] \in {"{", "["} /\ depth >= MaxDepth THEN <<Problem, at>>
  ELSE IF text[at] = "{" /\ text[at + 1] = "}" THEN <<[is |-> "object", members |-> <<>>], at + 2>>
  ELSE IF text[at] = "{" THEN ObjectFrom(text, at + 1, depth, <<>>)
  ELSE IF text[at] = "[" /\ text[at + 1] = "]" THEN <<[is |-> "array", items |-> <<>>], at + 2>>
  ELSE IF text[at] = "[" THEN ArrayFrom(text, at + 1, depth, <<>>)
  ELSE <<Leaf, at + 1>>

\* Sorted by key, so that what a key last said is all that tells two objects apart.
Insert(members, key, value) ==
  LET others == SelectSeq(members, LAMBDA m : m.key # key)
      Under(k) == SelectSeq(Append(others, [key |-> key, value |-> value]), LAMBDA m : m.key = k)
  IN Under("a") \o Under("b")

ObjectFrom(text, at, depth, members) ==
  LET value == Value(text, at + 2, depth + 1)
      next == Insert(members, text[at], value[1])
  IN IF value[1] = Problem THEN value
     ELSE IF text[value[2]] = "," THEN ObjectFrom(text, value[2] + 1, depth, next)
     ELSE <<[is |-> "object", members |-> next], value[2] + 1>>

ArrayFrom(text, at, depth, items) ==
  LET value == Value(text, at, depth + 1)
      next == Append(items, value[1])
  IN IF value[1] = Problem THEN value
     ELSE IF text[value[2]] = "," THEN ArrayFrom(text, value[2] + 1, depth, next)
     ELSE <<[is |-> "array", items |-> next], value[2] + 1>>

FrameValue(text) == Value(text, 1, 0)

(***************************************************************************)
(* Composed parameters, written on one line (rpc.rs `one_line`).  q is a   *)
(* quote, b a backslash, n a newline, c any other character.               *)
(***************************************************************************)
Strings == {<<"q">> \o body \o <<"q">> :
              body \in {<<>>, <<"c">>, <<"s">>, <<"b", "q">>, <<"b", "b">>, <<"b", "q", "s", "c">>}}
Pieces == Strings \cup {<<"c">>, <<"n">>, <<"s">>}        \* s is a space
Written(pieces) == FoldLeft(LAMBDA text, piece : text \o piece, <<>>, pieces)

OneLine(text) ==
  LET Step(state, character) ==
        IF state.quoted
        THEN [out |-> Append(state.out, character),
              quoted |-> state.escaped \/ character # "q",
              escaped |-> ~state.escaped /\ character = "b"]
        ELSE [out |-> IF character \in {"n", "s"} THEN state.out ELSE Append(state.out, character),
              quoted |-> character = "q", escaped |-> FALSE]
  IN FoldLeft(Step, [out |-> <<>>, quoted |-> FALSE, escaped |-> FALSE], text).out

(***************************************************************************)
(* Numbers, as the stock reader rounds them (stock_number.rs).  A number   *)
(* has a sign, digits, perhaps a fraction and an exponent; a value here is *)
(* a significand and the power of ten it is scaled by.                     *)
(***************************************************************************)
Digits == {0, 1, 8}
Naturals10 == {<<d>> : d \in Digits} \cup {<<d>> \o rest : d \in Digits \ {0},
                                             rest \in UNION {[1..n -> Digits] : n \in 1..2}}
Fractions == SeqOf({0, 8}, 2)
Exponents == {<<>>} \cup {<<sign>> \o digits : sign \in {1, -1},
                            digits \in {<<0>>, <<1>>, <<2>>, <<3>>, <<9>>, <<1, 0>>}}
Tokens == [negative : BOOLEAN, whole : Naturals10, fraction : Fractions, exponent : Exponents]

U64 == 2 ^ Width - 1
I64 == 2 ^ (Width - 1)
Fits(significand, digit) == significand * 10 + digit <= U64
Number(digits) == FoldLeft(LAMBDA n, d : 10 * n + d, 0, digits)

\* As many leading digits as fit; the rest only move the point.
Significand(token) ==
  LET Whole(state, d) ==
        IF ~state.full /\ Fits(state.digits, d)
        THEN [state EXCEPT !.digits = 10 * @ + d]
        ELSE [state EXCEPT !.full = TRUE, !.scale = @ + 1]
      Fraction(state, d) ==
        IF ~state.full /\ Fits(state.digits, d)
        THEN [state EXCEPT !.digits = 10 * @ + d, !.scale = @ - 1]
        ELSE [state EXCEPT !.full = TRUE]
      whole == FoldLeft(Whole, [digits |-> 0, scale |-> 0, full |-> FALSE], token.whole)
  IN FoldLeft(Fraction, [whole EXCEPT !.full = FALSE], token.fraction)

\* How large a number is: the power of ten it starts at and its first two digits.
RECURSIVE Size(_, _)
Size(significand, scale) ==
  IF significand = 0 THEN <<0, 0>>
  ELSE IF significand < 10 THEN Size(significand * 10, scale - 1)
  ELSE IF significand > 99 THEN Size(significand \div 10, scale + 1)
  ELSE <<scale, significand>>
Smaller(a, b) == a[1] < b[1] \/ (a[1] = b[1] /\ a[2] < b[2])
Infinite == Size(18, Power - 1)
Tiny == Size(5, 0 - Power - 2)           \* what is below it is zero

Infinity == [is |-> "rejected"]
Zero(token) == [is |-> "float", negative |-> token.negative, size |-> <<0, 0>>]
Rounded(token, significand, scale) ==
  LET size == Size(significand, scale)
  IN IF significand # 0 /\ ~Smaller(size, Infinite) THEN Infinity
     ELSE IF significand = 0 \/ Smaller(size, Tiny) THEN Zero(token)
     ELSE [is |-> "float", negative |-> token.negative, size |-> size]

\* Scaled down a step at a time, or refused as soon as it must be too large.
RECURSIVE Scaled(_, _, _, _)
Scaled(token, significand, scale, exponent) ==
  IF exponent \in (0 - Power)..Power THEN Rounded(token, significand, scale + exponent)
  ELSE IF significand = 0 \/ Smaller(Size(significand, scale), Tiny) THEN Zero(token)
  ELSE IF exponent >= 0 THEN Infinity
  ELSE Scaled(token, significand, scale - Power, exponent + Power)

Float(token) ==
  LET significand == Significand(token)
      explicit == IF token.exponent = <<>> THEN 0 ELSE Number(Tail(token.exponent))
      signed == IF token.exponent = <<>> THEN 0 ELSE Head(token.exponent) * explicit
  IN IF explicit > MaxExplicit
     THEN IF significand.digits # 0 /\ signed > 0 THEN Infinity ELSE Zero(token)
     ELSE Scaled(token, significand.digits, 0, significand.scale + signed)

\* decode.rs `number`: an integer while it fits in one, -0 excepted.
Decoded(token) ==
  LET whole == Number(token.whole)
      bare == token.fraction = <<>> /\ token.exponent = <<>>
  IN IF bare /\ (IF token.negative THEN whole \in 1..I64 ELSE whole <= U64)
     THEN [is |-> "integer", value |-> IF token.negative THEN 0 - whole ELSE whole]
     ELSE Float(token)

-----------------------------------------------------------------------------
Nothing == [is |-> "nothing"]
Init == read = Nothing
Arrive == read = Nothing /\ \E line \in Lines : read' = [is |-> "line", line |-> line]
Omit == /\ read = Nothing
        /\ \E line \in {l \in Lines : l # <<>>} : \E n \in 0..(Len(line) - 1), readable \in BOOLEAN :
             read' = [is |-> "cut", cut |-> CutAt(line, n, readable)]
Decode == read = Nothing /\ \E tree \in Trees(2) : read' = [is |-> "value", tree |-> tree]
Compose == /\ read = Nothing
           /\ \E pieces \in SeqOf(Pieces, 3) : read' = [is |-> "text", pieces |-> pieces]
Measure == read = Nothing /\ \E token \in Tokens : read' = [is |-> "number", token |-> token]
Next == Arrive \/ Omit \/ Decode \/ Compose \/ Measure
Spec == Init /\ [][Next]_read

-----------------------------------------------------------------------------
TypeOK == read.is \in {"nothing", "line", "cut", "value", "text", "number"}

\* The label a frame is listed under is what it is acted on as (frame.rs `summary`,
\* rpc.rs `classify`), but for three malformed shapes: an id that is no number and no
\* string, a result that answers nobody, and an answer with neither a result nor an error.
LabelsAreTrue ==
  read.is = "line" =>
    LET acted == Incoming(read.line)
        label == Kind(read.line)
    IN \/ acted.id.json = "other"
       \/ <<acted.is, label>> \in
            {<<"request", "call">>, <<"notification", "notification">>, <<"refusal", "error">>,
             <<"answer", "result">>, <<"unaddressed", "error">>, <<"unreadable", "unreadable">>}
       \/ acted.is = "unreadable" /\ label = "result"
       \/ acted.is = "answer" /\ label = "unreadable" /\ ~Has(read.line, "result")

\* An id of this client's is matched exactly, and one that came back with its type changed
\* is told apart and never taken for ours (rpc.rs `ours`, `mistyped`; frame.rs `IdKey`).
IdsAreTold ==
  \A a, b \in Ids :
    /\ Key(a).exact = Key(b).exact <=> a = b
    /\ Ours(a) # -1 /\ Ours(a) = Ours(b) => a = b
    /\ Ours(a) = -1 /\ Mistyped(a) # -1 =>
         \E c \in Ids : Ours(c) = Mistyped(a) /\ Key(c).loose = Key(a).loose

\* What is read off a line cut short is what the whole line would have said, whatever was
\* lost, when no key is repeated and a method is a string: the call it ends, or the request
\* that is owed an answer.  And nothing that came before the cut is missed.
CutsAreReadRight ==
  read.is = "cut" =>
    LET line == read.cut.line
        acted == Incoming(line)
        plain == /\ \A i, j \in DOMAIN line : line[i].key = line[j].key => i = j
                 /\ Field(line, "method").json # "other"
                 /\ ~(Has(line, "method") /\ (Has(line, "result") \/ Has(line, "error")))
        said == [i \in DOMAIN read.cut.whole |-> read.cut.whole[i].key]
        ended == \E i \in DOMAIN said, j \in 1..(Len(said) + 1) :
                   /\ i < j /\ said[i] = "id"
                   /\ {"result", "error"} \cap Range(SubSeq(said, 1, i)) = {}
                   /\ Append(said, read.cut.next)[j] \in {"result", "error"}
    IN plain =>
         /\ AnswerId(read.cut) # -1 =>
              acted.is \in {"answer", "refusal"} /\ acted.id.json = "integer"
                /\ acted.id.means = AnswerId(read.cut)
         /\ RequestId(read.cut) # None => acted = [is |-> "request", id |-> RequestId(read.cut)]
         /\ ended /\ Ours(acted.id) # -1 => AnswerId(read.cut) # -1
         /\ {"id", "method"} \subseteq Range(said) /\ read.cut.next # "cut"
              /\ acted.id.json \in {"integer", "float", "text"} => RequestId(read.cut) # None

\* A value is read as it was written, a repeated key keeping its last value, and refused
\* only for its depth (decode.rs `frame_value`).
RECURSIVE Depth(_)
Depth(tree) ==
  LET below == IF tree.is = "leaf" THEN {}
               ELSE IF tree.is = "array" THEN {Depth(tree.items[i]) : i \in DOMAIN tree.items}
               ELSE {Depth(tree.members[i].value) : i \in DOMAIN tree.members}
  IN IF tree.is = "leaf" THEN 0 ELSE 1 + (CHOOSE d \in below \cup {0} : \A e \in below : e <= d)
RECURSIVE Meant(_)
Meant(tree) ==
  CASE tree.is = "leaf" -> tree
    [] tree.is = "array" -> [tree EXCEPT !.items = [i \in DOMAIN @ |-> Meant(@[i])]]
    [] OTHER ->
         [tree EXCEPT !.members =
            LET Under(key) == SelectSeq(tree.members, LAMBDA m : m.key = key)
                Kept(key) == IF Under(key) = <<>> THEN <<>>
                             ELSE <<[key |-> key, value |-> Meant(Last(Under(key)).value)]>>
            IN Kept("a") \o Kept("b")]
ValuesReadAsWritten ==
  read.is = "value" =>
    LET text == Text(read.tree)
        value == FrameValue(text)
    IN IF Depth(read.tree) > MaxDepth THEN value[1] = Problem
       ELSE value = <<Meant(read.tree), Len(text) + 1>>

\* What is sent by hand is one line and otherwise as it was written (rpc.rs `one_line`).
ComposedIsOneLine ==
  read.is = "text" =>
    LET line == OneLine(Written(read.pieces))
    IN /\ "n" \notin Range(line)
       /\ line = Written(SelectSeq(read.pieces, LAMBDA piece : piece \notin {<<"n">>, <<"s">>}))

\* An integer that fits keeps its value; any other number keeps its sign and its size, or is
\* zero or rejected exactly when it is too small or too large (stock_number.rs `float`).
NumbersKeepTheirSize ==
  read.is = "number" =>
    LET token == read.token
        value == Decoded(token)
        all == Number(token.whole \o token.fraction)
        exponent == IF token.exponent = <<>> THEN 0
                    ELSE Head(token.exponent) * Number(Tail(token.exponent))
        scale == exponent - Len(token.fraction)
    IN IF value.is = "integer"
       THEN value.value = IF token.negative THEN 0 - all ELSE all
       ELSE value = Rounded(token, all, scale)

FramesAreReadRight ==
  /\ TypeOK /\ LabelsAreTrue /\ CutsAreReadRight
  /\ ValuesReadAsWritten /\ ComposedIsOneLine /\ NumbersKeepTheirSize
=============================================================================
