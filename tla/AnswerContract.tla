--------------------------- MODULE AnswerContract ---------------------------
(***************************************************************************)
(* What the client promises the agent about a request it blocks on, with   *)
(* no list, no card and no racing task in sight: a request is answered     *)
(* once, or given up on without a word, and neither is ever taken back.    *)
(***************************************************************************)
EXTENDS Sequences

CONSTANTS
  Requests,      \* the requests an agent may make
  Answers        \* what a request can be answered with

VARIABLES
  asks,          \* requests the agent made
  said,          \* request -> the answers sent to it
  lapsed         \* requests given up on

answerVars == <<asks, said, lapsed>>

AnswersInit ==
  /\ asks = {}
  /\ said = [r \in Requests |-> <<>>]
  /\ lapsed = {}

Ask(r) ==
  /\ asks' = asks \cup {r}
  /\ UNCHANGED <<said, lapsed>>

Tell(r, answer) ==
  /\ r \in asks \ lapsed
  /\ said[r] = <<>>
  /\ said' = [said EXCEPT ![r] = <<answer>>]
  /\ UNCHANGED <<asks, lapsed>>

Lapse(r) ==
  /\ r \in asks
  /\ said[r] = <<>>
  /\ lapsed' = lapsed \cup {r}
  /\ UNCHANGED <<asks, said>>

AnswersNext ==
  \E r \in Requests : \/ Ask(r)
                      \/ \E answer \in Answers : Tell(r, answer)
                      \/ Lapse(r)

AnswersSpec == AnswersInit /\ [][AnswersNext]_answerVars
=============================================================================
