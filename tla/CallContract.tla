---------------------------- MODULE CallContract ----------------------------
(***************************************************************************)
(* What the JSON-RPC half of the client promises about the calls it makes, *)
(* with no queue, no transport and no caller in sight: ids are handed out  *)
(* in order and never twice, a call is resolved at most once, and the end  *)
(* of the conversation resolves every call still open and admits no other. *)
(***************************************************************************)
EXTENDS Naturals

CONSTANT Ids     \* the ids the conversation may hand out, 1..N

\* How a call can come to its end.
Resolutions == {"answered", "failed", "dropped"}

VARIABLES
  call,          \* id -> "unused", "open" or one of Resolutions
  over           \* whether the conversation has ended

contractVars == <<call, over>>

ContractInit ==
  /\ call = [i \in Ids |-> "unused"]
  /\ over = FALSE

\* A call takes the least id not handed out yet.
Issue(i) ==
  /\ ~over
  /\ call[i] = "unused"
  /\ \A j \in Ids : j < i => call[j] # "unused"
  /\ call' = [call EXCEPT ![i] = "open"]
  /\ UNCHANGED over

Resolve(i, how) ==
  /\ call[i] = "open"
  /\ call' = [call EXCEPT ![i] = how]
  /\ UNCHANGED over

\* The end: nobody is left to answer, so every open call learns it at once.
End ==
  /\ over' = TRUE
  /\ call' = [i \in Ids |-> IF call[i] = "open" THEN "dropped" ELSE call[i]]

ContractNext ==
  \/ \E i \in Ids : Issue(i)
  \/ \E i \in Ids, how \in Resolutions : Resolve(i, how)
  \/ End

Contract == ContractInit /\ [][ContractNext]_contractVars
=============================================================================
