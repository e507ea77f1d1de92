------------------------------ MODULE RpcProofs ------------------------------
(***************************************************************************)
(* What Rpc promises for every number of callers, every queue length and   *)
(* every number of ids.                                                    *)
(***************************************************************************)
EXTENDS Rpc, TLAPS

\* What ties the three views of a call together: the counter, the table and
\* the oneshot.  A call is in the table exactly while its oneshot is silent.
TableAgrees ==
  \A i \in Ids :
    /\ i > nextId <=> answer[i] = "unused"
    /\ i \in pending <=> answer[i] = "empty"

\* A caller in progress holds an id that was handed out.
OwnIsSpent ==
  \A c \in Callers : pc[c] # "idle" => own[c] \in Ids /\ own[c] <= nextId

\* A caller sending by hand has its call marked so, while the call is pending.
HandIsMarked ==
  \A c \in Callers :
    pc[c] # "idle" /\ style[c] = "hand" /\ own[c] \in pending => own[c] \in handSent

IInv ==
  /\ HandIsMarked
  /\ TypeOK
  /\ TableAgrees
  /\ OwnIsSpent
  /\ OwnIdsDiffer
  /\ ClosedHoldsNothing
  /\ MarksAreOfPending
  /\ PendingIsOwned

USE RpcAssumption

LEMMA InitIInv == Init => IInv
<1> SUFFICES ASSUME Init PROVE IInv
  OBVIOUS
<1>1. TypeOK
  <2>1. nextId \in 0..MaxId /\ own \in [Callers -> 0..MaxId]
    BY DEF Init
  <2>2. outgoing \in Seq(0..MaxId) /\ Len(outgoing) <= Capacity /\ incoming \in Seq(Replies)
    BY DEF Init
  <2>3. answer \in [Ids -> Answers] /\ outcome \in [Callers -> Outcomes]
    BY DEF Init, Answers, Outcomes
  <2>4. /\ pc \in [Callers -> {"idle", "prepared", "queued", "waiting"}]
        /\ style \in [Callers -> Styles]
    BY DEF Init, Styles
  <2> QED BY <2>1, <2>2, <2>3, <2>4 DEF Init, TypeOK
<1>2. TableAgrees
  BY DEF Init, TableAgrees, Ids
<1>3. OwnIsSpent /\ OwnIdsDiffer /\ HandIsMarked
  BY DEF Init, OwnIsSpent, OwnIdsDiffer, HandIsMarked
<1>4. ClosedHoldsNothing /\ MarksAreOfPending /\ PendingIsOwned
  BY DEF Init, ClosedHoldsNothing, MarksAreOfPending, PendingIsOwned
<1> QED BY <1>1, <1>2, <1>3, <1>4 DEF IInv

\* Handing out the next id keeps everything that was true of the ones before.
LEMMA PrepareKeeps ==
  ASSUME IInv, NEW c \in Callers, NEW s \in Styles, Prepare(c, s)
  PROVE  IInv'
<1> USE DEF IInv, Prepare, Admits, Spend, Ids, queue
<1>0. /\ nextId + 1 \in Ids /\ nextId' = nextId + 1
      /\ answer' = [answer EXCEPT ![nextId + 1] = "empty"]
      /\ pending' = pending \cup {nextId + 1}
  OBVIOUS
<1>1. TypeOK'
  BY <1>0 DEF TypeOK, Styles, Outcomes, Answers
<1>2. TableAgrees'
  BY <1>0 DEF TypeOK, TableAgrees
<1>3. OwnIsSpent'
  BY <1>0 DEF TypeOK, OwnIsSpent
<1>4. OwnIdsDiffer'
  BY <1>0 DEF TypeOK, OwnIsSpent, OwnIdsDiffer
<1>5. ClosedHoldsNothing'
  BY DEF ClosedHoldsNothing
<1>6. MarksAreOfPending'
  BY DEF MarksAreOfPending
<1>7. PendingIsOwned'
  BY <1>0 DEF TypeOK, PendingIsOwned
<1>8. HandIsMarked'
  BY <1>0 DEF TypeOK, OwnIsSpent, HandIsMarked
<1> QED BY <1>1, <1>2, <1>3, <1>4, <1>5, <1>6, <1>7, <1>8

\* Taking entries out of the table, whoever does it, leaves the table agreeing.
LEMMA RemoveKeeps ==
  ASSUME IInv, NEW ids \in SUBSET Ids, NEW how \in {"answered", "failed", "dropped"},
         Remove(ids, how), UNCHANGED nextId
  PROVE  /\ pending' \subseteq Ids /\ handSent' \subseteq Ids /\ captured' \subseteq Ids
         /\ answer' \in [Ids -> Answers]
         /\ TableAgrees'
         /\ MarksAreOfPending'
  BY SMT DEF IInv, TypeOK, Remove, TableAgrees, MarksAreOfPending, Answers

\* A call that failed to go out leaves no trace in the table.
LEMMA UnsentKeeps ==
  ASSUME IInv, NEW c \in Callers, NEW how \in Outcomes,
         pc[c] # "idle", Unsent(c, how)
  PROVE  IInv'
<1> USE DEF Unsent, Forget, Finish, queue
<1>0. own[c] \in Ids
  BY DEF IInv, OwnIsSpent
<1>1. /\ pending' \subseteq Ids /\ handSent' \subseteq Ids /\ captured' \subseteq Ids
      /\ answer' \in [Ids -> Answers] /\ TableAgrees' /\ MarksAreOfPending'
  BY <1>0, RemoveKeeps
<1>2. TypeOK'
  BY <1>1 DEF IInv, TypeOK, Styles
<1>3. OwnIsSpent' /\ OwnIdsDiffer' /\ HandIsMarked'
  BY DEF IInv, TypeOK, OwnIsSpent, OwnIdsDiffer, HandIsMarked, Remove
<1>4. ClosedHoldsNothing'
  BY DEF IInv, ClosedHoldsNothing, Remove
<1>5. PendingIsOwned'
  BY <1>0 DEF IInv, TypeOK, PendingIsOwned, Remove
<1> QED BY <1>1, <1>2, <1>3, <1>4, <1>5 DEF IInv
\* The teardown lets go of the whole table, and an answer of one entry.
LEMMA ReaderKeeps ==
  ASSUME IInv, Deliver \/ CloseCalls
  PROVE  IInv'
<1>1. CASE Deliver
  <2> DEFINE m == Head(incoming)
  <2>1. m \in Replies /\ incoming' \in Seq(Replies)
    BY <1>1 DEF Deliver, IInv, TypeOK
  <2>2. m.id \in Ids
    BY <2>1 DEF Replies
  <2>3. PICK how \in {"answered", "failed", "dropped"} : Remove({m.id}, how)
    BY <1>1 DEF Deliver
  <2>4. /\ pending' \subseteq Ids /\ handSent' \subseteq Ids /\ captured' \subseteq Ids
        /\ answer' \in [Ids -> Answers] /\ TableAgrees' /\ MarksAreOfPending'
    BY <1>1, <2>2, <2>3, RemoveKeeps DEF Deliver
  <2>5. TypeOK'
    BY <1>1, <2>1, <2>4 DEF Deliver, IInv, TypeOK, callers, queue
  <2>6. OwnIsSpent' /\ OwnIdsDiffer' /\ HandIsMarked'
    BY <1>1, <2>3 DEF Deliver, IInv, OwnIsSpent, OwnIdsDiffer, callers,
       HandIsMarked, Remove
  <2>7. ClosedHoldsNothing' /\ PendingIsOwned'
    BY <1>1, <2>3 DEF Deliver, Remove, IInv, ClosedHoldsNothing, PendingIsOwned,
       callers
  <2> QED BY <2>4, <2>5, <2>6, <2>7 DEF IInv
<1>2. CASE CloseCalls
  <2>1. Remove(pending, "dropped") /\ pending \subseteq Ids
    BY <1>2 DEF CloseCalls, LettingGo, IInv, TypeOK
  <2>2. /\ pending' \subseteq Ids /\ handSent' \subseteq Ids /\ captured' \subseteq Ids
        /\ answer' \in [Ids -> Answers] /\ TableAgrees' /\ MarksAreOfPending'
    BY <1>2, <2>1, RemoveKeeps DEF CloseCalls
  <2>3. TypeOK'
    BY <1>2, <2>2 DEF CloseCalls, IInv, TypeOK, callers, queue
  <2>4. OwnIsSpent' /\ OwnIdsDiffer' /\ HandIsMarked'
    BY <1>2, <2>1 DEF CloseCalls, IInv, OwnIsSpent, OwnIdsDiffer, callers,
       HandIsMarked, Remove
  <2>5. pending' = {}
    BY <2>1 DEF Remove
  <2>6. ClosedHoldsNothing' /\ PendingIsOwned'
    BY <2>5 DEF ClosedHoldsNothing, PendingIsOwned
  <2> QED BY <2>2, <2>3, <2>4, <2>6 DEF IInv
<1> QED BY <1>1, <1>2

\* The steps of a caller that leave the table alone, but for its marks.
LEMMA CallerKeeps ==
  ASSUME IInv, NEW c \in Callers,
         Refuse(c) \/ Queue(c) \/ Captured(c) \/ Receive(c) \/ Abandon(c)
  PROVE  IInv'
<1> USE DEF IInv, calls, queue
<1>1. CASE Refuse(c)
  BY <1>1 DEF Refuse, TypeOK, TableAgrees, OwnIsSpent, OwnIdsDiffer,
     ClosedHoldsNothing, MarksAreOfPending, PendingIsOwned, HandIsMarked, Outcomes
<1>2. CASE Queue(c)
  <2>1. own[c] \in Ids /\ outgoing' \in Seq(0..MaxId) /\ Len(outgoing') <= Capacity
    BY <1>2 DEF Queue, HasRoom, OwnIsSpent, TypeOK, Ids
  <2> QED BY <1>2, <2>1 DEF Queue, TypeOK, TableAgrees, OwnIsSpent, OwnIdsDiffer,
     ClosedHoldsNothing, MarksAreOfPending, PendingIsOwned, HandIsMarked
<1>3. CASE Captured(c)
  <2>1. own[c] \in Ids /\ captured' \subseteq pending
    BY <1>3 DEF Captured, Mark, OwnIsSpent, MarksAreOfPending
  <2>2. TypeOK'
    <3>1. /\ own' \in [Callers -> 0..MaxId] /\ style' \in [Callers -> Styles]
          /\ outcome' \in [Callers -> Outcomes]
      <4>1. CASE style[c] = "hand"
        <5>1. own' = [own EXCEPT ![c] = 0] /\ 0 \in 0..MaxId
          BY <1>3, <4>1 DEF Captured, Finish
        <5>2. /\ style' = [style EXCEPT ![c] = "call"]
              /\ outcome' = [outcome EXCEPT ![c] = "sent"]
          BY <1>3, <4>1 DEF Captured, Finish
        <5> QED BY <5>1, <5>2 DEF TypeOK, Styles, Outcomes
      <4>2. CASE style[c] # "hand"
        BY <1>3, <4>2 DEF Captured, TypeOK
      <4> QED BY <4>1, <4>2
    <3>2. pc' \in [Callers -> {"idle", "prepared", "queued", "waiting"}]
      BY <1>3 DEF Captured, Finish, TypeOK
    <3>3. captured' \subseteq Ids
      BY <2>1 DEF TypeOK
    <3> QED BY <1>3, <3>1, <3>2, <3>3 DEF Captured, TypeOK
  <2>3. TableAgrees' /\ ClosedHoldsNothing' /\ MarksAreOfPending'
    BY <1>3, <2>1 DEF Captured, Finish, TableAgrees, ClosedHoldsNothing,
       MarksAreOfPending
  <2>4. OwnIsSpent' /\ OwnIdsDiffer' /\ HandIsMarked'
    <3>1. /\ UNCHANGED <<nextId, pending, handSent>>
          /\ \A d \in Callers : d # c => pc'[d] = pc[d] /\ own'[d] = own[d] /\ style'[d] = style[d]
          /\ \/ own'[c] = own[c] /\ style'[c] = style[c] /\ pc'[c] = "waiting"
             \/ own'[c] = 0 /\ style'[c] = "call" /\ pc'[c] = "idle"
      BY <1>3 DEF Captured, Finish, TypeOK
    <3>2. OwnIsSpent'
      BY <1>3, <3>1 DEF Captured, OwnIsSpent
    <3>3. OwnIdsDiffer'
      BY <1>3, <3>1 DEF Captured, OwnIdsDiffer
    <3>4. HandIsMarked'
      BY <1>3, <3>1 DEF Captured, HandIsMarked
    <3> QED BY <3>2, <3>3, <3>4
  <2>5. PendingIsOwned'
    <3>1. /\ pending' = pending /\ handSent' = handSent /\ orphans' = orphans
          /\ \A d \in Callers : d # c => pc'[d] = pc[d] /\ own'[d] = own[d]
      BY <1>3 DEF Captured, Finish, TypeOK
    <3>2. CASE style[c] = "hand"
      BY <1>3, <3>1, <3>2 DEF Captured, PendingIsOwned, HandIsMarked
    <3>3. CASE style[c] # "hand"
      <4>1. own' = own /\ pc'[c] = "waiting"
        BY <1>3, <3>3 DEF Captured, TypeOK
      <4> QED BY <1>3, <3>1, <4>1 DEF PendingIsOwned
    <3> QED BY <3>2, <3>3
  <2> QED BY <2>2, <2>3, <2>4, <2>5
<1>4. CASE Receive(c)
  <2>1. own[c] \in Ids /\ answer[own[c]] \in Answers \ {"unused", "empty"}
    BY <1>4 DEF Receive, OwnIsSpent, TableAgrees, TypeOK, Ids
  <2>2. TypeOK'
    BY <1>4, <2>1 DEF Receive, Finish, TypeOK, Styles, Outcomes, Answers
  <2>3. OwnIsSpent' /\ OwnIdsDiffer' /\ HandIsMarked'
    BY <1>4 DEF Receive, Finish, TypeOK, OwnIsSpent, OwnIdsDiffer, HandIsMarked
  <2>4. PendingIsOwned'
    BY <1>4, <2>1 DEF Receive, Finish, TypeOK, PendingIsOwned, TableAgrees
  <2> QED BY <1>4, <2>2, <2>3, <2>4 DEF Receive, TableAgrees, ClosedHoldsNothing,
     MarksAreOfPending
<1>5. CASE Abandon(c)
  <2>1. own[c] \in Ids /\ orphans' = orphans \cup {own[c]}
    BY <1>5 DEF Abandon, OwnIsSpent
  <2>2. TypeOK'
    BY <1>5, <2>1 DEF Abandon, Finish, TypeOK, Styles, Outcomes
  <2>3. OwnIsSpent' /\ OwnIdsDiffer' /\ HandIsMarked'
    BY <1>5 DEF Abandon, Finish, TypeOK, OwnIsSpent, OwnIdsDiffer, HandIsMarked
  <2>4. PendingIsOwned'
    BY <1>5, <2>1 DEF Abandon, Finish, TypeOK, PendingIsOwned
  <2> QED BY <1>5, <2>2, <2>3, <2>4 DEF Abandon, TableAgrees, ClosedHoldsNothing,
     MarksAreOfPending
<1> QED BY <1>1, <1>2, <1>3, <1>4, <1>5

\* The surroundings move frames and answers about, and touch no call.
LEMMA SurroundingsKeep ==
  ASSUME IInv,
         CloseTransport \/ Notify \/ Take \/ StopTaking \/ AgentAnswers \/ UNCHANGED vars
  PROVE  IInv'
<1>1. UNCHANGED <<calls, callers>>
  BY DEF CloseTransport, Notify, Take, StopTaking, AgentAnswers, vars
<1>2. /\ outgoing' \in Seq(0..MaxId) /\ Len(outgoing') <= Capacity
      /\ incoming' \in Seq(Replies)
      /\ taking' \in BOOLEAN /\ shutdown' \in BOOLEAN
  <2>1. CASE CloseTransport
    BY <2>1 DEF CloseTransport, IInv, TypeOK, queue
  <2>2. CASE Notify
    BY <2>2 DEF Notify, HasRoom, IInv, TypeOK
  <2>3. CASE Take
    BY <2>3 DEF Take, IInv, TypeOK
  <2>4. CASE StopTaking
    <3>1. outgoing' = outgoing \/ outgoing' = <<>>
      BY <2>4 DEF StopTaking
    <3>2. outgoing' \in Seq(0..MaxId) /\ Len(outgoing') <= Capacity
      <4>1. /\ outgoing \in Seq(0..MaxId) /\ Len(outgoing) <= Capacity
            /\ <<>> \in Seq(0..MaxId) /\ Len(<<>>) <= Capacity
        BY DEF IInv, TypeOK
      <4> QED BY <3>1, <4>1
    <3> QED BY <2>4, <3>2 DEF StopTaking, IInv, TypeOK
  <2>5. CASE AgentAnswers
    BY <2>5 DEF AgentAnswers, IInv, TypeOK, queue
  <2>6. CASE UNCHANGED vars
    BY <2>6 DEF vars, IInv, TypeOK, queue
  <2> QED BY <2>1, <2>2, <2>3, <2>4, <2>5, <2>6
<1>3. TypeOK'
  BY <1>1, <1>2 DEF IInv, TypeOK, calls, callers
<1> QED BY <1>1, <1>3 DEF IInv, calls, callers, TableAgrees, OwnIsSpent, OwnIdsDiffer,
     ClosedHoldsNothing, MarksAreOfPending, PendingIsOwned, HandIsMarked

LEMMA StepIInv == IInv /\ [Next]_vars => IInv'
<1> SUFFICES ASSUME IInv, [Next]_vars PROVE IInv'
  OBVIOUS
<1>1. ASSUME NEW c \in Callers, NEW s \in Styles, Prepare(c, s) PROVE IInv'
  BY <1>1, PrepareKeeps
<1>2. ASSUME NEW c \in Callers, Busy(c) \/ SendFails(c) PROVE IInv'
  <2>1. PICK how \in Outcomes : Unsent(c, how)
    BY <1>2 DEF Busy, SendFails, Outcomes
  <2>2. pc[c] # "idle"
    BY <1>2 DEF Busy, SendFails
  <2> QED BY <2>1, <2>2, UnsentKeeps
<1>3. ASSUME NEW c \in Callers,
             Refuse(c) \/ Queue(c) \/ Captured(c) \/ Receive(c) \/ Abandon(c)
      PROVE  IInv'
  BY <1>3, CallerKeeps
<1>4. CASE Deliver \/ CloseCalls
  BY <1>4, ReaderKeeps
<1>5. CASE CloseTransport \/ Notify \/ Take \/ StopTaking \/ AgentAnswers \/ UNCHANGED vars
  BY <1>5, SurroundingsKeep
<1> QED BY <1>1, <1>2, <1>3, <1>4, <1>5 DEF Next

\* The table, the counter and the oneshots agree in every reachable state.
THEOREM Inductive == Spec => []IInv
  BY InitIInv, StepIInv, PTL DEF Spec

\* Every reachable state is well typed.
THEOREM TypeCorrect == Spec => []TypeOK
  BY Inductive, PTL DEF IInv

\* A conversation once closed holds no call, however a registration raced it.
THEOREM ClosedIsEmpty == Spec => []ClosedHoldsNothing
  BY Inductive, PTL DEF IInv

\* No lost wake-up: a caller waiting on a silent oneshot is in the table, so
\* its answer or the teardown will find it.
THEOREM NoLostWakeUp == Spec => []WaitersAreRegistered
<1>1. IInv => WaitersAreRegistered
  BY DEF IInv, WaitersAreRegistered, TableAgrees, OwnIsSpent
<1> QED BY <1>1, Inductive, PTL

\* Two callers never wait under one id, and the list of pending calls shows
\* only calls that have a reason to be there.
THEOREM IdsAndListAreHonest == Spec => [](OwnIdsDiffer /\ PendingIsOwned /\ MarksAreOfPending)
  BY Inductive, PTL DEF IInv

\* The table is honest in every way at once, for any callers and bounds
\* (rpc.rs `Call`, `close`).
THEOREM HonestTable == Spec => []TableIsHonest
  BY TypeCorrect, ClosedIsEmpty, IdsAndListAreHonest, PTL DEF TableIsHonest

(***************************************************************************)
(* The conversation keeps the contract.                                    *)
(***************************************************************************)
LEMMA InitMaps == Init => Abstract!ContractInit
  BY DEF Init, Abstract!ContractInit, Status, Ids

\* Taking calls out of the table resolves exactly those calls.
LEMMA RemoveMaps ==
  ASSUME IInv, NEW ids \in SUBSET Ids, NEW how \in Abstract!Resolutions,
         Remove(ids, how), UNCHANGED nextId
  PROVE  Status' = [i \in Ids |-> IF i \in ids /\ Status[i] = "open" THEN how ELSE Status[i]]
<1>1. \A i \in Ids : Status[i] = "open" <=> i \in pending
  BY DEF Status, IInv, TableAgrees, TypeOK, Answers
<1>2. ASSUME NEW i \in Ids
      PROVE  Status'[i] = IF i \in ids /\ Status[i] = "open" THEN how ELSE Status[i]
  <2>1. i \in pending => ~(i > nextId)
    BY DEF IInv, TableAgrees
  <2> QED BY <1>1, <2>1 DEF Status, Remove
<1> QED BY <1>2 DEF Status

LEMMA OneRemovedMaps ==
  ASSUME IInv, NEW i \in Ids, NEW how \in Abstract!Resolutions,
         Remove({i}, how), UNCHANGED <<nextId, closed>>
  PROVE  Abstract!ContractNext \/ UNCHANGED Abstract!contractVars
<1>0. Status' = [j \in Ids |-> IF j \in {i} /\ Status[j] = "open" THEN how ELSE Status[j]]
  BY RemoveMaps
<1>1. CASE Status[i] = "open"
  <2>1. Status' = [Status EXCEPT ![i] = how]
    BY <1>0, <1>1 DEF Status
  <2> QED BY <1>1, <2>1 DEF Abstract!ContractNext, Abstract!Resolve
<1>2. CASE Status[i] # "open"
  <2>1. Status' = Status
    BY <1>0, <1>2 DEF Status
  <2> QED BY <2>1 DEF Abstract!contractVars
<1> QED BY <1>1, <1>2

LEMMA StepMaps ==
  IInv /\ [Next]_vars => [Abstract!ContractNext]_(Abstract!contractVars)
<1> SUFFICES ASSUME IInv, [Next]_vars
             PROVE  Abstract!ContractNext \/ UNCHANGED Abstract!contractVars
  OBVIOUS
<1>1. ASSUME NEW c \in Callers, NEW s \in Styles, Prepare(c, s)
      PROVE  Abstract!ContractNext
  <2> DEFINE id == nextId + 1
  <2>0. nextId \in 0..MaxId /\ id \in Ids /\ nextId' = id /\ ~closed /\ closed' = closed
        /\ pending' = pending \cup {id} /\ answer' = [answer EXCEPT ![id] = "empty"]
    BY <1>1 DEF Prepare, Spend, Admits, IInv, TypeOK
  <2>1. Status[id] = "unused"
    BY <2>0 DEF Status, Ids
  <2>2. \A j \in Ids : j < id => Status[j] # "unused"
    BY <2>0 DEF Status, Ids, IInv, TableAgrees
  <2>3. Status' = [Status EXCEPT ![id] = "open"]
    <3>1. ASSUME NEW j \in Ids
          PROVE  Status'[j] = IF j = id THEN "open" ELSE Status[j]
      BY <2>0 DEF Status, Ids, IInv, TypeOK
    <3> QED BY <2>0, <3>1 DEF Status
  <2> QED BY <2>0, <2>1, <2>2, <2>3 DEF Abstract!ContractNext, Abstract!Issue
<1>2. ASSUME NEW c \in Callers, Busy(c) \/ SendFails(c)
      PROVE  Abstract!ContractNext \/ UNCHANGED Abstract!contractVars
  <2>1. own[c] \in Ids
    BY <1>2 DEF IInv, OwnIsSpent, Busy, SendFails
  <2>2. Remove({own[c]}, "dropped") /\ UNCHANGED <<nextId, closed>>
    BY <1>2 DEF Busy, SendFails, Unsent, Forget
  <2> QED BY <2>1, <2>2, OneRemovedMaps DEF Abstract!Resolutions
<1>3. CASE Deliver
  <2> DEFINE m == Head(incoming)
  <2>1. m \in Replies
    BY <1>3 DEF Deliver, IInv, TypeOK
  <2>2. PICK how \in {"answered", "failed"} : Remove({m.id}, how)
    BY <1>3 DEF Deliver
  <2>3. m.id \in Ids /\ UNCHANGED <<nextId, closed>>
    BY <1>3, <2>1 DEF Deliver, Replies
  <2> QED BY <2>2, <2>3, OneRemovedMaps DEF Abstract!Resolutions
<1>4. CASE CloseCalls
  <2>1. Remove(pending, "dropped") /\ UNCHANGED nextId /\ pending \in SUBSET Ids
        /\ closed' = TRUE
    BY <1>4 DEF CloseCalls, LettingGo, IInv, TypeOK
  <2>2. Status' = [i \in Ids |-> IF i \in pending /\ Status[i] = "open"
                                 THEN "dropped" ELSE Status[i]]
    BY <2>1, RemoveMaps DEF Abstract!Resolutions
  <2>3. \A i \in Ids : Status[i] = "open" <=> i \in pending
    BY DEF Status, IInv, TableAgrees, TypeOK, Answers
  <2> QED BY <2>1, <2>2, <2>3 DEF Abstract!ContractNext, Abstract!End
<1>5. ASSUME UNCHANGED <<nextId, pending, closed, answer>>
      PROVE  UNCHANGED Abstract!contractVars
  BY <1>5 DEF Abstract!contractVars, Status
<1>6. ASSUME NEW c \in Callers,
             Refuse(c) \/ Queue(c) \/ Captured(c) \/ Receive(c) \/ Abandon(c)
      PROVE  UNCHANGED <<nextId, pending, closed, answer>>
  BY <1>6 DEF Refuse, Queue, Captured, Receive, Abandon, calls
<1>7. ASSUME CloseTransport \/ Notify \/ Take \/ StopTaking \/ AgentAnswers \/ UNCHANGED vars
      PROVE  UNCHANGED <<nextId, pending, closed, answer>>
  BY <1>7 DEF CloseTransport, Notify, Take, StopTaking, AgentAnswers, vars, calls
<1> QED BY <1>1, <1>2, <1>3, <1>4, <1>5, <1>6, <1>7 DEF Next

\* Concurrent callers, a shared queue and a teardown from another thread keep
\* the contract: ids in order and never twice, one resolution per call, and an
\* end that resolves every open call and admits no other.
THEOREM Implements == Spec => KeepsContract
<1>1. Init => Abstract!ContractInit
  BY InitMaps
<1>2. IInv /\ [Next]_vars => [Abstract!ContractNext]_(Abstract!contractVars)
  BY StepMaps
<1> QED BY <1>1, <1>2, Inductive, PTL DEF Spec, KeepsContract, Abstract!Contract
=============================================================================
