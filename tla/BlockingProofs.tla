--------------------------- MODULE BlockingProofs ---------------------------
(***************************************************************************)
(* What Blocking promises for any number of requests, users and cancels,   *)
(* any capacity, and whatever the agent asks.                              *)
(***************************************************************************)
EXTENDS Blocking, FiniteSetTheorems, TLAPS

USE BlockingAssumption

Choices == Answers \ {"refused"}

\* What a task's record says of itself, wherever the task is.
Fits(w) ==
  /\ w.at = "idle" => w.for = 0
  /\ w.at \in {"claim", "settle", "fail"} => w.as \in Choices
  /\ w.at = "send" => w.as \in Answers
  /\ w.at = "take" => w.as \in Choices \cup {"abandoned"}
  /\ w.at = "abandon" => w.as = "abandoned"
  /\ w.at = "credit" => w.as = "picked"

TasksFit == \A t \in Tasks : Fits(task[t])

\* A task between the claim and the settlement owns its request: nobody else
\* has it, and it was told what the task sent and nothing else.
Owning(t) == task[t].at \in {"send", "settle", "fail"} /\ task[t].as # "refused"

OwnersOwn ==
  \A t \in Tasks : Owning(t) =>
    /\ task[t].for \in Requests /\ task[t].for # dropped
    /\ state[task[t].for] = "answering"
    /\ told[task[t].for] = IF task[t].at = "settle" THEN <<task[t].as>> ELSE <<>>

OwnersDiffer ==
  \A t, u \in Tasks : Owning(t) /\ Owning(u) /\ t # u => task[t].for # task[u].for

\* A refusal is the reader's, of a request that never became one to answer.
RefusalsAreFresh ==
  \A t \in Tasks : task[t].at \in {"send", "settle", "fail"} /\ task[t].as = "refused" =>
    /\ t = Reader /\ task[t].for \in Requests
    /\ state[task[t].for] = "refused" /\ told[task[t].for] = <<>>

\* What is still to be admitted, or still to come, has no standing yet.
NewcomersAreNew ==
  /\ \A t \in Tasks : task[t].at = "count" => t = Reader /\ state[task[t].for] = "none"
  /\ \A t \in Tasks :
       task[t].at \in {"count", "register", "list", "show"} => task[t].for \in 1..arrived
  /\ \A r \in Requests : r > arrived => state[r] = "none"

DroppedIsStuck ==
  dropped # 0 => state[dropped] = "answering" /\ told[dropped] = <<>>

IInv ==
  /\ TypeOK
  /\ TasksFit
  /\ OwnersOwn
  /\ OwnersDiffer
  /\ RefusalsAreFresh
  /\ NewcomersAreNew
  /\ DroppedIsStuck
  /\ StandsAsTold

\* Initially nothing was asked and every task rests.
LEMMA InitIInv == Init => IInv
<1> SUFFICES ASSUME Init PROVE IInv
  OBVIOUS
<1>1. Idle \in Work
  BY DEF Idle, Begin, Work, Places, Purposes, KindNames
<1>2. TypeOK
  <2>1. dropped \in 0..MaxRequests /\ cancels \in 0..MaxCancels /\ arrived \in 0..MaxRequests
    BY DEF Init
  <2>2. state \in [Requests -> Standings] /\ task \in [Tasks -> Work]
    BY <1>1 DEF Init, Standings
  <2>3. told \in [Requests -> Seq(Answers)]
    BY DEF Init
  <2> QED BY <2>1, <2>2, <2>3 DEF Init, TypeOK
<1>3. TasksFit /\ OwnersOwn /\ OwnersDiffer /\ RefusalsAreFresh
  BY DEF Init, Idle, Begin, TasksFit, Fits, OwnersOwn, OwnersDiffer, RefusalsAreFresh, Owning
<1>4. NewcomersAreNew /\ DroppedIsStuck /\ StandsAsTold
  BY DEF Init, Idle, Begin, NewcomersAreNew, DroppedIsStuck, StandsAsTold
<1> QED BY <1>1, <1>2, <1>3, <1>4 DEF IInv

\* A task done with one request takes up work of its own kind, or rests.
LEMMA OnwardFits ==
  ASSUME NEW w \in Work, w.as \in Choices \cup {"abandoned"}
  PROVE  /\ Onward(w) \in Work
         /\ Onward(w).at \in {"idle", "claim", "abandon", "take", "clear"}
         /\ Fits(Onward(w))
<1>1. Idle \in Work /\ Idle.at = "idle" /\ Idle.for = 0
  BY DEF Idle, Begin, Work, Places, Purposes, KindNames
<1> DEFINE done == [w EXCEPT !.for = 0]
           at(place) == [done EXCEPT !.at = place]
<1>a. done \in Work /\ done.as = w.as /\ done.for = 0
  BY DEF Work
<1> HIDE DEF done
<1>2. ASSUME NEW place \in Places
      PROVE  /\ at(place) \in Work /\ at(place).at = place
             /\ at(place).as = w.as /\ at(place).for = 0
  BY <1>a DEF Work
<1>3. CASE w.taken # {}
  <2> DEFINE place == IF w.as = "abandoned" THEN "abandon" ELSE "claim"
  <2>1. Onward(w) = at(place)
    BY <1>3 DEF Onward, done
  <2>2. place \in Places
    BY DEF Places
  <2>3. Onward(w) \in Work /\ Onward(w).at = place /\ Onward(w).as = w.as
    BY <2>1, <2>2, <1>2
  <2> QED BY <2>3 DEF Fits, Choices
<1>4. CASE w.taken = {} /\ w.left # <<>>
  <2>1. Onward(w) = at("take")
    BY <1>4 DEF Onward, done
  <2>2. Onward(w) \in Work /\ Onward(w).at = "take" /\ Onward(w).as = w.as
    BY <2>1, <1>2 DEF Places
  <2> QED BY <2>2 DEF Fits
<1>5. CASE w.taken = {} /\ w.left = <<>> /\ w.as = "abandoned" /\ w.all
  <2>1. Onward(w) = at("clear")
    BY <1>5 DEF Onward, done
  <2>2. Onward(w) \in Work /\ Onward(w).at = "clear"
    BY <2>1, <1>2 DEF Places
  <2> QED BY <2>2 DEF Fits
<1>6. CASE w.taken = {} /\ w.left = <<>> /\ ~(w.as = "abandoned" /\ w.all)
  BY <1>1, <1>6 DEF Onward, Fits
<1> QED BY <1>3, <1>4, <1>5, <1>6

\* A task's record stays one when one of its fields changes.
LEMMA ForFits ==
  ASSUME NEW w \in Work, NEW r \in 0..MaxRequests
  PROVE  LET v == [w EXCEPT !.for = r] IN
         v \in Work /\ v.for = r /\ v.at = w.at /\ v.as = w.as
  BY DEF Work

LEMMA AtFits ==
  ASSUME NEW w \in Work, NEW place \in Places
  PROVE  LET v == [w EXCEPT !.at = place] IN
         v \in Work /\ v.at = place /\ v.for = w.for /\ v.as = w.as
  BY DEF Work

\* A step that only moves a task that answers nothing, to a place where it
\* answers nothing, disturbs no request.
LEMMA MovesKeep ==
  ASSUME IInv, NEW t \in Tasks, NEW w \in Work, Works(t, w), Fits(w),
         w.at \notin {"send", "settle", "fail", "count"},
         w.at \in {"register", "list", "show"} => w.for \in 1..arrived,
         UNCHANGED <<requests, dropped>>,
         TypeOK'
  PROVE  IInv'
<1> USE DEF IInv, TypeOK, Works, requests
<1>1. TasksFit'
  BY DEF TasksFit
<1>2. OwnersOwn' /\ OwnersDiffer'
  BY DEF OwnersOwn, OwnersDiffer, Owning
<1>3. RefusalsAreFresh' /\ NewcomersAreNew'
  BY DEF RefusalsAreFresh, NewcomersAreNew
<1>4. DroppedIsStuck' /\ StandsAsTold'
  BY DEF DroppedIsStuck, StandsAsTold
<1> QED BY <1>1, <1>2, <1>3, <1>4

\* What a task sets out with is work.
LEMMA LeftFits ==
  /\ Kinds \in Seq(KindNames) /\ <<>> \in Seq(KindNames)
  /\ 0 \in 0..MaxRequests /\ 0 \in Nat
  BY DEF Kinds, KindNames

LEMMA ClaimFits ==
  ASSUME NEW as \in Choices, NEW r \in Requests
  PROVE  LET w == Begin("claim", as, <<>>, {r}, FALSE) IN
         w \in Work /\ w.at = "claim" /\ Fits(w)
<1> DEFINE w == Begin("claim", as, <<>>, {r}, FALSE)
<1>1. "claim" \in Places /\ as \in Purposes /\ {r} \in SUBSET Requests
  BY DEF Places, Purposes, Choices
<1>2. w \in Work /\ w.at = "claim" /\ w.as = as
  BY <1>1, LeftFits DEF Begin, Work
<1> QED BY <1>2 DEF Fits

LEMMA TakeFits ==
  ASSUME NEW as \in {"cancelled", "abandoned"}, NEW all \in BOOLEAN
  PROVE  LET w == Begin("take", as, Kinds, {}, all) IN
         w \in Work /\ w.at = "take" /\ Fits(w)
<1> DEFINE w == Begin("take", as, Kinds, {}, all)
<1>1. "take" \in Places /\ as \in Purposes /\ as \in Choices \cup {"abandoned"}
  BY DEF Places, Purposes, Choices, Answers
<1>2. w \in Work /\ w.at = "take" /\ w.as = as
  BY <1>1, LeftFits DEF Begin, Work
<1> QED BY <1>1, <1>2 DEF Fits

LEMMA IdleFits == Idle \in Work /\ Fits(Idle) /\ Idle.at = "idle"
  BY DEF Idle, Begin, Fits, Work, Places, Purposes

\* The types a step leaves alone, where it moves one task.
LEMMA MovesAreTyped ==
  ASSUME IInv, NEW t \in Tasks, NEW w \in Work, Works(t, w),
         asked' = asked, arrived' \in 0..MaxRequests,
         state' \in [Requests -> Standings], told' \in [Requests -> Seq(Answers)],
         listed' \subseteq Requests, shown' \subseteq Requests, credited' \subseteq Requests,
         urls' \subseteq Requests, completed' \subseteq Requests,
         reused' \subseteq Requests \X Requests,
         dropped' \in 0..MaxRequests, cancels' \in 0..MaxCancels,
         closed' \in BOOLEAN, taking' \in BOOLEAN
  PROVE  TypeOK'
  BY DEF IInv, TypeOK, Works

\* Users set out; the reader withdraws, settles a turn, or goes on with a
\* request it admitted, all without touching where any request stands.
LEMMA SettingOutKeeps ==
  ASSUME IInv,
         \/ TurnSettles
         \/ \E r \in Requests : Withdraws(r) \/ \E u \in Clickers : Clicks(u, r)
         \/ \E u \in Leavers, all \in BOOLEAN : AnswersCancelled(u, all)
  PROVE  IInv'
<1> USE DEF IInv, TypeOK, lists, requests, elicited, ends
<1>0. Reader \in Tasks /\ Clickers \subseteq Tasks /\ Leavers \subseteq Tasks
  BY DEF Tasks, Users
<1>1. CASE TurnSettles
  <2>1. GivingUp(FALSE) \in Work /\ Fits(GivingUp(FALSE)) /\ GivingUp(FALSE).at = "take"
    BY TakeFits DEF GivingUp
  <2>2. TypeOK'
    BY <1>0, <1>1, <2>1, MovesAreTyped DEF TurnSettles
  <2> QED BY <1>0, <1>1, <2>1, <2>2, MovesKeep DEF TurnSettles
<1>2. ASSUME NEW r \in Requests, Withdraws(r) PROVE IInv'
  <2> DEFINE w == IF r \in listed' THEN Begin("claim", "withdrawn", <<>>, {r}, FALSE) ELSE Idle
  <2>1. w \in Work /\ w.at \in {"claim", "idle"} /\ Fits(w)
    BY ClaimFits, IdleFits DEF Answers, Choices
  <2>2. TypeOK'
    BY <1>0, <1>2, <2>1, MovesAreTyped DEF Withdraws
  <2> QED BY <1>0, <1>2, <2>1, <2>2, MovesKeep DEF Withdraws
<1>3. ASSUME NEW r \in Requests, NEW u \in Clickers, Clicks(u, r) PROVE IInv'
  <2>0. PICK as \in {"accepted", "declined", "cancelled"} : Works(u, Begin("claim", as, <<>>, {r}, FALSE))
    BY <1>3 DEF Clicks
  <2> DEFINE w == Begin("claim", as, <<>>, {r}, FALSE)
  <2>1. w \in Work /\ w.at = "claim" /\ Fits(w)
    BY <2>0, ClaimFits DEF Answers, Choices
  <2>2. TypeOK'
    BY <1>0, <1>3, <2>0, <2>1, MovesAreTyped DEF Clicks
  <2> QED BY <1>0, <1>3, <2>0, <2>1, <2>2, MovesKeep DEF Clicks
<1>4. ASSUME NEW u \in Leavers, NEW all \in BOOLEAN, AnswersCancelled(u, all) PROVE IInv'
  <2> DEFINE w == Begin("take", "cancelled", Kinds, {}, all)
  <2>1. w \in Work /\ w.at = "take" /\ Fits(w)
    BY TakeFits
  <2>2. cancels' \in 0..MaxCancels
    BY <1>4 DEF AnswersCancelled
  <2>3. TypeOK'
    BY <1>0, <1>4, <2>1, <2>2, MovesAreTyped DEF AnswersCancelled
  <2> QED BY <1>0, <1>4, <2>1, <2>3, MovesKeep DEF AnswersCancelled
<1> QED BY <1>1, <1>2, <1>3, <1>4

\* So does everything the reader does with an admitted request up to the claim.
LEMMA ShowingKeeps ==
  ASSUME IInv,
         \/ Register \/ List \/ Show \/ Credits \/ Uncredit \/ Clear
         \/ \E url \in Urls : Complete({url})
  PROVE  IInv'
<1> USE DEF IInv, lists, requests, elicited, ends
<1>0. Reader \in Tasks /\ task[Reader] \in Work /\ Fits(task[Reader])
  BY DEF Tasks, TypeOK, TasksFit
<1>1. ASSUME NEW place \in {"list", "show", "claim", "gone"},
             place = "claim" => task[Reader].at = "credit"
      PROVE  LET w == [task[Reader] EXCEPT !.at = place] IN
             w \in Work /\ Fits(w) /\ w.at = place /\ w.for = task[Reader].for
  BY <1>0, <1>1 DEF Work, Places, Fits, Choices, Answers
<1>2. task[Reader].at \in {"register", "list", "show"} =>
        task[Reader].for \in Requests /\ task[Reader].for \in 1..arrived
  BY <1>0 DEF NewcomersAreNew, TypeOK, Requests
<1>3. CASE Register
  <2>1. Works(Reader, [task[Reader] EXCEPT !.at = "list"])
    BY <1>3 DEF Register, Goes
  <2>2. urls' \subseteq Requests /\ reused' \subseteq Requests \X Requests
    BY <1>2, <1>3 DEF Register, TypeOK, Swept
  <2>3. UNCHANGED <<requests, lists, completed, ends>>
    BY <1>3 DEF Register
  <2>4. TypeOK'
    BY <1>0, <1>1, <2>1, <2>2, <2>3, MovesAreTyped DEF TypeOK
  <2> QED BY <1>0, <1>1, <1>2, <1>3, <2>1, <2>3, <2>4, MovesKeep DEF Register
<1>4. CASE List
  <2>1. Works(Reader, [task[Reader] EXCEPT !.at = "show"])
    BY <1>4 DEF List, Goes
  <2>2. TypeOK'
    BY <1>0, <1>1, <1>2, <1>4, <2>1, MovesAreTyped DEF List, TypeOK
  <2> QED BY <1>0, <1>1, <1>2, <1>4, <2>1, <2>2, MovesKeep DEF List
<1>5. CASE Show
  <2> DEFINE r == task[Reader].for
  <2>1. PICK w \in {Idle, Begin("credit", "picked", <<>>, {r}, FALSE),
                     Begin("claim", "scripted", <<>>, {r}, FALSE)} : Works(Reader, w)
    BY <1>5 DEF Show
  <2>2. r \in Requests
    BY <1>2, <1>5 DEF Show
  <2>3. w \in Work /\ Fits(w) /\ w.at \in {"idle", "credit", "claim"}
    <3>1. CASE w = Idle
      BY <3>1, IdleFits
    <3>2. CASE w = Begin("credit", "picked", <<>>, {r}, FALSE)
      <4>1. "credit" \in Places /\ "picked" \in Purposes /\ {r} \in SUBSET Requests
        BY <2>2 DEF Places, Purposes, Answers
      <4>2. w \in Work /\ w.at = "credit" /\ w.as = "picked"
        BY <3>2, <4>1, LeftFits DEF Begin, Work
      <4> QED BY <4>2 DEF Fits
    <3>3. CASE w = Begin("claim", "scripted", <<>>, {r}, FALSE)
      BY <2>2, <3>3, ClaimFits DEF Choices, Answers
    <3> QED BY <3>1, <3>2, <3>3
  <2>4. TypeOK'
    BY <1>0, <1>5, <2>1, <2>2, <2>3, MovesAreTyped DEF Show, TypeOK
  <2> QED BY <1>0, <1>5, <2>1, <2>3, <2>4, MovesKeep DEF Show
<1>6. CASE Credits
  <2>1. Works(Reader, [task[Reader] EXCEPT !.at = "claim"])
    BY <1>6 DEF Credits, Goes
  <2>2. task[Reader].taken \subseteq Requests
    BY <1>0 DEF Work
  <2>3. TypeOK'
    BY <1>0, <1>1, <1>6, <2>1, <2>2, MovesAreTyped DEF Credits, Credit, TypeOK
  <2> QED BY <1>0, <1>1, <1>6, <2>1, <2>3, MovesKeep DEF Credits
<1>7. CASE Uncredit
  <2>1. TypeOK'
    BY <1>0, <1>7, IdleFits, MovesAreTyped DEF Uncredit, TypeOK
  <2> QED BY <1>0, <1>7, <2>1, IdleFits, MovesKeep DEF Uncredit
<1>8. CASE Clear
  <2>1. Works(Reader, [task[Reader] EXCEPT !.at = "gone"])
    BY <1>8 DEF Clear, Goes
  <2>2. TypeOK'
    BY <1>0, <1>1, <1>8, <2>1, MovesAreTyped DEF Clear, TypeOK
  <2> QED BY <1>0, <1>1, <1>8, <2>1, <2>2, MovesKeep DEF Clear
<1>9. ASSUME NEW url \in Urls, Complete({url}) PROVE IInv'
  <2>1. TypeOK'
    BY <1>9 DEF Complete, Swept, TypeOK
  <2>2. UNCHANGED <<requests, ends, task>>
    BY <1>9 DEF Complete
  <2> QED BY <2>1, <2>2 DEF TasksFit, Fits, OwnersOwn, OwnersDiffer, Owning, RefusalsAreFresh,
                            NewcomersAreNew, DroppedIsStuck, StandsAsTold
<1> QED BY <1>3, <1>4, <1>5, <1>6, <1>7, <1>8, <1>9

\* Counting moves the reader within "count".
LEMMA CountingKeeps ==
  ASSUME IInv, Count
  PROVE  IInv'
<1> USE DEF IInv, requests, elicited, ends
<1> DEFINE v == task[Reader]
           n == Cardinality(Pruned(Head(v.left)) \cap Of(Head(v.left)))
           c == [v EXCEPT !.count = @ + n]
           w == [c EXCEPT !.left = Tail(@)]
<1>0. Reader \in Tasks /\ v \in Work /\ v.at = "count" /\ v.left # <<>>
  BY DEF Tasks, TypeOK, Count
<1>1. n \in Nat
  <2>1. IsFiniteSet(1..arrived)
    BY FS_Interval DEF TypeOK
  <2>2. Pruned(Head(v.left)) \cap Of(Head(v.left)) \subseteq 1..arrived
    BY DEF Of
  <2> QED BY <2>1, <2>2, FS_Subset, FS_CardinalityType
<1>2. c \in Work /\ c.at = v.at /\ c.as = v.as /\ c.for = v.for /\ c.left = v.left
  <2>1. v.count + n \in Nat
    BY <1>0, <1>1 DEF Work
  <2> DEFINE m == v.count + n
  <2>2. c = [v EXCEPT !.count = m]
    BY <1>0 DEF Work
  <2>3. m \in Nat
    BY <2>1
  <2> HIDE DEF c, m, n
  <2> QED BY <1>0, <2>2, <2>3 DEF Work
<1>3. Tail(c.left) \in Seq(KindNames)
  BY <1>0, <1>2 DEF Work
<1> HIDE DEF c
<1>4. w \in Work /\ w.at = "count" /\ w.as = v.as /\ w.for = v.for
  BY <1>0, <1>2, <1>3 DEF Work
<1>5. Works(Reader, w) /\ listed' \subseteq Requests
      /\ UNCHANGED <<requests, shown, credited, elicited, ends>>
  BY DEF Count, c, TypeOK, Pruned
<1> HIDE DEF w
<1>6. TypeOK'
  BY <1>0, <1>4, <1>5, MovesAreTyped DEF TypeOK
<1>7. task' = [task EXCEPT ![Reader] = w] /\ task \in [Tasks -> Work]
  BY <1>5 DEF Works, TypeOK
<1>8. TasksFit' /\ OwnersOwn' /\ OwnersDiffer'
  BY <1>0, <1>4, <1>5, <1>7 DEF TasksFit, Fits, OwnersOwn, OwnersDiffer, Owning
<1>9. RefusalsAreFresh' /\ NewcomersAreNew'
  BY <1>0, <1>4, <1>5, <1>7 DEF RefusalsAreFresh, NewcomersAreNew
<1>10. DroppedIsStuck' /\ StandsAsTold'
  BY <1>5 DEF DroppedIsStuck, StandsAsTold
<1> QED BY <1>6, <1>8, <1>9, <1>10

\* A request that arrives had no standing: nobody owns it.
LEMMA ArrivingKeeps ==
  ASSUME IInv, Arrives
  PROVE  IInv'
<1> USE DEF IInv
<1> DEFINE r == arrived + 1
<1>0. /\ Reader \in Tasks /\ r \in Requests /\ r \in Nat /\ r > arrived /\ arrived \in Nat
      /\ state[r] = "none" /\ told[r] = <<>>
      /\ arrived' = r /\ r \in 1..r
  BY DEF Tasks, TypeOK, Arrives, Requests, NewcomersAreNew, StandsAsTold
<1>00. r \in 0..MaxRequests
  BY <1>0 DEF Requests
<1>1. PICK w \in Work :
        /\ Works(Reader, w) /\ w.for = r /\ Fits(w)
        /\ \/ w.at = "show" /\ state' = [state EXCEPT ![r] = "waiting"]
           \/ w.at = "count" /\ state' = state
  <2>1. CASE asked[r].picked /\ asked[r].kind = "service"
    <3> DEFINE b == Begin("show", "none", <<>>, {}, FALSE)
    <3>1. b \in Work /\ b.at = "show"
      BY LeftFits DEF Begin, Work, Places, Purposes
    <3>2. [b EXCEPT !.for = r] \in Work /\ [b EXCEPT !.for = r].at = "show"
          /\ [b EXCEPT !.for = r].for = r
      BY <1>00, <3>1, ForFits
    <3>3. Works(Reader, [b EXCEPT !.for = r]) /\ state' = [state EXCEPT ![r] = "waiting"]
      BY <2>1 DEF Arrives
    <3> QED BY <3>2, <3>3 DEF Fits
  <2>2. CASE ~(asked[r].picked /\ asked[r].kind = "service")
    <3> DEFINE b == Begin("count", "none", Kinds, {}, FALSE)
    <3>1. b \in Work /\ b.at = "count"
      BY LeftFits DEF Begin, Work, Places, Purposes
    <3>2. [b EXCEPT !.for = r] \in Work /\ [b EXCEPT !.for = r].at = "count"
          /\ [b EXCEPT !.for = r].for = r
      BY <1>00, <3>1, ForFits
    <3>3. Works(Reader, [b EXCEPT !.for = r]) /\ state' = state
      BY <2>2 DEF Arrives
    <3> QED BY <3>2, <3>3 DEF Fits
  <2> QED BY <2>1, <2>2
<1>2. task' = [task EXCEPT ![Reader] = w] /\ task \in [Tasks -> Work]
  BY <1>1 DEF Works, TypeOK
<1>3. UNCHANGED <<asked, told, lists, elicited, ends>>
  BY DEF Arrives
<1>4. state' \in [Requests -> Standings] /\ \A q \in Requests : q # r => state'[q] = state[q]
  BY <1>0, <1>1 DEF TypeOK, Standings
<1>5. TypeOK'
  <2>1. arrived' \in 0..MaxRequests /\ state' \in [Requests -> Standings]
    BY <1>0, <1>00, <1>4
  <2>2. UNCHANGED <<asked, told, listed, shown, credited, urls, completed, reused,
                    dropped, cancels, closed, taking>>
    BY <1>3 DEF lists, elicited, ends
  <2> HIDE DEF r
  <2> QED BY <1>0, <1>1, <2>1, <2>2, MovesAreTyped DEF TypeOK
<1>6. TasksFit'
  BY <1>1, <1>2 DEF TasksFit
<1>7. OwnersOwn' /\ OwnersDiffer'
  BY <1>0, <1>1, <1>2, <1>3, <1>4 DEF OwnersOwn, OwnersDiffer, Owning, ends
<1>8. RefusalsAreFresh'
  BY <1>0, <1>1, <1>2, <1>3, <1>4 DEF RefusalsAreFresh
<1>9. NewcomersAreNew'
  <2>1. \A t \in Tasks : task'[t].at = "count" => t = Reader /\ state'[task'[t].for] = "none"
    BY <1>0, <1>1, <1>2 DEF NewcomersAreNew
  <2>2. \A t \in Tasks : task'[t].at \in {"count", "register", "list", "show"} =>
           task'[t].for \in 1..arrived'
    BY <1>0, <1>1, <1>2 DEF NewcomersAreNew
  <2>3. \A q \in Requests : q > arrived' => state'[q] = "none"
    BY <1>0, <1>4 DEF NewcomersAreNew, Requests
  <2> QED BY <2>1, <2>2, <2>3 DEF NewcomersAreNew
<1>10. DroppedIsStuck'
  BY <1>0, <1>3, <1>4 DEF DroppedIsStuck, TypeOK, Requests, ends
<1>11. StandsAsTold'
  BY <1>0, <1>1, <1>3, <1>4 DEF StandsAsTold, TypeOK
<1> QED BY <1>5, <1>6, <1>7, <1>8, <1>9, <1>10, <1>11

\* A request no task but t is about to answer, refuse or admit.
Loose(t, r) ==
  \A u \in Tasks \ {t} : task[u].at \in {"send", "settle", "fail", "count"} => task[u].for # r

LEMMA LooseOnes ==
  ASSUME IInv, NEW t \in Tasks, NEW r \in Requests
  PROVE  /\ Owning(t) /\ task[t].for = r => Loose(t, r)
         /\ state[r] = "waiting" => Loose(t, r)
         /\ t = Reader /\ state[r] # "answering" => Loose(t, r)
<1>1. ASSUME NEW u \in Tasks \ {t}, task[u].at \in {"send", "settle", "fail", "count"},
             task[u].for = r
      PROVE  \/ Owning(u) /\ state[r] = "answering"
             \/ u = Reader /\ state[r] \in {"none", "refused"}
  BY <1>1 DEF IInv, OwnersOwn, RefusalsAreFresh, NewcomersAreNew, Owning
<1>2. Owning(t) /\ task[t].for = r => state[r] = "answering"
  BY DEF IInv, OwnersOwn
<1>3. ASSUME NEW u \in Tasks \ {t}, Owning(u), Owning(t), task[t].for = r
      PROVE  task[u].for # r
  BY <1>3 DEF IInv, OwnersDiffer
<1> QED BY <1>1, <1>2, <1>3 DEF Loose

\* What the invariant asks of one request by itself.
Told(s, a) ==
  /\ Len(a) <= 1
  /\ s \in {"none", "waiting", "abandoned"} => a = <<>>
  /\ s \in {"accepted", "declined", "cancelled", "withdrawn"} =>
       \E as \in Answers : a = <<as>> /\ Stands(as) = s

\* A task moves, and one request nobody else has changes with it.
LEMMA StepKeeps ==
  ASSUME IInv, NEW t \in Tasks, NEW w \in Work, NEW r \in Requests,
         NEW s \in Standings, NEW a \in Seq(Answers),
         Works(t, w), Fits(w), w.at # "count",
         w.at \in {"register", "list", "show"} => w.for \in 1..arrived,
         w.at \in {"send", "settle", "fail"} =>
           /\ w.for = r
           /\ IF w.as = "refused" THEN t = Reader /\ s = "refused" /\ a = <<>>
              ELSE s = "answering" /\ a = IF w.at = "settle" THEN <<w.as>> ELSE <<>>,
         state' = [state EXCEPT ![r] = s], told' = [told EXCEPT ![r] = a],
         Loose(t, r), r # dropped, r <= arrived, Told(s, a),
         UNCHANGED <<asked, arrived, lists, elicited, ends>>
  PROVE  IInv'
<1>1. /\ task' = [task EXCEPT ![t] = w] /\ task \in [Tasks -> Work]
      /\ state \in [Requests -> Standings] /\ told \in [Requests -> Seq(Answers)]
      /\ dropped' = dropped /\ arrived' = arrived
  BY DEF IInv, TypeOK, Works, ends
<1>2. \A q \in Requests : q # r => state'[q] = state[q] /\ told'[q] = told[q]
  BY <1>1
<1>3. state'[r] = s /\ told'[r] = a
  BY <1>1
<1>4. task'[t] = w /\ \A u \in Tasks : u # t => task'[u] = task[u]
  BY <1>1
<1>5. TypeOK'
  <2>1. state' \in [Requests -> Standings] /\ told' \in [Requests -> Seq(Answers)]
    BY <1>1
  <2> QED BY <2>1, MovesAreTyped DEF IInv, TypeOK, lists, elicited, ends
<1>6. TasksFit'
  BY <1>4 DEF IInv, TasksFit
<1>7. OwnersOwn'
  <2>1. ASSUME Owning(t)'
        PROVE  /\ w.for \in Requests /\ w.for # dropped'
               /\ state'[w.for] = "answering"
               /\ told'[w.for] = IF w.at = "settle" THEN <<w.as>> ELSE <<>>
    BY <1>1, <1>3, <1>4, <2>1 DEF Owning
  <2>2. ASSUME NEW u \in Tasks \ {t}, Owning(u)'
        PROVE  /\ task'[u].for \in Requests /\ task'[u].for # dropped'
               /\ state'[task'[u].for] = "answering"
               /\ told'[task'[u].for] = IF task'[u].at = "settle" THEN <<task'[u].as>> ELSE <<>>
    BY <1>1, <1>2, <1>4, <2>2 DEF IInv, OwnersOwn, Owning, Loose
  <2> QED BY <1>4, <2>1, <2>2 DEF OwnersOwn
<1>8. OwnersDiffer'
  BY <1>4 DEF IInv, OwnersDiffer, Owning, Loose
<1>9. RefusalsAreFresh'
  <2>1. ASSUME NEW u \in Tasks \ {t}, task'[u].at \in {"send", "settle", "fail"},
               task'[u].as = "refused"
        PROVE  u = Reader /\ task'[u].for \in Requests
               /\ state'[task'[u].for] = "refused" /\ told'[task'[u].for] = <<>>
    BY <1>2, <1>4, <2>1 DEF IInv, RefusalsAreFresh, Loose
  <2> QED BY <1>3, <1>4, <2>1 DEF RefusalsAreFresh
<1>10. NewcomersAreNew'
  <2>1. ASSUME NEW u \in Tasks, task'[u].at = "count"
        PROVE  u = Reader /\ state'[task'[u].for] = "none"
    <3>1. u # t /\ task'[u] = task[u]
      BY <1>4, <2>1
    <3>2. task[u].for # r /\ task[u].for \in 1..arrived /\ u = Reader
          /\ state[task[u].for] = "none"
      BY <2>1, <3>1 DEF IInv, NewcomersAreNew, Loose
    <3> QED BY <1>1, <3>1, <3>2 
  <2>2. \A u \in Tasks : task'[u].at \in {"count", "register", "list", "show"} =>
           task'[u].for \in 1..arrived'
    BY <1>1, <1>4 DEF IInv, NewcomersAreNew
  <2>3. \A q \in Requests : q > arrived' => state'[q] = "none"
    BY <1>1, <1>2 DEF IInv, TypeOK, NewcomersAreNew, Requests
  <2> QED BY <2>1, <2>2, <2>3 DEF NewcomersAreNew
<1>11. DroppedIsStuck'
  BY <1>1, <1>2 DEF IInv, TypeOK, DroppedIsStuck, Requests
<1>12. StandsAsTold'
  BY <1>2, <1>3 DEF IInv, StandsAsTold, Told
<1> QED BY <1>5, <1>6, <1>7, <1>8, <1>9, <1>10, <1>11, <1>12 DEF IInv

\* Writing what was there changes nothing.
LEMMA SameAgain ==
  ASSUME IInv, NEW r \in Requests
  PROVE  /\ told = [told EXCEPT ![r] = told[r]]
         /\ state = [state EXCEPT ![r] = state[r]]
         /\ told[r] \in Seq(Answers) /\ state[r] \in Standings
         /\ Told(state[r], told[r])
  BY DEF IInv, TypeOK, StandsAsTold, Told

\* A request counted in or out starts to wait, or is refused.
LEMMA AdmittingKeeps ==
  ASSUME IInv, Admit
  PROVE  IInv'
<1> DEFINE r == task[Reader].for
           s == IF Saturated THEN "refused" ELSE "waiting"
<1>1. /\ Reader \in Tasks /\ arrived \in 0..MaxRequests /\ r \in 1..arrived /\ r \in Requests
      /\ r \in 0..MaxRequests /\ r <= arrived /\ state[r] = "none" /\ told[r] = <<>>
  BY DEF Admit, IInv, TypeOK, Tasks, NewcomersAreNew, StandsAsTold, Requests
<1>2. PICK b \in {Begin("show", "none", <<>>, {}, FALSE), Begin("send", "refused", <<>>, {}, FALSE),
                  Begin("register", "none", <<>>, {}, FALSE), Begin("list", "none", <<>>, {}, FALSE)} :
        /\ Works(Reader, [b EXCEPT !.for = r])
        /\ b.at = "send" <=> Saturated
  BY DEF Admit, Begin
<1>3. /\ b \in Work /\ b.at \in {"show", "send", "register", "list"}
      /\ b.at = "send" => b.as = "refused"
  <2>1. ASSUME NEW at \in {"show", "register", "list"}, b = Begin(at, "none", <<>>, {}, FALSE)
        PROVE  b \in Work /\ b.at = at
    <3>1. at \in Places /\ "none" \in Purposes
      BY DEF Places, Purposes
    <3> QED BY <2>1, <3>1, LeftFits DEF Begin, Work
  <2>2. ASSUME b = Begin("send", "refused", <<>>, {}, FALSE)
        PROVE  b \in Work /\ b.at = "send" /\ b.as = "refused"
    <3>1. "send" \in Places /\ "refused" \in Purposes
      BY DEF Places, Purposes, Answers
    <3> QED BY <2>2, <3>1, LeftFits DEF Begin, Work
  <2> QED BY <2>1, <2>2
<1> DEFINE w == [b EXCEPT !.for = r]
<1>9. Works(Reader, w)
  BY <1>2
<1>4. w \in Work /\ w.for = r /\ w.at = b.at /\ w.as = b.as
  BY <1>1, <1>3, ForFits
<1>44. w.at \in {"show", "send", "register", "list"} /\ (w.at = "send" => w.as = "refused")
  BY <1>3, <1>4
<1> HIDE DEF w
<1>5. Fits(w)
  BY <1>44 DEF Fits, Answers
<1>6. state' = [state EXCEPT ![r] = s] /\ told' = [told EXCEPT ![r] = <<>>]
      /\ UNCHANGED <<asked, arrived, lists, elicited, ends>>
  BY <1>1, SameAgain DEF Admit
<1>7. Loose(Reader, r) /\ r # dropped
  BY <1>1, LooseOnes DEF IInv, DroppedIsStuck, Requests
<1>8. s \in Standings /\ <<>> \in Seq(Answers) /\ Told(s, <<>>)
  BY DEF Standings, Told
<1>10. w.at = "send" <=> s = "refused"
  BY <1>2, <1>4
<1>11. /\ w.at \in {"register", "list", "show"} => w.for \in 1..arrived
       /\ w.at \in {"send", "settle", "fail"} => w.for = r /\ w.as = "refused" /\ s = "refused"
       /\ w.at # "count"
  BY <1>1, <1>4, <1>44, <1>10
<1> HIDE DEF s, r
<1> QED BY <1>11, <1>44, <1>1, <1>3, <1>4, <1>5, <1>6, <1>7, <1>8, <1>9, StepKeeps

\* Whoever comes first owns the request; whoever comes later goes on.
LEMMA ClaimingKeeps ==
  ASSUME IInv, NEW t \in Tasks, NEW r \in Requests, Claim(t, r)
  PROVE  IInv'
<1> DEFINE b == [task[t] EXCEPT !.for = r]
           w == [b EXCEPT !.taken = @ \ {r}]
<1>1. /\ task[t] \in Work /\ Fits(task[t]) /\ task[t].at = "claim"
      /\ r \in 0..MaxRequests /\ task[t].as \in Choices
  BY DEF Claim, IInv, TypeOK, TasksFit, Fits, Requests
<1>2. b \in Work /\ b.for = r /\ b.at = "claim" /\ b.as = task[t].as
  BY <1>1, ForFits
<1> HIDE DEF b
<1>3. w \in Work /\ w.for = r /\ w.at = "claim" /\ w.as \in Choices
  BY <1>1, <1>2 DEF Work
<1>4. w = Picks(task[t], r)
  BY DEF Picks, b
<1> HIDE DEF w
<1>5. CASE Claims(r)
  <2> DEFINE v == [w EXCEPT !.at = "send"]
  <2>1. v \in Work /\ v.at = "send" /\ v.for = r /\ v.as \in Choices
    BY <1>3, AtFits DEF Places
  <2>2. Works(t, v) /\ state' = [state EXCEPT ![r] = "answering"]
        /\ UNCHANGED <<asked, arrived, told, lists, elicited, ends>>
    BY <1>4, <1>5 DEF Claim
  <2>3. state[r] = "waiting" /\ told[r] = <<>> /\ r # dropped /\ r <= arrived
    BY <1>5 DEF Claims, Waiting, IInv, StandsAsTold, DroppedIsStuck, NewcomersAreNew, TypeOK,
                Requests
  <2>4. told' = [told EXCEPT ![r] = <<>>]
    BY <2>2, <2>3, SameAgain
  <2>5. Loose(t, r)
    BY <2>3, LooseOnes
  <2>6. "answering" \in Standings /\ <<>> \in Seq(Answers) /\ Told("answering", <<>>)
    BY DEF Standings, Told
  <2>7. Fits(v) /\ v.as # "refused"
    BY <2>1 DEF Fits, Choices
  <2> HIDE DEF v
  <2> QED BY <2>1, <2>2, <2>3, <2>4, <2>5, <2>6, <2>7, StepKeeps
<1>6. CASE ~Claims(r)
  <2> DEFINE v == IF w.as = "picked" THEN [w EXCEPT !.at = "uncredit"] ELSE Onward(w)
  <2>1. v \in Work /\ Fits(v) /\ v.at \in {"uncredit", "idle", "claim", "abandon", "take", "clear"}
    <3>1. CASE w.as = "picked"
      BY <1>3, <3>1, AtFits, ZenonT(30) DEF Fits, Places
    <3>2. CASE w.as # "picked"
      BY <1>3, <3>2, OnwardFits
    <3> QED BY <3>1, <3>2
  <2>2. Works(t, v) /\ UNCHANGED <<asked, arrived, state, told, lists, elicited, ends>>
    BY <1>4, <1>6 DEF Claim
  <2> HIDE DEF v
  <2>3. TypeOK'
    BY <2>1, <2>2, MovesAreTyped DEF IInv, TypeOK, lists, elicited, ends
  <2> QED BY <2>1, <2>2, <2>3, MovesKeep DEF requests, ends
<1> QED BY <1>5, <1>6

\* A task about to send, settle or fail has a request of its own.
LEMMA OwnerHas ==
  ASSUME IInv, NEW t \in Tasks, Owning(t)
  PROVE  LET r == task[t].for IN
         /\ task[t] \in Work /\ task[t].as \in Choices
         /\ r \in Requests /\ r # dropped /\ r <= arrived
         /\ state[r] = "answering" /\ Loose(t, r)
         /\ told[r] = IF task[t].at = "settle" THEN <<task[t].as>> ELSE <<>>
<1> DEFINE r == task[t].for
<1>1. /\ r \in Requests /\ r # dropped /\ state[r] = "answering"
      /\ told[r] = IF task[t].at = "settle" THEN <<task[t].as>> ELSE <<>>
  BY DEF IInv, OwnersOwn
<1>2. Loose(t, r)
  BY <1>1, LooseOnes
<1>3. r <= arrived
  BY <1>1 DEF IInv, TypeOK, NewcomersAreNew, Requests
<1>4. task[t] \in Work /\ task[t].as \in Choices
  BY DEF IInv, TypeOK, TasksFit, Fits, Owning, Choices
<1> QED BY <1>1, <1>2, <1>3, <1>4

\* A refusal is the reader's, and settles nothing.
LEMMA RefusalHas ==
  ASSUME IInv, NEW t \in Tasks, task[t].at = "send", task[t].as = "refused"
  PROVE  LET r == task[t].for IN
         /\ r \in Requests /\ r # dropped /\ r <= arrived
         /\ state[r] = "refused" /\ told[r] = <<>> /\ Loose(t, r)
<1> DEFINE r == task[t].for
<1>1. t = Reader /\ r \in Requests /\ state[r] = "refused" /\ told[r] = <<>>
  BY DEF IInv, RefusalsAreFresh
<1>2. Loose(t, r)
  BY <1>1, LooseOnes
<1>3. r <= arrived /\ r # dropped
  BY <1>1 DEF IInv, TypeOK, NewcomersAreNew, DroppedIsStuck, Requests
<1> QED BY <1>1, <1>2, <1>3

\* The answer goes into the queue, or does not: its owner alone knows.
LEMMA SendingKeeps ==
  ASSUME IInv, NEW t \in Tasks, Send(t) \/ SendFails(t)
  PROVE  IInv'
<1> DEFINE r == task[t].for
           as == task[t].as
<1>1. task[t] \in Work /\ task[t].at = "send" /\ as \in Answers /\ UNCHANGED state
  BY DEF Send, SendFails, IInv, TypeOK, TasksFit, Fits, requests
<1>2. UNCHANGED <<asked, arrived, lists, elicited, ends>>
  BY DEF Send, SendFails, requests
<1>3. CASE as = "refused"
  <2>1. /\ r \in Requests /\ r # dropped /\ r <= arrived
        /\ state[r] = "refused" /\ told[r] = <<>> /\ Loose(t, r)
    BY <1>1, <1>3, RefusalHas
  <2>2. Works(t, Idle) /\ state' = [state EXCEPT ![r] = "refused"]
    BY <1>1, <1>3, <2>1, SameAgain DEF Send, SendFails
  <2>3. PICK a \in {<<>>, <<"refused">>} : told' = [told EXCEPT ![r] = a]
    <3>1. CASE Send(t)
      <4>1. told' = [told EXCEPT ![r] = Append(<<>>, as)]
        BY <2>1, <3>1 DEF Send
      <4> QED BY <1>3, <4>1
    <3>2. CASE SendFails(t)
      BY <2>1, <3>2, SameAgain DEF SendFails, requests
    <3> QED BY <3>1, <3>2
  <2>4. a \in Seq(Answers) /\ Told("refused", a) /\ "refused" \in Standings
    <3>1. "refused" \in Standings /\ as \in Answers
      BY <1>1 DEF Standings
    <3>2. <<>> \in Seq(Answers) /\ Told("refused", <<>>)
      BY DEF Told
    <3>3. <<as>> \in Seq(Answers) /\ Told("refused", <<as>>)
      BY <3>1 DEF Told
    <3> QED BY <1>3, <2>3, <3>1, <3>2, <3>3
  <2> HIDE DEF r
  <2> QED BY <1>2, <2>1, <2>2, <2>3, <2>4, IdleFits, StepKeeps
<1>4. CASE as # "refused"
  <2>1. /\ r \in Requests /\ r # dropped /\ r <= arrived /\ as \in Choices
        /\ state[r] = "answering" /\ told[r] = <<>> /\ Loose(t, r)
    BY <1>1, <1>4, OwnerHas DEF Owning
  <2>2. state' = [state EXCEPT ![r] = "answering"]
    BY <1>1, <2>1, SameAgain
  <2>3. ASSUME NEW place \in {"settle", "fail"}
        PROVE  LET w == [task[t] EXCEPT !.at = place] IN
               /\ w \in Work /\ w.for = r /\ w.as = as /\ w.at = place
               /\ Fits(w)
    <3> DEFINE w == [task[t] EXCEPT !.at = place]
    <3>1. place \in Places
      BY DEF Places
    <3>2. w \in Work /\ w.for = r /\ w.as = as /\ w.at = place
      BY <1>1, <3>1, AtFits
    <3>3. Fits(w)
      <4> HIDE DEF w
      <4> QED BY <2>1, <2>3, <3>2 DEF Fits
    <3> QED BY <3>2, <3>3
  <2>4. <<>> \in Seq(Answers) /\ <<as>> \in Seq(Answers) /\ "answering" \in Standings
        /\ Told("answering", <<>>) /\ Told("answering", <<as>>)
    BY <1>1 DEF Told, Standings
  <2>5. CASE Send(t)
    <3> DEFINE w == [task[t] EXCEPT !.at = "settle"]
    <3>1. Works(t, w) /\ told' = [told EXCEPT ![r] = <<as>>]
      BY <1>4, <2>1, <2>5 DEF Send
    <3>2. w \in Work /\ w.for = r /\ w.as = as /\ w.at = "settle" /\ Fits(w)
      BY <2>3
    <3> HIDE DEF w, r, as
    <3> QED BY <1>2, <1>4, <2>1, <2>2, <2>4, <3>1, <3>2, StepKeeps
  <2>6. CASE SendFails(t)
    <3> DEFINE w == [task[t] EXCEPT !.at = "fail"]
    <3>1. Works(t, w) /\ told' = [told EXCEPT ![r] = <<>>]
      BY <1>4, <2>1, <2>6, SameAgain DEF SendFails, requests
    <3>2. w \in Work /\ w.for = r /\ w.as = as /\ w.at = "fail" /\ Fits(w)
      BY <2>3
    <3> HIDE DEF w, r, as
    <3> QED BY <1>2, <1>4, <2>1, <2>2, <2>4, <3>1, <3>2, StepKeeps
  <2> QED BY <2>5, <2>6
<1> QED BY <1>3, <1>4

\* A task that sent, or could not, says where the request stands and goes on.
LEMMA SettlingKeeps ==
  ASSUME IInv, NEW t \in Tasks, Settle(t) \/ Fail(t)
  PROVE  IInv'
<1> DEFINE r == task[t].for
           as == task[t].as
           w == IF task[t].at = "fail" /\ as = "picked" THEN [task[t] EXCEPT !.at = "uncredit"]
                ELSE Onward(task[t])
<1>1. task[t].at \in {"settle", "fail"} /\ as # "refused"
  BY DEF Settle, Fail, IInv, TasksFit, Fits, Choices
<1>2. /\ task[t] \in Work /\ as \in Choices
      /\ r \in Requests /\ r # dropped /\ r <= arrived /\ Loose(t, r)
      /\ told[r] = IF task[t].at = "settle" THEN <<as>> ELSE <<>>
  BY <1>1, OwnerHas DEF Owning
<1>3. UNCHANGED <<asked, arrived, lists, elicited, ends>>
      /\ told' = [told EXCEPT ![r] = told[r]] /\ told[r] \in Seq(Answers)
  BY <1>2, SameAgain DEF Settle, Fail
<1>4. w \in Work /\ Fits(w) /\ w.at \in {"uncredit", "idle", "claim", "abandon", "take", "clear"}
  <2>1. CASE task[t].at = "fail" /\ as = "picked"
    BY <1>2, <2>1, AtFits, ZenonT(30) DEF Fits, Places
  <2>2. CASE ~(task[t].at = "fail" /\ as = "picked")
    BY <1>2, <2>2, OnwardFits
  <2> QED BY <2>1, <2>2
<1>5. Works(t, w)
  BY <1>1 DEF Settle, Fail
<1>6. CASE task[t].at = "settle"
  <2>1. state' = [state EXCEPT ![r] = Stands(as)]
    BY <1>6 DEF Settle, Fail
  <2>2. Stands(as) \in {"accepted", "declined", "cancelled", "withdrawn"} /\ as \in Answers
    BY <1>2 DEF Stands, Choices, Answers
  <2>3. Told(Stands(as), told[r]) /\ Stands(as) \in Standings
    <3>1. told[r] = <<as>>
      BY <1>2, <1>6
    <3>2. Len(told[r]) <= 1 /\ \E x \in Answers : told[r] = <<x>> /\ Stands(x) = Stands(as)
      BY <2>2, <3>1
    <3>3. Stands(as) \in Standings
      BY <2>2 DEF Standings
    <3> QED BY <2>2, <3>2, <3>3 DEF Told
  <2> HIDE DEF w, r, as
  <2> QED BY <1>2, <1>3, <1>4, <1>5, <2>1, <2>3, StepKeeps
<1>7. CASE task[t].at = "fail"
  <2>1. state' = [state EXCEPT ![r] = "abandoned"]
    BY <1>7 DEF Settle, Fail, Failed
  <2>2. Told("abandoned", told[r]) /\ "abandoned" \in Standings
    BY <1>2, <1>7 DEF Told, Standings
  <2> HIDE DEF w, r, as
  <2> QED BY <1>2, <1>3, <1>4, <1>5, <2>1, <2>2, StepKeeps
<1> QED BY <1>1, <1>6, <1>7

\* A cancel, the end of a turn or the teardown takes requests off a list.
LEMMA TakingKeeps ==
  ASSUME IInv, NEW t \in Tasks, Take(t)
  PROVE  IInv'
<1> DEFINE v == task[t]
           S == {r \in listed \cap Of(Head(v.left)) : v.all \/ ~Outlives(r)}
           b == [v EXCEPT !.left = Tail(@)]
           w == [b EXCEPT !.taken = S]
<1>1. /\ v \in Work /\ v.as \in Choices \cup {"abandoned"} /\ v.left # <<>>
      /\ v.left \in Seq(KindNames) /\ S \subseteq Requests /\ listed' = listed \ S
      /\ listed' \subseteq Requests
      /\ Works(t, Onward(w)) /\ UNCHANGED <<requests, shown, credited, elicited, ends>>
  BY DEF Take, IInv, TypeOK, TasksFit, Fits, Work
<1>2. b \in Work /\ b.as = v.as
  <2>1. Tail(v.left) \in Seq(KindNames)
    BY <1>1
  <2> QED BY <1>1, <2>1 DEF Work
<1> HIDE DEF b, S
<1>3. w \in Work /\ w.as = v.as
  BY <1>1, <1>2 DEF Work
<1> HIDE DEF w
<1>4. /\ Onward(w) \in Work /\ Fits(Onward(w))
      /\ Onward(w).at \in {"idle", "claim", "abandon", "take", "clear"}
  BY <1>1, <1>3, OnwardFits
<1>5. TypeOK'
  BY <1>1, <1>4, MovesAreTyped DEF IInv, TypeOK, requests, elicited, ends
<1> QED BY <1>1, <1>4, <1>5, MovesKeep DEF ends

\* What is given up on was told nothing; an answer on its way is left alone.
LEMMA AbandoningKeeps ==
  ASSUME IInv, NEW t \in Tasks, NEW r \in Requests, Abandon(t, r)
  PROVE  IInv'
<1> DEFINE b == [task[t] EXCEPT !.for = r]
           w == [b EXCEPT !.taken = @ \ {r}]
<1>1. task[t] \in Work /\ task[t].as = "abandoned" /\ r \in 0..MaxRequests
  BY DEF Abandon, IInv, TypeOK, TasksFit, Fits, Requests
<1>2. b \in Work /\ b.as = "abandoned"
  BY <1>1, ForFits
<1>3. Works(t, Onward(w)) /\ UNCHANGED <<asked, arrived, told, lists, elicited, ends>>
  BY DEF Abandon, Picks
<1> HIDE DEF b
<1>4. w \in Work /\ w.as = "abandoned"
  BY <1>2 DEF Work
<1> HIDE DEF w
<1>5. /\ Onward(w) \in Work /\ Fits(Onward(w))
      /\ Onward(w).at \in {"idle", "claim", "abandon", "take", "clear"}
  BY <1>4, OnwardFits
<1>6. CASE Lapses(r)
  <2>1. state[r] = "waiting" /\ told[r] = <<>> /\ r # dropped /\ r <= arrived
    BY <1>6 DEF Lapses, Waiting, IInv, StandsAsTold, DroppedIsStuck, NewcomersAreNew, TypeOK,
                Requests
  <2>2. state' = [state EXCEPT ![r] = "abandoned"] /\ told' = [told EXCEPT ![r] = <<>>]
    BY <1>3, <1>6, <2>1, SameAgain DEF Abandon
  <2>3. Loose(t, r)
    BY <2>1, LooseOnes
  <2>4. "abandoned" \in Standings /\ <<>> \in Seq(Answers) /\ Told("abandoned", <<>>)
    BY DEF Standings, Told
  <2> QED BY <1>3, <1>5, <2>1, <2>2, <2>3, <2>4, StepKeeps
<1>7. CASE ~Lapses(r)
  <2>1. UNCHANGED state
    BY <1>7 DEF Abandon
  <2>2. TypeOK'
    BY <1>3, <1>5, <2>1, MovesAreTyped DEF IInv, TypeOK, lists, elicited, ends
  <2> QED BY <1>3, <1>5, <2>1, <2>2, MovesKeep DEF requests, ends
<1> QED BY <1>6, <1>7

\* The reader let go with an answer of its own leaves that request as it is.
LEMMA DisconnectingKeeps ==
  ASSUME IInv, Disconnected
  PROVE  IInv'
<1> DEFINE w == GivingUp(TRUE)
           v == task[Reader]
<1>1. w \in Work /\ w.at = "take" /\ Fits(w)
  BY TakeFits DEF GivingUp
<1> HIDE DEF w
<1>2. /\ Reader \in Tasks /\ v \in Work /\ v.at \in {"idle", "send"} /\ v.for \in 0..MaxRequests
      /\ dropped' = IF v.as = "refused" THEN 0 ELSE v.for
      /\ v.at = "idle" => v.for = 0
      /\ Works(Reader, w) /\ UNCHANGED <<requests, lists, elicited, cancels, taking>>
  BY DEF Disconnected, IInv, TypeOK, TasksFit, Fits, Tasks, Work, w
<1>3. task' = [task EXCEPT ![Reader] = w] /\ task \in [Tasks -> Work]
  BY <1>2 DEF Works, IInv, TypeOK
<1>4. task'[Reader] = w /\ \A u \in Tasks : u # Reader => task'[u] = task[u]
  BY <1>2, <1>3
<1>5. TypeOK'
  <2>1. dropped' \in 0..MaxRequests /\ closed' \in BOOLEAN
    BY <1>2 DEF Disconnected
  <2> QED BY <1>1, <1>2, <2>1, MovesAreTyped DEF IInv, TypeOK, requests, lists, elicited
<1>6. dropped' = 0 \/ (Owning(Reader) /\ v.at = "send" /\ dropped' = v.for)
  BY <1>2 DEF Owning
<1>7. TasksFit'
  BY <1>1, <1>4 DEF IInv, TasksFit
<1>8. OwnersOwn' /\ OwnersDiffer'
  <2>1. \A u \in Tasks : Owning(u)' => u # Reader /\ Owning(u)
    BY <1>1, <1>4 DEF Owning
  <2>2. \A u \in Tasks : Owning(u) /\ u # Reader => task[u].for # dropped'
    <3>1. \A u \in Tasks : Owning(u) => task[u].for \in Requests /\ task[u].for # 0
      <4>1. \A r \in Requests : r # 0
        BY DEF Requests
      <4> QED BY <4>1 DEF IInv, OwnersOwn
    <3>2. CASE dropped' = 0
      BY <3>1, <3>2
    <3>3. CASE Owning(Reader) /\ dropped' = v.for
      BY <1>2, <3>3 DEF IInv, OwnersDiffer
    <3> QED BY <1>6, <3>2, <3>3
  <2> QED BY <1>2, <1>4, <2>1, <2>2 DEF IInv, OwnersOwn, OwnersDiffer, requests
<1>9. RefusalsAreFresh' /\ NewcomersAreNew'
  BY <1>1, <1>2, <1>4 DEF IInv, RefusalsAreFresh, NewcomersAreNew, requests
<1>10. DroppedIsStuck'
  BY <1>2, <1>6 DEF IInv, OwnersOwn, DroppedIsStuck, requests
<1>11. StandsAsTold'
  BY <1>2 DEF IInv, StandsAsTold, requests
<1> QED BY <1>5, <1>7, <1>8, <1>9, <1>10, <1>11 DEF IInv

\* The transport's end, and a stutter, touch nothing the invariant speaks of.
LEMMA StoppingKeeps ==
  ASSUME IInv, StopsTaking \/ UNCHANGED vars
  PROVE  IInv'
<1>1. UNCHANGED <<requests, lists, elicited, task, dropped, cancels, closed>>
      /\ taking' \in BOOLEAN
  BY DEF StopsTaking, vars, ends, IInv, TypeOK
<1> QED BY <1>1 DEF IInv, TypeOK, TasksFit, Fits, OwnersOwn, OwnersDiffer, Owning, RefusalsAreFresh,
                   NewcomersAreNew, DroppedIsStuck, StandsAsTold, requests, lists, elicited

\* Every step of every task, whatever the order, keeps the invariant.
LEMMA NextKeeps == IInv /\ [Next]_vars => IInv'
<1> SUFFICES ASSUME IInv, [Next]_vars PROVE IInv'
  OBVIOUS
<1>1. CASE Arrives
  BY <1>1, ArrivingKeeps
<1>2. CASE TurnSettles \/ \E r \in Requests : Withdraws(r) \/ \E u \in Clickers : Clicks(u, r)
  BY <1>2, SettingOutKeeps
<1>3. CASE Disconnected
  BY <1>3, DisconnectingKeeps
<1>4. CASE ReaderGoesOn \/ \E url \in Urls : Complete({url})
  BY <1>4, CountingKeeps, AdmittingKeeps, ShowingKeeps DEF ReaderGoesOn
<1>5. CASE \E u \in Leavers, all \in BOOLEAN : AnswersCancelled(u, all)
  BY <1>5, SettingOutKeeps
<1>6. ASSUME NEW t \in Tasks, TaskGoesOn(t) \/ Send(t) PROVE IInv'
  <2>1. ASSUME NEW r \in Requests, Claim(t, r) \/ Abandon(t, r) PROVE IInv'
    BY <2>1, ClaimingKeeps, AbandoningKeeps
  <2>2. CASE Send(t) \/ SendFails(t)
    BY <2>2, SendingKeeps
  <2>3. CASE Settle(t) \/ Fail(t)
    BY <2>3, SettlingKeeps
  <2>4. CASE Take(t)
    BY <2>4, TakingKeeps
  <2> QED BY <1>6, <2>1, <2>2, <2>3, <2>4 DEF TaskGoesOn
<1>7. CASE StopsTaking \/ UNCHANGED vars
  BY <1>7, StoppingKeeps
<1> QED BY <1>1, <1>2, <1>3, <1>4, <1>5, <1>6, <1>7 DEF Next

THEOREM Inductive == Spec => []IInv
<1>1. Init => IInv
  BY InitIInv
<1>2. IInv /\ [Next]_vars => IInv'
  BY NextKeeps
<1> QED BY <1>1, <1>2, PTL DEF Spec

\* Whatever the users, the agent and the reader do, every variable keeps to its
\* type: a task never has a request, a purpose or a list that is none.
THEOREM TypeCorrect == Spec => []TypeOK
<1>1. IInv => TypeOK
  BY DEF IInv
<1> QED BY <1>1, Inductive, PTL

\* A user, a policy, a cancel, a withdrawal and the teardown may race for any
\* request: the agent is told once at most, and where the request stands is what
\* it was told (permission.rs:209).
THEOREM AnsweredOnce == Spec => []StandsAsTold
<1>1. IInv => StandsAsTold
  BY DEF IInv
<1> QED BY <1>1, Inductive, PTL

(***************************************************************************)
(* Blocking implements AnswerContract.                                     *)
(***************************************************************************)
LEMMA InitContracts == Init => Contract!AnswersInit
<1>1. Init => Made = {} /\ GivenUp = {}
  BY DEF Init, Made, GivenUp
<1> QED BY <1>1 DEF Init, Contract!AnswersInit

\* A step that makes, tells and gives up nothing is a stutter of the contract.
LEMMA QuietStutters ==
  ASSUME UNCHANGED <<arrived, told>>, GivenUp' = GivenUp
  PROVE  UNCHANGED Contract!answerVars
  BY DEF Made, Contract!answerVars

\* Where a request goes from where it stood, short of being given up on.
LEMMA NotGivenUp ==
  ASSUME IInv, NEW r \in Requests, NEW s \in Standings \ {"abandoned"},
         state' = [state EXCEPT ![r] = s], state[r] # "abandoned"
  PROVE  GivenUp' = GivenUp
  BY DEF IInv, TypeOK, GivenUp

LEMMA GivesUp ==
  ASSUME IInv, NEW r \in Requests, r \in Made, told[r] = <<>>,
         state' = [state EXCEPT ![r] = "abandoned"], UNCHANGED <<arrived, told>>
  PROVE  Contract!AnswersNext
<1>1. GivenUp' = GivenUp \cup {r} /\ Made' = Made
  BY DEF IInv, TypeOK, GivenUp, Made
<1> QED BY <1>1 DEF Contract!AnswersNext, Contract!Lapse

\* What has a standing was made.
LEMMA StandingIsMade ==
  ASSUME IInv, NEW r \in Requests, state[r] # "none"
  PROVE  r \in Made
  BY DEF IInv, TypeOK, NewcomersAreNew, Made, Requests

LEMMA StepContracts ==
  IInv /\ [Next]_vars => [Contract!AnswersNext]_(Contract!answerVars)
<1> SUFFICES ASSUME IInv, [Next]_vars
             PROVE  Contract!AnswersNext \/ UNCHANGED Contract!answerVars
  OBVIOUS
<1>1. CASE Arrives
  <2> DEFINE r == arrived + 1
  <2>1. r \in Requests /\ arrived \in Nat /\ arrived' = r /\ state[r] = "none" /\ told' = told
    BY <1>1 DEF Arrives, IInv, TypeOK, NewcomersAreNew, Requests
  <2>2. Made' = Made \cup {r}
    BY <2>1 DEF Made
  <2>3. GivenUp' = GivenUp
    BY <1>1, <2>1 DEF Arrives, IInv, TypeOK, GivenUp
  <2> QED BY <2>1, <2>2, <2>3 DEF Contract!AnswersNext, Contract!Ask
<1>2. CASE Admit
  <2> DEFINE r == task[Reader].for
  <2>1. r \in Requests /\ state[r] = "none"
    BY <1>2 DEF Admit, IInv, TypeOK, Tasks, NewcomersAreNew, Requests
  <2>2. UNCHANGED <<arrived, told>>
        /\ state' = [state EXCEPT ![r] = IF Saturated THEN "refused" ELSE "waiting"]
    BY <1>2 DEF Admit
  <2>3. (IF Saturated THEN "refused" ELSE "waiting") \in Standings \ {"abandoned"}
    BY DEF Standings
  <2> HIDE DEF r
  <2>4. GivenUp' = GivenUp
    BY <2>1, <2>2, <2>3, NotGivenUp
  <2> QED BY <2>2, <2>4, QuietStutters
<1>3. ASSUME NEW t \in Tasks, NEW r \in Requests, Claim(t, r)
      PROVE  UNCHANGED Contract!answerVars
  <2>1. UNCHANGED <<arrived, told>>
    BY <1>3 DEF Claim
  <2>2. GivenUp' = GivenUp
    BY <1>3 DEF Claim, Claims, Waiting, IInv, TypeOK, GivenUp
  <2> QED BY <2>1, <2>2, QuietStutters
<1>4. ASSUME NEW t \in Tasks, Send(t) PROVE Contract!AnswersNext
  <2> DEFINE r == task[t].for
             as == task[t].as
  <2>1. as \in Answers /\ r \in Requests /\ told[r] = <<>> /\ state[r] \in {"answering", "refused"}
    <3>1. task[t].at = "send" /\ as \in Answers
      BY <1>4 DEF Send, IInv, TasksFit, Fits
    <3>2. CASE as = "refused"
      BY <3>1, <3>2, RefusalHas
    <3>3. CASE as # "refused"
      BY <3>1, <3>3, OwnerHas DEF Owning
    <3> QED BY <3>1, <3>2, <3>3
  <2>2. told' = [told EXCEPT ![r] = <<as>>] /\ UNCHANGED <<arrived, state>>
    BY <1>4, <2>1 DEF Send
  <2>3. r \in Made \ GivenUp
    BY <2>1, StandingIsMade DEF GivenUp
  <2>4. Made' = Made /\ GivenUp' = GivenUp
    BY <2>2 DEF Made, GivenUp
  <2> QED BY <2>1, <2>2, <2>3, <2>4 DEF Contract!AnswersNext, Contract!Tell
<1>5. ASSUME NEW t \in Tasks, Settle(t) PROVE UNCHANGED Contract!answerVars
  <2> DEFINE r == task[t].for
  <2>1. r \in Requests /\ state[r] = "answering" /\ task[t].as \in Choices
    BY <1>5, OwnerHas DEF Settle, IInv, TasksFit, Fits, Choices, Owning
  <2>2. UNCHANGED <<arrived, told>> /\ state' = [state EXCEPT ![r] = Stands(task[t].as)]
    BY <1>5 DEF Settle
  <2>3. Stands(task[t].as) \in Standings \ {"abandoned"}
    BY <2>1 DEF Stands, Standings, Choices, Answers
  <2> HIDE DEF r
  <2>4. GivenUp' = GivenUp
    BY <2>1, <2>2, <2>3, NotGivenUp
  <2> QED BY <2>2, <2>4, QuietStutters
<1>6. ASSUME NEW t \in Tasks, Fail(t) PROVE Contract!AnswersNext
  <2> DEFINE r == task[t].for
  <2>1. r \in Requests /\ state[r] = "answering" /\ told[r] = <<>>
    BY <1>6, OwnerHas DEF Fail, IInv, TasksFit, Fits, Choices, Owning
  <2>2. UNCHANGED <<arrived, told>> /\ state' = [state EXCEPT ![r] = "abandoned"]
    BY <1>6 DEF Fail, Failed
  <2> HIDE DEF r
  <2> QED BY <2>1, <2>2, StandingIsMade, GivesUp
<1>7. ASSUME NEW t \in Tasks, NEW r \in Requests, Abandon(t, r)
      PROVE  Contract!AnswersNext \/ UNCHANGED Contract!answerVars
  <2>1. UNCHANGED <<arrived, told>>
    BY <1>7 DEF Abandon
  <2>2. CASE Lapses(r)
    <3>1. state[r] = "waiting" /\ told[r] = <<>>
      BY <2>2 DEF Lapses, Waiting, IInv, StandsAsTold
    <3> QED BY <1>7, <2>1, <2>2, <3>1, StandingIsMade, GivesUp DEF Abandon
  <2>3. CASE ~Lapses(r)
    <3>1. UNCHANGED state
      BY <1>7, <2>3 DEF Abandon
    <3> QED BY <2>1, <3>1, QuietStutters DEF GivenUp
  <2> QED BY <2>2, <2>3
<1>8. ASSUME UNCHANGED requests PROVE UNCHANGED Contract!answerVars
  BY <1>8, QuietStutters DEF requests, GivenUp
<1>9. ASSUME \/ TurnSettles \/ Disconnected \/ StopsTaking
             \/ Count \/ Register \/ List \/ Show \/ Credits \/ Uncredit \/ Clear
             \/ UNCHANGED vars
      PROVE  UNCHANGED requests
  BY <1>9 DEF TurnSettles, Disconnected, StopsTaking, Count, Register, List, Show, Credits, Uncredit,
              Clear, vars
<1>10. ASSUME \/ \E r \in Requests : Withdraws(r) \/ \E u \in Clickers : Clicks(u, r)
              \/ \E url \in Urls : Complete({url})
              \/ \E u \in Leavers, all \in BOOLEAN : AnswersCancelled(u, all)
              \/ \E t \in Tasks : SendFails(t) \/ Take(t)
       PROVE  UNCHANGED requests
  BY <1>10 DEF Withdraws, Clicks, Complete, AnswersCancelled, SendFails, Take
<1> QED BY <1>1, <1>2, <1>3, <1>4, <1>5, <1>6, <1>7, <1>8, <1>9, <1>10
        DEF Next, ReaderGoesOn, TaskGoesOn

\* Users, the policy, cancels, withdrawals and the teardown, interleaved in any
\* order, keep the contract of answers: no request is told twice, none given up
\* on is told anything later, and none told is given up on.
THEOREM ImplementsAnswers == Spec => KeepsAnswers
<1>1. Init => Contract!AnswersInit
  BY InitContracts
<1>2. IInv /\ [Next]_vars => [Contract!AnswersNext]_(Contract!answerVars)
  BY StepContracts
<1> QED BY <1>1, <1>2, Inductive, PTL DEF Spec, KeepsAnswers, Contract!AnswersSpec

(***************************************************************************)
(* The lists: who is credited, how many wait in them, which elicitations   *)
(* are outstanding, and what a turn may end.                               *)
(***************************************************************************)
(***************************************************************************)
(* The invariant.                                                          *)
(***************************************************************************)
\* Only the reader gives up on requests: on all of them where the connection is
\* let go, and never on one scoped to a call where a turn ends.
GivesUpRightly(t) ==
  /\ t = Reader
  /\ task[t].all => closed
  /\ ~task[t].all => \A r \in task[t].taken : asked[r].scope # "call"

Right(t) ==
  /\ task[t].as = "abandoned" => GivesUpRightly(t)
  /\ task[t].at = "fail" => ~taking
  /\ task[t].at = "idle" => task[t].as = "none" /\ task[t].taken = {}

AbandonersAreRight == \A t \in Tasks : Right(t)

\* A reader let go only gives up, clears and is gone.
Leaving ==
  \/ task[Reader].as = "abandoned" /\ task[Reader].all /\ task[Reader].at \in {"take", "abandon", "clear"}
  \/ task[Reader].at = "gone"
ClosedIsLeaving == /\ closed => Leaving
                   /\ task[Reader].at \in {"clear", "gone"} \/ dropped # 0 => closed

\* The policy answers one request at a time, which is credited until the answer
\* is given up on, and told nothing of the policy's before it is sent.
Picking ==
  LET w == task[Reader] IN
  /\ w.left = <<>>
  /\ w.at \in {"credit", "claim"} => w.for = 0 /\ \E r \in Requests : w.taken = {r}
  /\ w.at \in {"send", "settle", "fail", "uncredit"} => w.taken = {} /\ w.for \in Requests
  /\ w.at \in {"credit", "claim", "send", "settle", "fail", "uncredit"}
  /\ w.at = "claim" => w.taken \subseteq credited
  /\ w.at \in {"send", "settle", "fail"} => w.for \in credited
  /\ w.at \in {"credit", "claim"} => \A r \in w.taken : told[r] # <<"picked">>
  /\ w.at = "uncredit" => told[w.for] # <<"picked">>

PickersArePicking ==
  \A t \in Tasks : /\ task[t].as = "picked" => t = Reader /\ Picking
                   /\ task[t].at \in {"credit", "uncredit"} => task[t].as = "picked"

ToldIsCredited == \A r \in Requests : told[r] = <<"picked">> => r \in credited

CreditedIsTold ==
  \A r \in credited :
    \/ told[r] = <<"picked">> \/ r = dropped
    \/ task[Reader].as = "picked" /\ r \in {task[Reader].for} \cup task[Reader].taken

\* A request on its way to the lists.
Admitting == task[Reader].at \in {"count", "register", "list", "show"}

NewIsUntold == Admitting => told[task[Reader].for] # <<"picked">>

\* What is outstanding or finished was asked; what is not yet registered is neither.
ElicitedIsAsked ==
  /\ urls \cup completed \subseteq 1..arrived
  /\ urls \cap completed = {}
  /\ task[Reader].at \in {"count", "register"} => task[Reader].for \notin urls \cup completed

\* A URL elicitation that may go on stays outstanding from its registration to
\* its completion.
MayGoOn(r) == state[r] \in {"waiting", "answering", "accepted"}
Registering(r) == task[Reader].at = "register" /\ task[Reader].for = r

GoingOnIsOutstanding ==
  ~closed => \A r \in Requests :
    asked[r].url # {} /\ MayGoOn(r) /\ r \notin completed /\ ~Registering(r) => r \in urls

\* What was counted still waits, or there are fewer that do.
WaitingOnes(kinds) == {r \in listed : Waiting(r) /\ asked[r].kind \in kinds}
Suffixes == {Kinds, <<"elicitation", "service">>, <<"service">>, <<>>}
Counted(left) ==
  CASE left = Kinds -> {}
    [] left = <<"elicitation", "service">> -> {"permission"}
    [] left = <<"service">> -> {"permission", "elicitation"}
    [] left = <<>> -> KindNames

CountIsRight ==
  /\ listed \subseteq 1..arrived
  /\ task[Reader].at \in {"count", "register", "list"} => task[Reader].for \notin listed
  /\ task[Reader].at = "count" =>
       /\ task[Reader].left \in Suffixes
       /\ Cardinality(WaitingOnes(Counted(task[Reader].left))) <= task[Reader].count
  /\ task[Reader].at \in {"register", "list"} => Cardinality(WaitingOnes(KindNames)) < Capacity
  /\ Cardinality(WaitingOnes(KindNames)) <= Capacity

\* Until it is listed or shown a request is nobody's but the reader's: what
\* waits to be registered waits.
FreshIsNobodys ==
  /\ shown \subseteq 1..arrived
  /\ \A t \in Tasks : task[t].taken \subseteq 1..arrived
  /\ task[Reader].at \in {"count", "register"} =>
       /\ task[Reader].for \notin shown
       /\ \A t \in Tasks : task[Reader].for \notin task[t].taken
  /\ task[Reader].at = "register" => state[task[Reader].for] = "waiting"

EndsAreRight == AbandonersAreRight /\ ClosedIsLeaving /\ CallsOutliveTurns
CreditIsRight == PickersArePicking /\ ToldIsCredited /\ CreditedIsTold /\ NewIsUntold
UrlsAreRight == ElicitedIsAsked /\ GoingOnIsOutstanding

LInv == EndsAreRight /\ CreditIsRight /\ UrlsAreRight /\ CountIsRight /\ FreshIsNobodys

-----------------------------------------------------------------------------
\* Where a task goes next, field by field.
Follows(w, v) ==
  /\ w.for = 0
  /\ \/ /\ w.at = "idle" /\ w.as = "none" /\ w.left = <<>> /\ w.taken = {} /\ w.all = FALSE
        /\ v.taken = {} /\ v.left = <<>> /\ ~(v.as = "abandoned" /\ v.all)
     \/ /\ w.at \in {"claim", "abandon", "take", "clear"}
        /\ w.as = v.as /\ w.all = v.all /\ w.taken = v.taken /\ w.left = v.left
        /\ w.at = "claim" => v.as # "abandoned" /\ v.taken # {}
        /\ w.at = "abandon" => v.as = "abandoned"
        /\ w.at = "take" => v.left # <<>>
        /\ w.at = "clear" => v.as = "abandoned" /\ v.all

LEMMA OnwardFollows ==
  ASSUME NEW w \in Work
  PROVE  Follows(Onward(w), w)
<1> DEFINE done == [w EXCEPT !.for = 0]
           at(place) == [done EXCEPT !.at = place]
<1>1. /\ done \in Work /\ done.as = w.as /\ done.for = 0 /\ done.all = w.all
      /\ done.taken = w.taken /\ done.left = w.left
  BY DEF Work
<1> HIDE DEF done
<1>2. ASSUME NEW place \in Places
      PROVE  /\ at(place).at = place /\ at(place).as = w.as /\ at(place).for = 0
             /\ at(place).all = w.all /\ at(place).taken = w.taken /\ at(place).left = w.left
  BY <1>1 DEF Work
<1> HIDE DEF at
<1>3. CASE w.taken # {}
  <2>1. Onward(w) = at(IF w.as = "abandoned" THEN "abandon" ELSE "claim")
    BY <1>3 DEF Onward, at, done
  <2>2. CASE w.as = "abandoned"
    BY <1>2, <1>3, <2>1, <2>2 DEF Follows, Places
  <2>3. CASE w.as # "abandoned"
    BY <1>2, <1>3, <2>1, <2>3 DEF Follows, Places
  <2> QED BY <2>2, <2>3
<1>4. CASE w.taken = {} /\ w.left # <<>>
  <2>1. Onward(w) = at("take")
    BY <1>4 DEF Onward, at, done
  <2> QED BY <1>2, <1>4, <2>1 DEF Follows, Places
<1>5. CASE w.taken = {} /\ w.left = <<>> /\ w.as = "abandoned" /\ w.all
  <2>1. Onward(w) = at("clear")
    BY <1>5 DEF Onward, at, done
  <2> QED BY <1>2, <1>5, <2>1, ZenonT(30) DEF Follows, Places
<1>6. CASE w.taken = {} /\ w.left = <<>> /\ ~(w.as = "abandoned" /\ w.all)
  <2>1. Onward(w) = Idle
    BY <1>6 DEF Onward
  <2> QED BY <1>6, <2>1 DEF Follows, Idle, Begin
<1> QED BY <1>3, <1>4, <1>5, <1>6

\* One of what it took: nothing else of the task changes.
LEMMA PicksParts ==
  ASSUME NEW w \in Work, NEW r \in Requests
  PROVE  LET p == Picks(w, r) IN
         /\ p \in Work /\ p.for = r /\ p.taken = w.taken \ {r}
         /\ p.at = w.at /\ p.as = w.as /\ p.left = w.left /\ p.all = w.all
<1> DEFINE b == [w EXCEPT !.for = r]
<1>1. b \in Work /\ b.for = r /\ b.taken = w.taken /\ b.at = w.at /\ b.as = w.as
      /\ b.left = w.left /\ b.all = w.all
  BY DEF Work, Requests
<1> HIDE DEF b
<1>2. Picks(w, r) = [b EXCEPT !.taken = @ \ {r}]
  BY DEF Picks, b
<1> QED BY <1>1, <1>2, SMTT(30) DEF Work

(***************************************************************************)
(* What each step makes of the one task it moves.                          *)
(***************************************************************************)
Only(t) == \A u \in Tasks \ {t} : task'[u] = task[u]

LEMMA Moved ==
  ASSUME IInv, NEW t \in Tasks, NEW w, Works(t, w)
  PROVE  Only(t) /\ task'[t] = w
  BY DEF IInv, TypeOK, Works, Only

\* Only the place changes.
SameBut(w, v) ==
  w.for = v.for /\ w.as = v.as /\ w.left = v.left /\ w.taken = v.taken /\ w.all = v.all

LEMMA GoesParts ==
  ASSUME IInv, NEW t \in Tasks, NEW at \in Places, Goes(t, at)
  PROVE  Only(t) /\ task'[t].at = at /\ SameBut(task'[t], task[t])
<1> DEFINE w == [task[t] EXCEPT !.at = at]
<1>1. Only(t) /\ task'[t] = w
  BY Moved DEF Goes
<1>2. w.at = at /\ SameBut(w, task[t])
  BY DEF IInv, TypeOK, Work, SameBut
<1> QED BY <1>1, <1>2

\* What a task that sets out is, for a request or for none yet.
Set(at, as, left, taken, all, r) == [Begin(at, as, left, taken, all) EXCEPT !.for = r]

LEMMA BegunParts ==
  ASSUME IInv, NEW t \in Tasks, NEW at, NEW as, NEW left, NEW taken, NEW all,
         Works(t, Begin(at, as, left, taken, all))
  PROVE  LET w == task'[t] IN
         /\ Only(t) /\ w.for = 0 /\ w.at = at /\ w.as = as /\ w.left = left
         /\ w.taken = taken /\ w.all = all
<1>1. Only(t) /\ task'[t] = Begin(at, as, left, taken, all)
  BY Moved
<1> QED BY <1>1 DEF Begin

LEMMA RestedParts ==
  ASSUME IInv, NEW t \in Tasks, Works(t, Idle)
  PROVE  LET w == task'[t] IN
         /\ Only(t) /\ w.for = 0 /\ w.at = "idle" /\ w.as = "none" /\ w.left = <<>>
         /\ w.taken = {} /\ w.all = FALSE
<1>1. Works(t, Begin("idle", "none", <<>>, {}, FALSE))
  BY DEF Idle
<1> QED BY <1>1, BegunParts

LEMMA ArrivesParts ==
  ASSUME IInv, Arrives
  PROVE  LET w == task'[Reader]
             r == arrived + 1
         IN  /\ Only(Reader) /\ r \in Requests /\ arrived' = r /\ task[Reader].at = "idle"
             /\ w.for = r /\ w.as = "none" /\ w.taken = {} /\ w.all = FALSE /\ w.count = 0
             /\ \/ w.at = "count" /\ w.left = Kinds /\ state' = state
                \/ /\ w.at = "show" /\ w.left = <<>> /\ asked[r].kind = "service"
                   /\ state' = [state EXCEPT ![r] = "waiting"]
<1>r. PICK r : r = arrived + 1
  OBVIOUS
<1>0. Reader \in Tasks
  BY DEF Tasks
<1>1. /\ r \in Requests /\ arrived' = r /\ task[Reader].at = "idle"
      /\ state' = IF asked[r].picked /\ asked[r].kind = "service"
                  THEN [state EXCEPT ![r] = "waiting"] ELSE state
  BY <1>r DEF IInv, TypeOK, Arrives, Requests
<1>2. CASE asked[r].picked /\ asked[r].kind = "service"
  <2>1. Works(Reader, Set("show", "none", <<>>, {}, FALSE, r))
    BY <1>r, <1>2 DEF Arrives, Set
  <2>2. Only(Reader) /\ task'[Reader] = Set("show", "none", <<>>, {}, FALSE, r)
    BY <1>0, <2>1, Moved
  <2> QED BY <1>r, <1>1, <1>2, <2>2 DEF Set, Begin
<1>3. CASE ~(asked[r].picked /\ asked[r].kind = "service")
  <2>1. Works(Reader, Set("count", "none", Kinds, {}, FALSE, r))
    BY <1>r, <1>3 DEF Arrives, Set
  <2>2. Only(Reader) /\ task'[Reader] = Set("count", "none", Kinds, {}, FALSE, r)
    BY <1>0, <2>1, Moved
  <2> QED BY <1>r, <1>1, <1>3, <2>2 DEF Set, Begin
<1> QED BY <1>2, <1>3

LEMMA CountParts ==
  ASSUME IInv, Count
  PROVE  LET w == task'[Reader]
             v == task[Reader]
             n == Cardinality(Pruned(Head(v.left)) \cap Of(Head(v.left)))
         IN  /\ Only(Reader) /\ v.at = "count" /\ w.at = "count" /\ v.left # <<>>
             /\ w.for = v.for /\ w.as = v.as /\ w.taken = v.taken /\ w.all = v.all
             /\ w.left = Tail(v.left) /\ w.count = v.count + n
<1> DEFINE v == task[Reader]
           n == Cardinality(Pruned(Head(v.left)) \cap Of(Head(v.left)))
           c == [v EXCEPT !.count = @ + n]
           w == [c EXCEPT !.left = Tail(@)]
<1>1. Reader \in Tasks /\ v \in Work /\ v.at = "count" /\ v.left # <<>>
  BY DEF Tasks, IInv, TypeOK, Count
<1>2. Only(Reader) /\ task'[Reader] = w
  BY <1>1, Moved DEF Count
<1> HIDE DEF n
<1>3. /\ w.at = v.at /\ w.for = v.for /\ w.as = v.as /\ w.taken = v.taken /\ w.all = v.all
      /\ w.left = Tail(v.left) /\ w.count = v.count + n
  BY <1>1 DEF Work
<1> QED BY <1>1, <1>2, <1>3 DEF n

LEMMA AdmitParts ==
  ASSUME IInv, Admit
  PROVE  LET w == task'[Reader]
             v == task[Reader]
         IN  /\ Only(Reader) /\ v.at = "count" /\ v.left = <<>>
             /\ w.for = v.for /\ w.taken = {} /\ w.all = FALSE /\ w.left = <<>>
             /\ \/ w.at = "send" /\ w.as = "refused" /\ Saturated
                \/ w.at = "show" /\ w.as = "none" /\ ~Saturated /\ asked[v.for].picked
                \/ w.at = "register" /\ w.as = "none" /\ ~Saturated
                \/ w.at = "list" /\ w.as = "none" /\ ~Saturated /\ asked[v.for].url = {}
<1>r. PICK r : r = task[Reader].for
  OBVIOUS
<1>0. Reader \in Tasks /\ task[Reader].at = "count" /\ task[Reader].left = <<>>
  BY DEF Tasks, Admit
<1>1. CASE Saturated
  <2>1. Works(Reader, Set("send", "refused", <<>>, {}, FALSE, r))
    BY <1>r, <1>1 DEF Admit, Set
  <2>2. Only(Reader) /\ task'[Reader] = Set("send", "refused", <<>>, {}, FALSE, r)
    BY <1>0, <2>1, Moved
  <2> QED BY <1>r, <1>0, <1>1, <2>2 DEF Set, Begin
<1>2. CASE ~Saturated /\ asked[r].picked
  <2>1. Works(Reader, Set("show", "none", <<>>, {}, FALSE, r))
    BY <1>r, <1>2 DEF Admit, Set
  <2>2. Only(Reader) /\ task'[Reader] = Set("show", "none", <<>>, {}, FALSE, r)
    BY <1>0, <2>1, Moved
  <2> QED BY <1>r, <1>0, <1>2, <2>2 DEF Set, Begin
<1>3. CASE ~Saturated /\ ~asked[r].picked /\ asked[r].url # {}
  <2>1. Works(Reader, Set("register", "none", <<>>, {}, FALSE, r))
    BY <1>r, <1>3 DEF Admit, Set
  <2>2. Only(Reader) /\ task'[Reader] = Set("register", "none", <<>>, {}, FALSE, r)
    BY <1>0, <2>1, Moved
  <2> QED BY <1>r, <1>0, <1>3, <2>2 DEF Set, Begin
<1>4. CASE ~Saturated /\ ~asked[r].picked /\ asked[r].url = {}
  <2>1. Works(Reader, Set("list", "none", <<>>, {}, FALSE, r))
    BY <1>r, <1>4 DEF Admit, Set
  <2>2. Only(Reader) /\ task'[Reader] = Set("list", "none", <<>>, {}, FALSE, r)
    BY <1>0, <2>1, Moved
  <2> QED BY <1>r, <1>0, <1>4, <2>2 DEF Set, Begin
<1> QED BY <1>1, <1>2, <1>3, <1>4

LEMMA ShowParts ==
  ASSUME IInv, Show
  PROVE  LET w == task'[Reader]
             r == task[Reader].for
         IN  /\ Only(Reader) /\ task[Reader].at = "show" /\ w.for = 0 /\ w.left = <<>>
             /\ w.all = FALSE
             /\ \/ w.at = "idle" /\ w.as = "none" /\ w.taken = {}
                \/ /\ w.at = "credit" /\ w.as = "picked" /\ w.taken = {r}
                   /\ asked[r].kind = "permission"
                \/ w.at = "claim" /\ w.as = "scripted" /\ w.taken = {r}
<1> DEFINE r == task[Reader].for
<1>0. Reader \in Tasks /\ task[Reader].at = "show"
  BY DEF Tasks, Show
<1>1. CASE ~asked[r].picked
  <2>1. Works(Reader, Idle)
    BY <1>1 DEF Show
  <2> QED BY <1>0, <2>1, RestedParts
<1>2. CASE asked[r].picked /\ asked[r].kind = "permission"
  <2>1. Works(Reader, Begin("credit", "picked", <<>>, {r}, FALSE))
    BY <1>2 DEF Show
  <2> HIDE DEF r
  <2>2. LET w == task'[Reader] IN
         /\ Only(Reader) /\ w.for = 0 /\ w.at = "credit" /\ w.as = "picked" /\ w.left = <<>>
         /\ w.taken = {r} /\ w.all = FALSE
    BY <1>0, <2>1, BegunParts
  <2> QED BY <1>0, <1>2, <2>2 DEF r
<1>3. CASE asked[r].picked /\ asked[r].kind # "permission"
  <2>1. Works(Reader, Begin("claim", "scripted", <<>>, {r}, FALSE))
    BY <1>3 DEF Show
  <2> HIDE DEF r
  <2>2. LET w == task'[Reader] IN
         /\ Only(Reader) /\ w.for = 0 /\ w.at = "claim" /\ w.as = "scripted" /\ w.left = <<>>
         /\ w.taken = {r} /\ w.all = FALSE
    BY <1>0, <2>1, BegunParts
  <2> QED BY <1>0, <1>3, <2>2 DEF r
<1> QED BY <1>1, <1>2, <1>3

LEMMA StepsParts ==
  ASSUME IInv
  PROVE  LET v == task[Reader]
             w == task'[Reader]
         IN /\ Register => Only(Reader) /\ v.at = "register" /\ w.at = "list" /\ SameBut(w, v)
            /\ List => Only(Reader) /\ v.at = "list" /\ w.at = "show" /\ SameBut(w, v)
            /\ Credits => Only(Reader) /\ v.at = "credit" /\ w.at = "claim" /\ SameBut(w, v)
            /\ Clear => Only(Reader) /\ v.at = "clear" /\ w.at = "gone" /\ SameBut(w, v)
<1>1. Reader \in Tasks /\ {"list", "show", "claim", "gone"} \subseteq Places
  BY DEF Tasks, Places
<1>2. ASSUME Register PROVE Goes(Reader, "list") /\ task[Reader].at = "register"
  BY <1>2 DEF Register
<1>3. ASSUME List PROVE Goes(Reader, "show") /\ task[Reader].at = "list"
  BY <1>3 DEF List
<1>4. ASSUME Credits PROVE Goes(Reader, "claim") /\ task[Reader].at = "credit"
  BY <1>4 DEF Credits
<1>5. ASSUME Clear PROVE Goes(Reader, "gone") /\ task[Reader].at = "clear"
  BY <1>5 DEF Clear
<1> QED BY <1>1, <1>2, <1>3, <1>4, <1>5, GoesParts

\* A task that claims sends what it claimed, or goes on without.
LEMMA ClaimParts ==
  ASSUME IInv, NEW t \in Tasks, NEW r \in Requests, Claim(t, r)
  PROVE  LET v == task[t]
             w == task'[t]
         IN  /\ Only(t) /\ v.at = "claim" /\ r \in v.taken /\ v.as \in Choices
             /\ \/ /\ w.at = "send" /\ w.for = r /\ w.taken = v.taken \ {r}
                   /\ w.as = v.as /\ w.left = v.left /\ w.all = v.all
                   /\ state[r] = "waiting" /\ state' = [state EXCEPT ![r] = "answering"]
                \/ /\ w.at = "uncredit" /\ w.for = r /\ w.taken = v.taken \ {r}
                   /\ w.as = v.as /\ w.left = v.left /\ w.all = v.all
                   /\ v.as = "picked" /\ state' = state
                \/ /\ Follows(w, Picks(v, r)) /\ v.as # "picked" /\ state' = state
<1> DEFINE v == task[t]
<1>p. PICK p : p = Picks(v, r)
  OBVIOUS
<1>1. v \in Work /\ v.at = "claim" /\ r \in v.taken /\ v.as \in Choices
  BY DEF Claim, Earliest, IInv, TypeOK, TasksFit, Fits
<1>2. /\ p \in Work /\ p.for = r /\ p.taken = v.taken \ {r}
      /\ p.at = v.at /\ p.as = v.as /\ p.left = v.left /\ p.all = v.all
  BY <1>1, <1>p, PicksParts
<1>3. CASE Waiting(r)
  <2>1. Works(t, [p EXCEPT !.at = "send"]) /\ state' = [state EXCEPT ![r] = "answering"]
    BY <1>p, <1>3 DEF Claim, Claims
  <2>2. Only(t) /\ task'[t] = [p EXCEPT !.at = "send"]
    BY <2>1, Moved
  <2>3. LET w == [p EXCEPT !.at = "send"] IN w.at = "send" /\ SameBut(w, p)
    BY <1>2 DEF Work, SameBut
  <2> QED BY <1>1, <1>2, <1>3, <2>1, <2>2, <2>3 DEF SameBut, Waiting
<1>4. CASE ~Waiting(r) /\ v.as = "picked"
  <2>1. Works(t, [p EXCEPT !.at = "uncredit"]) /\ state' = state
    BY <1>p, <1>2, <1>4 DEF Claim, Claims
  <2>2. Only(t) /\ task'[t] = [p EXCEPT !.at = "uncredit"]
    BY <2>1, Moved
  <2>3. LET w == [p EXCEPT !.at = "uncredit"] IN w.at = "uncredit" /\ SameBut(w, p)
    BY <1>2 DEF Work, SameBut
  <2> QED BY <1>1, <1>2, <1>4, <2>1, <2>2, <2>3 DEF SameBut
<1>5. CASE ~Waiting(r) /\ v.as # "picked"
  <2>1. Works(t, Onward(p)) /\ state' = state
    BY <1>p, <1>2, <1>5 DEF Claim, Claims
  <2>2. Only(t) /\ task'[t] = Onward(p)
    BY <2>1, Moved
  <2> QED BY <1>p, <1>1, <1>2, <1>5, <2>1, <2>2, OnwardFollows
<1> QED BY <1>3, <1>4, <1>5

LEMMA SendParts ==
  ASSUME IInv, NEW t \in Tasks, Send(t) \/ SendFails(t)
  PROVE  LET v == task[t]
             w == task'[t]
         IN  /\ Only(t) /\ v.at = "send" /\ v.as \in Answers
             /\ \/ /\ w.at = IF Send(t) THEN "settle" ELSE "fail"
                   /\ SameBut(w, v) /\ v.as # "refused"
                \/ /\ w.at = "idle" /\ w.as = "none" /\ w.for = 0 /\ w.left = <<>>
                   /\ w.taken = {} /\ w.all = FALSE /\ v.as = "refused"
             /\ Send(t) => taking
             /\ ~Send(t) => ~taking
<1>1. task[t] \in Work /\ task[t].at = "send" /\ task[t].as \in Answers
  BY DEF Send, SendFails, IInv, TypeOK, TasksFit, Fits
<1>2. (Send(t) => taking) /\ (~Send(t) => ~taking)
  BY DEF Send, SendFails
<1>3. CASE task[t].as = "refused"
  <2>1. Works(t, Idle)
    BY <1>3 DEF Send, SendFails
  <2> QED BY <1>1, <1>2, <1>3, <2>1, RestedParts
<1>4. CASE task[t].as # "refused"
  <2>1. Goes(t, IF Send(t) THEN "settle" ELSE "fail")
    BY <1>4 DEF Send, SendFails, Goes
  <2>2. (IF Send(t) THEN "settle" ELSE "fail") \in Places
    BY DEF Places
  <2> QED BY <1>1, <1>2, <1>4, <2>1, <2>2, GoesParts
<1> QED BY <1>3, <1>4

\* What is sent is the one thing the agent is told.
LEMMA SendTells ==
  ASSUME IInv, NEW t \in Tasks, Send(t)
  PROVE  LET r == task[t].for IN
         r \in Requests /\ told[r] = <<>> /\ told' = [told EXCEPT ![r] = <<task[t].as>>]
<1>1. task[t].at = "send" /\ task[t].as \in Answers
  BY DEF Send, IInv, TasksFit, Fits
<1>2. task[t].for \in Requests /\ told[task[t].for] = <<>>
  <2>1. CASE task[t].as = "refused"
    BY <1>1, <2>1, RefusalHas
  <2>2. CASE task[t].as # "refused"
    BY <1>1, <2>2, OwnerHas DEF Owning
  <2> QED BY <2>1, <2>2
<1>3. told' = [told EXCEPT ![task[t].for] = Append(told[task[t].for], task[t].as)]
  BY DEF Send
<1>4. Append(<<>>, task[t].as) = <<task[t].as>>
  OBVIOUS
<1> QED BY <1>2, <1>3, <1>4

LEMMA SettleParts ==
  ASSUME IInv, NEW t \in Tasks, Settle(t)
  PROVE  LET v == task[t] IN
         /\ Only(t) /\ v.at = "settle" /\ Follows(task'[t], v) /\ v.as \in Choices
         /\ v.for \in Requests /\ told[v.for] = <<v.as>> /\ state[v.for] = "answering"
         /\ state' = [state EXCEPT ![v.for] = Stands(v.as)]
<1> DEFINE v == task[t]
<1>1. v \in Work /\ v.at = "settle" /\ v.as \in Choices /\ Owning(t)
  BY DEF Settle, IInv, TypeOK, TasksFit, Fits, Owning, Choices
<1>2. v.for \in Requests /\ told[v.for] = <<v.as>> /\ state[v.for] = "answering"
  BY <1>1, OwnerHas
<1>3. Works(t, Onward(v)) /\ state' = [state EXCEPT ![v.for] = Stands(v.as)]
  BY DEF Settle
<1>4. Only(t) /\ task'[t] = Onward(v)
  BY <1>3, Moved
<1> QED BY <1>1, <1>2, <1>3, <1>4, OnwardFollows

LEMMA FailParts ==
  ASSUME IInv, NEW t \in Tasks, Fail(t)
  PROVE  LET v == task[t]
             w == task'[t]
         IN  /\ Only(t) /\ v.at = "fail" /\ v.as \in Choices
             /\ \/ w.at = "uncredit" /\ SameBut(w, v) /\ v.as = "picked"
                \/ Follows(w, v) /\ v.as # "picked"
             /\ v.for \in Requests /\ told[v.for] = <<>>
             /\ state' = [state EXCEPT ![v.for] = "abandoned"]
<1> DEFINE v == task[t]
<1>1. v \in Work /\ v.at = "fail" /\ v.as \in Choices /\ Owning(t)
  BY DEF Fail, IInv, TypeOK, TasksFit, Fits, Owning, Choices
<1>2. v.for \in Requests /\ told[v.for] = <<>>
  BY <1>1, OwnerHas
<1>3. state' = [state EXCEPT ![v.for] = "abandoned"]
  BY DEF Fail, Failed
<1>4. CASE v.as = "picked"
  <2>1. Goes(t, "uncredit") /\ "uncredit" \in Places
    BY <1>4 DEF Fail, Goes, Places
  <2> QED BY <1>1, <1>2, <1>3, <1>4, <2>1, GoesParts
<1>5. CASE v.as # "picked"
  <2>1. Works(t, Onward(v))
    BY <1>5 DEF Fail
  <2>2. Only(t) /\ task'[t] = Onward(v)
    BY <2>1, Moved
  <2> QED BY <1>1, <1>2, <1>3, <1>5, <2>2, OnwardFollows
<1> QED BY <1>4, <1>5

\* What a task takes off a list: everything, or what does not outlive a turn.
LEMMA TakeParts ==
  ASSUME IInv, NEW t \in Tasks, Take(t)
  PROVE  LET v == task[t] IN
         /\ Only(t) /\ v.at = "take" /\ v.as \in Choices \cup {"abandoned"}
         /\ listed' \subseteq listed
         /\ \E p \in Work :
              /\ Follows(task'[t], p) /\ p.as = v.as /\ p.all = v.all
              /\ p.taken \subseteq listed
              /\ ~v.all => \A r \in p.taken : asked[r].scope # "call"
<1> DEFINE v == task[t]
           S == {r \in listed \cap Of(Head(v.left)) : v.all \/ ~Outlives(r)}
           b == [v EXCEPT !.left = Tail(@)]
<1>1. /\ v \in Work /\ v.at = "take" /\ v.as \in Choices \cup {"abandoned"} /\ v.left # <<>>
      /\ v.left \in Seq(KindNames) /\ listed' = listed \ S /\ S \subseteq listed
      /\ S \subseteq Requests
      /\ ~v.all => \A r \in S : asked[r].scope # "call"
  BY DEF Take, IInv, TypeOK, TasksFit, Fits, Work, Outlives
<1>2. b \in Work /\ b.as = v.as /\ b.all = v.all
  <2>1. Tail(v.left) \in Seq(KindNames)
    BY <1>1
  <2> QED BY <1>1, <2>1 DEF Work
<1>3. PICK p : p = [b EXCEPT !.taken = S]
  OBVIOUS
<1>4. Works(t, Onward(p))
  BY <1>3 DEF Take
<1> HIDE DEF b, S
<1>5. p \in Work /\ p.as = v.as /\ p.all = v.all /\ p.taken = S
  BY <1>1, <1>2, <1>3 DEF Work
<1>6. Only(t) /\ task'[t] = Onward(p)
  BY <1>4, Moved
<1>7. Follows(task'[t], p)
  BY <1>5, <1>6, OnwardFollows
<1>8. listed' \subseteq listed
  BY <1>1
<1> QED BY <1>1, <1>5, <1>6, <1>7, <1>8

LEMMA AbandonParts ==
  ASSUME IInv, NEW t \in Tasks, NEW r \in Requests, Abandon(t, r)
  PROVE  LET v == task[t] IN
         /\ Only(t) /\ v.at = "abandon" /\ v.as = "abandoned" /\ r \in v.taken
         /\ \E p \in Work : /\ Follows(task'[t], p) /\ p.as = v.as /\ p.all = v.all
                            /\ p.taken = v.taken \ {r}
         /\ state' = IF Waiting(r) THEN [state EXCEPT ![r] = "abandoned"] ELSE state
<1> DEFINE v == task[t]
<1>1. PICK p : p = Picks(v, r)
  OBVIOUS
<1>2. v \in Work /\ v.at = "abandon" /\ v.as = "abandoned" /\ r \in v.taken
  BY DEF Abandon, Earliest, IInv, TypeOK, TasksFit, Fits
<1>3. p \in Work /\ p.as = v.as /\ p.all = v.all /\ p.taken = v.taken \ {r}
  BY <1>1, <1>2, PicksParts
<1>4. /\ Works(t, Onward(p))
      /\ state' = IF Waiting(r) THEN [state EXCEPT ![r] = "abandoned"] ELSE state
  BY <1>1 DEF Abandon, Lapses
<1>5. Only(t) /\ task'[t] = Onward(p)
  BY <1>4, Moved
<1> QED BY <1>2, <1>3, <1>4, <1>5, OnwardFollows

\* Who sets out, and to what purpose.
LEMMA GivingUpParts ==
  ASSUME IInv, TurnSettles \/ Disconnected
  PROVE  LET v == task[Reader]
             w == task'[Reader]
         IN  /\ Only(Reader) /\ v.at \in {"idle", "send"} /\ (TurnSettles => v.at = "idle")
             /\ w.at = "take" /\ w.as = "abandoned" /\ w.for = 0 /\ w.taken = {}
             /\ TurnSettles => ~w.all
             /\ Disconnected => w.all \/ TurnSettles
<1>1. Reader \in Tasks
  BY DEF Tasks
<1>2. ASSUME TurnSettles
      PROVE  task[Reader].at = "idle" /\ Works(Reader, Begin("take", "abandoned", Kinds, {}, FALSE))
  BY <1>2 DEF TurnSettles, GivingUp
<1>3. ASSUME Disconnected
      PROVE  /\ task[Reader].at \in {"idle", "send"}
             /\ Works(Reader, Begin("take", "abandoned", Kinds, {}, TRUE))
  BY <1>3 DEF Disconnected, GivingUp
<1>4. CASE TurnSettles
  BY <1>1, <1>2, <1>4, BegunParts
<1>5. CASE Disconnected /\ ~TurnSettles
  BY <1>1, <1>3, <1>5, BegunParts
<1> QED BY <1>4, <1>5

LEMMA SetsOutParts ==
  ASSUME IInv, NEW t \in Tasks,
         \/ t = Reader /\ (Uncredit \/ \E r \in Requests : Withdraws(r))
         \/ \E r \in Requests : t \in Clickers /\ Clicks(t, r)
         \/ \E all \in BOOLEAN : t \in Leavers /\ AnswersCancelled(t, all)
  PROVE  LET v == task[t]
             w == task'[t]
         IN  /\ Only(t) /\ v.at \in {"idle", "uncredit"} /\ (v.at = "uncredit" => Uncredit)
             /\ w.for = 0
             /\ \/ t = Reader /\ w.at = "idle" /\ w.as = "none" /\ w.taken = {}
                \/ w.at \in {"claim", "take"} /\ w.as \in {"accepted", "declined", "cancelled", "withdrawn"}
<1>1. CASE t = Reader /\ Uncredit
  <2>1. Works(t, Idle) /\ task[t].at = "uncredit"
    BY <1>1 DEF Uncredit
  <2> QED BY <1>1, <2>1, RestedParts
<1>2. ASSUME NEW r \in Requests, t = Reader, Withdraws(r)
      PROVE  /\ Only(t) /\ task[t].at = "idle" /\ task'[t].for = 0
             /\ \/ t = Reader /\ task'[t].at = "idle" /\ task'[t].as = "none" /\ task'[t].taken = {}
                \/ task'[t].at = "claim" /\ task'[t].as = "withdrawn"
  <2>1. task[t].at = "idle"
    BY <1>2 DEF Withdraws
  <2>2. CASE r \in listed'
    <3>1. Works(t, Begin("claim", "withdrawn", <<>>, {r}, FALSE))
      BY <1>2, <2>2 DEF Withdraws
    <3> QED BY <2>1, <3>1, BegunParts
  <2>3. CASE r \notin listed'
    <3>1. Works(t, Idle)
      BY <1>2, <2>3 DEF Withdraws
    <3> QED BY <1>2, <2>1, <3>1, RestedParts
  <2> QED BY <2>2, <2>3
<1>3. ASSUME NEW r \in Requests, Clicks(t, r)
      PROVE  /\ Only(t) /\ task[t].at = "idle" /\ task'[t].for = 0
             /\ task'[t].at = "claim" /\ task'[t].as \in {"accepted", "declined", "cancelled"}
  <2>1. PICK as \in {"accepted", "declined", "cancelled"} :
          Works(t, Begin("claim", as, <<>>, {r}, FALSE))
    BY <1>3 DEF Clicks
  <2>2. task[t].at = "idle"
    BY <1>3 DEF Clicks
  <2> QED BY <2>1, <2>2, BegunParts, ZenonT(30)
<1>4. ASSUME NEW all \in BOOLEAN, AnswersCancelled(t, all)
      PROVE  /\ Only(t) /\ task[t].at = "idle" /\ task'[t].for = 0
             /\ task'[t].at = "take" /\ task'[t].as = "cancelled"
  <2>1. Works(t, Begin("take", "cancelled", Kinds, {}, all)) /\ task[t].at = "idle"
    BY <1>4 DEF AnswersCancelled
  <2> QED BY <2>1, BegunParts
<1> QED BY <1>1, <1>2, <1>3, <1>4

(***************************************************************************)
(* What ends: a turn, a connection, a call.                                *)
(***************************************************************************)
\* One task moves, rightly, and nothing else ends.
LEMMA EndsStay ==
  ASSUME IInv, EndsAreRight, NEW t \in Tasks, Only(t), Right(t)',
         UNCHANGED <<asked, dropped, closed, taking>>,
         t = Reader => \/ ~Leaving /\ task'[Reader].at \notin {"clear", "gone"}
                       \/ closed /\ Leaving',
         \A r \in Requests : state'[r] = "abandoned" =>
           state[r] = "abandoned" \/ asked[r].scope # "call" \/ closed \/ ~taking
  PROVE  EndsAreRight'
<1>0. Reader \in Tasks
  BY DEF Tasks
<1>1. AbandonersAreRight'
  BY DEF EndsAreRight, AbandonersAreRight, Right, GivesUpRightly, Only, ends
<1>2. ClosedIsLeaving'
  <2>1. CASE t = Reader
    BY <2>1 DEF EndsAreRight, ClosedIsLeaving, ends
  <2>2. CASE t # Reader
    BY <1>0, <2>2 DEF EndsAreRight, ClosedIsLeaving, Leaving, Only, ends
  <2> QED BY <2>1, <2>2
<1>3. CallsOutliveTurns'
  BY DEF EndsAreRight, CallsOutliveTurns, ends
<1> QED BY <1>1, <1>2, <1>3 DEF EndsAreRight

\* The steps of a reader that is not leaving.
LEMMA ReadingEnds ==
  ASSUME IInv, EndsAreRight,
         Arrives \/ Count \/ Admit \/ Register \/ List \/ Show \/ Credits
  PROVE  EndsAreRight'
<1> DEFINE v == task[Reader]
           w == task'[Reader]
<1>0. Reader \in Tasks /\ Right(Reader)
  BY DEF Tasks, EndsAreRight, AbandonersAreRight
<1>1. UNCHANGED <<asked, dropped, closed, taking>>
  BY DEF Arrives, Count, Admit, Register, List, Show, Credits, requests, ends
<1>2. /\ Only(Reader)
      /\ v.at \notin {"take", "abandon", "clear", "gone", "fail"} /\ w.at \notin {"clear", "gone", "fail"}
      /\ w.as # "abandoned" \/ (w.as = v.as /\ w.all = v.all /\ w.taken = v.taken)
      /\ w.at = "idle" => w.as = "none" /\ w.taken = {}
  <2>1. CASE Arrives
    BY <2>1, ArrivesParts
  <2>2. CASE Count
    BY <2>2, CountParts
  <2>3. CASE Admit
    BY <2>3, AdmitParts
  <2>4. CASE Register \/ List \/ Credits
    BY <2>4, StepsParts DEF SameBut
  <2>5. CASE Show
    BY <2>5, ShowParts
  <2> QED BY <2>1, <2>2, <2>3, <2>4, <2>5
<1>3. Right(Reader)'
  BY <1>0, <1>1, <1>2 DEF Right, GivesUpRightly
<1>4. ~Leaving
  BY <1>2 DEF Leaving
<1>5. \A r \in Requests : state'[r] = "abandoned" => state[r] = "abandoned"
  <2>1. CASE Arrives
    BY <2>1, ArrivesParts DEF IInv, TypeOK
  <2>2. CASE Admit
    BY <2>2 DEF Admit, IInv, TypeOK
  <2>3. CASE Count \/ Register \/ List \/ Show \/ Credits
    BY <2>3 DEF Count, Register, List, Show, Credits, requests
  <2> QED BY <2>1, <2>2, <2>3
<1> QED BY <1>0, <1>1, <1>2, <1>3, <1>4, <1>5, EndsStay

\* Users set out, and the reader to withdraw; nothing ends by that.
LEMMA SettingOutEnds ==
  ASSUME IInv, EndsAreRight,
         \/ Uncredit \/ \E r \in Requests : Withdraws(r) \/ \E u \in Clickers : Clicks(u, r)
         \/ \E u \in Leavers, all \in BOOLEAN : AnswersCancelled(u, all)
  PROVE  EndsAreRight'
<1>1. ASSUME NEW t \in Tasks,
             \/ t = Reader /\ (Uncredit \/ \E r \in Requests : Withdraws(r))
             \/ \E r \in Requests : t \in Clickers /\ Clicks(t, r)
             \/ \E all \in BOOLEAN : t \in Leavers /\ AnswersCancelled(t, all)
      PROVE  EndsAreRight'
  <2>1. UNCHANGED <<asked, state, dropped, closed, taking>>
    BY <1>1 DEF Uncredit, Withdraws, Clicks, AnswersCancelled, requests, ends
  <2>2. /\ Only(t) /\ task[t].at \in {"idle", "uncredit"}
        /\ \/ task'[t].at = "idle" /\ task'[t].as = "none" /\ task'[t].taken = {}
           \/ task'[t].at \in {"claim", "take"}
              /\ task'[t].as \in {"accepted", "declined", "cancelled", "withdrawn"}
    BY <1>1, SetsOutParts
  <2>3. Right(t)'
    BY <2>2 DEF Right
  <2>4. t = Reader => ~Leaving /\ task'[Reader].at \notin {"clear", "gone"}
    BY <2>2 DEF Leaving
  <2> QED BY <2>1, <2>2, <2>3, <2>4, EndsStay
<1>2. Reader \in Tasks /\ Clickers \cup Leavers \subseteq Tasks
  BY DEF Tasks, Users
<1> QED BY <1>1, <1>2

\* The reader gives up: on a turn, on everything, and is gone.
LEMMA LeavingEnds ==
  ASSUME IInv, EndsAreRight, TurnSettles \/ Disconnected \/ Clear
  PROVE  EndsAreRight'
<1> DEFINE v == task[Reader]
           w == task'[Reader]
<1>0. Reader \in Tasks /\ Right(Reader)
  BY DEF Tasks, EndsAreRight, AbandonersAreRight
<1>1. UNCHANGED <<asked, state>>
  BY DEF TurnSettles, Disconnected, Clear, requests
<1>2. CASE TurnSettles
  <2>1. UNCHANGED <<dropped, closed, taking>>
    BY <1>2 DEF TurnSettles, ends
  <2>2. /\ Only(Reader) /\ v.at = "idle"
        /\ w.at = "take" /\ w.as = "abandoned" /\ w.taken = {} /\ ~w.all
    BY <1>2, GivingUpParts
  <2>3. Right(Reader)' /\ ~Leaving
    BY <2>2 DEF Right, GivesUpRightly, Leaving
  <2> QED BY <1>0, <1>1, <2>1, <2>2, <2>3, EndsStay
<1>3. CASE Disconnected /\ ~TurnSettles
  <2>1. closed' /\ UNCHANGED taking
    BY <1>3 DEF Disconnected
  <2>2. Only(Reader) /\ w.at = "take" /\ w.as = "abandoned" /\ w.all
    BY <1>3, GivingUpParts
  <2>3. Right(Reader)'
    BY <2>1, <2>2 DEF Right, GivesUpRightly
  <2>4. AbandonersAreRight'
    BY <1>1, <2>1, <2>2, <2>3 DEF EndsAreRight, AbandonersAreRight, Right, GivesUpRightly, Only
  <2>5. ClosedIsLeaving'
    BY <2>1, <2>2 DEF ClosedIsLeaving, Leaving
  <2>6. CallsOutliveTurns'
    BY <2>1 DEF CallsOutliveTurns
  <2> QED BY <2>4, <2>5, <2>6 DEF EndsAreRight
<1>4. CASE Clear
  <2>1. UNCHANGED <<dropped, closed, taking>>
    BY <1>4 DEF Clear, ends
  <2>2. Only(Reader) /\ v.at = "clear" /\ w.at = "gone" /\ SameBut(w, v)
    BY <1>4, StepsParts
  <2>3. Right(Reader)'
    BY <1>0, <1>1, <2>1, <2>2 DEF Right, GivesUpRightly, SameBut
  <2>4. closed /\ Leaving'
    BY <2>2 DEF EndsAreRight, ClosedIsLeaving, Leaving
  <2> QED BY <1>0, <1>1, <2>1, <2>2, <2>3, <2>4, EndsStay
<1> QED BY <1>2, <1>3, <1>4

\* Answering gives up on nothing but what the transport no longer takes.
LEMMA AnsweringEnds ==
  ASSUME IInv, EndsAreRight, NEW t \in Tasks,
         Send(t) \/ SendFails(t) \/ Settle(t) \/ Fail(t) \/ \E r \in Requests : Claim(t, r)
  PROVE  EndsAreRight'
<1> DEFINE v == task[t]
           w == task'[t]
           Fine == /\ Only(t) /\ v.at \in {"claim", "send", "settle", "fail"}
                   /\ v.as # "abandoned"
                   /\ w.at \notin {"clear", "gone"}
                   /\ w.as \in {"none", v.as}
                   /\ w.at = "fail" => ~taking
                   /\ w.at = "idle" => w.as = "none" /\ w.taken = {}
<1>1. UNCHANGED <<asked, dropped, closed, taking>>
  BY DEF Send, SendFails, Settle, Fail, Claim, requests, ends
<1>2. Fine
  <2>1. CASE Send(t) \/ SendFails(t)
    BY <2>1, SendParts DEF SameBut, Answers
  <2>2. CASE Settle(t)
    BY <2>2, SettleParts DEF Follows, Choices, Answers
  <2>3. CASE Fail(t)
    BY <2>3, FailParts DEF Follows, SameBut, Choices, Answers
  <2>4. ASSUME NEW r \in Requests, Claim(t, r) PROVE Fine
    <3>1. PICK p : p = Picks(v, r)
      OBVIOUS
    <3>2. p.as = v.as
      <4>1. v \in Work
        BY DEF IInv, TypeOK
      <4> QED BY <3>1, <4>1, PicksParts
    <3>3. /\ Only(t) /\ v.at = "claim" /\ v.as \in Choices
          /\ \/ w.at \in {"send", "uncredit"} /\ w.as = v.as
             \/ Follows(w, p)
      BY <2>4, <3>1, ClaimParts
    <3> QED BY <3>2, <3>3 DEF Follows, Choices, Answers
  <2> QED BY <2>1, <2>2, <2>3, <2>4
<1>3. Right(t)'
  BY <1>1, <1>2 DEF Right
<1>4. t = Reader => ~Leaving
  BY <1>2 DEF Leaving
<1>5. \A r \in Requests : state'[r] = "abandoned" => state[r] = "abandoned" \/ ~taking
  <2>1. CASE Send(t) \/ SendFails(t)
    BY <2>1 DEF Send, SendFails, requests
  <2>2. CASE Settle(t)
    <3>1. Stands(v.as) # "abandoned"
      BY <2>2, SettleParts DEF Stands, Choices, Answers
    <3> QED BY <2>2, <3>1 DEF Settle, IInv, TypeOK
  <2>3. CASE Fail(t)
    BY <2>3, FailParts DEF EndsAreRight, AbandonersAreRight, Right
  <2>4. ASSUME NEW r \in Requests, Claim(t, r)
        PROVE  \A s \in Requests : state'[s] = "abandoned" => state[s] = "abandoned"
    BY <2>4 DEF Claim, IInv, TypeOK
  <2> QED BY <2>1, <2>2, <2>3, <2>4
<1> QED BY <1>1, <1>2, <1>3, <1>4, <1>5, EndsStay

\* Taking from the lists goes on with what the task was about.
LEMMA TakingEnds ==
  ASSUME IInv, EndsAreRight, NEW t \in Tasks, Take(t) \/ \E r \in Requests : Abandon(t, r)
  PROVE  EndsAreRight'
<1> DEFINE v == task[t]
           w == task'[t]
<1>0. Right(t)
  BY DEF EndsAreRight, AbandonersAreRight
<1>1. UNCHANGED <<asked, dropped, closed, taking>>
  BY DEF Take, Abandon, requests, ends
<1>2. PICK p \in Work :
        /\ Only(t) /\ Follows(w, p) /\ p.as = v.as /\ p.all = v.all
        /\ v.at \in {"take", "abandon"} /\ v.as \in Choices \cup {"abandoned"}
        /\ v.at = "take" /\ ~v.all => \A r \in p.taken : asked[r].scope # "call"
        /\ v.at = "abandon" => p.taken \subseteq v.taken
  <2>1. CASE Take(t)
    BY <2>1, TakeParts
  <2>2. CASE \E r \in Requests : Abandon(t, r)
    BY <2>2, AbandonParts
  <2> QED BY <2>1, <2>2
<1>3. Right(t)'
  <2>1. CASE w.as = "abandoned"
    <3>1. v.as = "abandoned" /\ w.all = v.all /\ w.taken = p.taken
          /\ w.at \in {"abandon", "take", "clear"}
      BY <1>2, <2>1 DEF Follows
    <3>2. GivesUpRightly(t)
      BY <1>0, <3>1 DEF Right
    <3> QED BY <1>1, <1>2, <3>1, <3>2 DEF Right, GivesUpRightly
  <2>2. CASE w.as # "abandoned"
    BY <1>2, <2>2 DEF Right, Follows
  <2> QED BY <2>1, <2>2
<1>4. t = Reader => \/ ~Leaving /\ task'[Reader].at \notin {"clear", "gone"}
                    \/ closed /\ Leaving'
  <2>1. CASE v.as = "abandoned" /\ v.all
    <3>1. closed
      BY <1>0, <2>1 DEF Right, GivesUpRightly
    <3>2. w.as = "abandoned" /\ w.all /\ w.at \in {"abandon", "take", "clear"}
      BY <1>2, <2>1 DEF Follows
    <3> QED BY <3>1, <3>2 DEF Leaving
  <2>2. CASE ~(v.as = "abandoned" /\ v.all)
    BY <1>2, <2>2 DEF Follows, Leaving
  <2> QED BY <2>1, <2>2
<1>5. \A r \in Requests : state'[r] = "abandoned" =>
        state[r] = "abandoned" \/ asked[r].scope # "call" \/ closed
  <2>1. CASE Take(t)
    BY <2>1 DEF Take, requests
  <2>2. ASSUME NEW r \in Requests, Abandon(t, r)
        PROVE  \A s \in Requests : state'[s] = "abandoned" =>
                 state[s] = "abandoned" \/ asked[s].scope # "call" \/ closed
    <3>1. v.as = "abandoned" /\ r \in v.taken
      BY <2>2, AbandonParts
    <3>2. closed \/ asked[r].scope # "call"
      BY <1>0, <3>1, <2>2 DEF Right, GivesUpRightly, IInv, TypeOK, Work
    <3>3. \A s \in Requests \ {r} : state'[s] = state[s]
      BY <2>2 DEF Abandon, IInv, TypeOK
    <3> QED BY <3>2, <3>3
  <2> QED BY <2>1, <2>2
<1> QED BY <1>1, <1>2, <1>3, <1>4, <1>5, EndsStay

\* What no task does: the agent's word that an elicitation is over, the end of
\* the transport, and nothing at all.
LEMMA OthersEnd ==
  ASSUME IInv, EndsAreRight,
         StopsTaking \/ UNCHANGED vars \/ \E url \in Urls : Complete({url})
  PROVE  EndsAreRight'
<1>1. UNCHANGED <<asked, state, dropped, closed, task>> /\ (taking' => taking)
  BY DEF StopsTaking, vars, Complete, requests, ends
<1> QED BY <1>1 DEF EndsAreRight, AbandonersAreRight, Right, GivesUpRightly, ClosedIsLeaving,
                   Leaving, CallsOutliveTurns

LEMMA EndsKeep == IInv /\ EndsAreRight /\ [Next]_vars => EndsAreRight'
<1> SUFFICES ASSUME IInv, EndsAreRight, [Next]_vars PROVE EndsAreRight'
  OBVIOUS
<1>1. ASSUME NEW t \in Tasks, TaskGoesOn(t) \/ Send(t) PROVE EndsAreRight'
  BY <1>1, AnsweringEnds, TakingEnds DEF TaskGoesOn
<1> QED BY <1>1, ReadingEnds, SettingOutEnds, LeavingEnds, OthersEnd DEF Next, ReaderGoesOn

(***************************************************************************)
(* Who is credited.                                                        *)
(***************************************************************************)
Picked(r) == told[r] = <<"picked">>

LEMMA ReaderOnlyPicks ==
  ASSUME CreditIsRight, NEW t \in Tasks, task[t].as = "picked" \/ task[t].at \in {"credit", "uncredit"}
  PROVE  t = Reader /\ task[t].as = "picked" /\ Picking
  BY DEF CreditIsRight, PickersArePicking

\* A request that is admitted is one.
LEMMA AdmittedIsOne ==
  ASSUME IInv, Admitting
  PROVE  task[Reader].for \in Requests /\ task[Reader].for \in 1..arrived
<1>1. Reader \in Tasks /\ arrived \in 0..MaxRequests
  BY DEF Tasks, IInv, TypeOK
<1> QED BY <1>1 DEF IInv, NewcomersAreNew, Admitting, Requests

\* A task that answers for somebody else leaves the credits alone.
LEMMA CreditStays ==
  ASSUME IInv, CreditIsRight, NEW t \in Tasks, Only(t), UNCHANGED <<credited, dropped>>,
         \A r \in Requests : Picked(r)' <=> Picked(r),
         task[t].as # "picked", task'[t].as # "picked", task'[t].at \notin {"credit", "uncredit"},
         t = Reader /\ Admitting' =>
           task'[Reader].for \in Requests /\ ~Picked(task'[Reader].for)
  PROVE  CreditIsRight'
<1>0. Reader \in Tasks
  BY DEF Tasks
<1>1. PickersArePicking'
  <2>1. CASE t = Reader
    BY <2>1 DEF CreditIsRight, PickersArePicking, Only
  <2>2. CASE t # Reader
    <3>1. task'[Reader] = task[Reader]
      BY <1>0, <2>2 DEF Only
    <3>2. task[Reader].as = "picked" => Picking'
      BY <1>0, <3>1 DEF CreditIsRight, PickersArePicking, Picking, Picked
    <3> QED BY <1>0, <2>2, <3>1, <3>2 DEF CreditIsRight, PickersArePicking, Only
  <2> QED BY <2>1, <2>2
<1>2. ToldIsCredited'
  BY DEF CreditIsRight, ToldIsCredited, Picked
<1>3. CreditedIsTold'
  <2>1. \A r \in credited : r \in Requests
    BY DEF IInv, TypeOK
  <2>2. CASE t = Reader
    BY <2>1, <2>2 DEF CreditIsRight, CreditedIsTold, Picked
  <2>3. CASE t # Reader
    BY <1>0, <2>1, <2>3 DEF CreditIsRight, CreditedIsTold, Picked, Only
  <2> QED BY <2>2, <2>3
<1>4. NewIsUntold'
  <2>1. CASE t = Reader
    BY <2>1 DEF NewIsUntold, Picked
  <2>2. CASE t # Reader
    <3>1. task'[Reader] = task[Reader]
      BY <1>0, <2>2 DEF Only
    <3>2. Admitting' => Admitting /\ task[Reader].for \in Requests
      BY <3>1, AdmittedIsOne DEF Admitting
    <3> QED BY <3>1, <3>2 DEF CreditIsRight, NewIsUntold, Picked
  <2> QED BY <2>1, <2>2
<1> QED BY <1>1, <1>2, <1>3, <1>4 DEF CreditIsRight

\* The reader goes on with the policy's answer to one request.
LEMMA PickingStays ==
  ASSUME IInv, CreditIsRight, Only(Reader), UNCHANGED <<told, dropped>>,
         task'[Reader].as = "picked", Picking',
         credited \subseteq credited', credited' \subseteq Requests,
         \A r \in credited' : \/ Picked(r) \/ r = dropped
                              \/ r \in {task'[Reader].for} \cup task'[Reader].taken
  PROVE  CreditIsRight'
<1>1. PickersArePicking'
  BY DEF CreditIsRight, PickersArePicking, Only
<1>2. ToldIsCredited' /\ CreditedIsTold'
  BY DEF CreditIsRight, ToldIsCredited, CreditedIsTold, Picked
<1>3. NewIsUntold'
  BY DEF NewIsUntold, Admitting, Picking
<1> QED BY <1>1, <1>2, <1>3 DEF CreditIsRight

\* The reader takes in a request that nobody was credited with.
LEMMA ReadingCredits ==
  ASSUME IInv, CreditIsRight, Arrives \/ Count \/ Admit \/ Register \/ List
  PROVE  CreditIsRight'
<1> DEFINE v == task[Reader]
           w == task'[Reader]
<1>0. Reader \in Tasks
  BY DEF Tasks
<1>1. UNCHANGED <<told, credited, dropped>>
  BY DEF Arrives, Count, Admit, Register, List, requests, lists, ends
<1>2. /\ Only(Reader) /\ v.at \in {"idle", "count", "register", "list"}
      /\ w.as \in {"none", "refused", v.as}
      /\ w.at \in {"count", "show", "send", "register", "list"}
      /\ \/ Admitting /\ w.for = v.for
         \/ w.for = arrived + 1 /\ w.for \in Requests
  <2>1. CASE Arrives
    BY <2>1, ArrivesParts
  <2>2. CASE Count
    BY <2>2, CountParts DEF Admitting
  <2>3. CASE Admit
    BY <2>3, AdmitParts DEF Admitting
  <2>4. CASE Register \/ List
    BY <2>4, StepsParts DEF SameBut, Admitting
  <2> QED BY <2>1, <2>2, <2>3, <2>4
<1>3. v.as # "picked"
  BY <1>0, <1>2, ReaderOnlyPicks DEF Picking
<1>4. w.for \in Requests /\ ~Picked(w.for)
  <2>1. CASE Admitting /\ w.for = v.for
    BY <2>1, AdmittedIsOne DEF CreditIsRight, NewIsUntold, Picked
  <2>2. CASE w.for = arrived + 1 /\ w.for \in Requests
    <3>1. state[w.for] = "none"
      BY <2>2 DEF IInv, NewcomersAreNew, TypeOK
    <3>2. told[w.for] = <<>> /\ <<>> # <<"picked">>
      BY <2>2, <3>1 DEF IInv, StandsAsTold
    <3> QED BY <2>2, <3>2 DEF Picked
  <2> QED BY <1>2, <2>1, <2>2
<1>5. \A r \in Requests : Picked(r)' <=> Picked(r)
  BY <1>1 DEF Picked
<1>6. ~Picked(task'[Reader].for)
  BY <1>4
<1> QED BY <1>0, <1>1, <1>2, <1>3, <1>4, <1>5, CreditStays

\* Where the timeline shows a request a policy answers, the policy begins to.
LEMMA ShowingCredits ==
  ASSUME IInv, CreditIsRight, Show
  PROVE  CreditIsRight'
<1> DEFINE v == task[Reader]
           w == task'[Reader]
           r == v.for
<1>0. Reader \in Tasks
  BY DEF Tasks
<1>1. UNCHANGED <<told, credited, dropped>>
  BY DEF Show, requests, ends
<1>2. /\ Only(Reader) /\ v.at = "show" /\ w.for = 0 /\ w.left = <<>>
      /\ \/ w.at = "idle" /\ w.as = "none"
         \/ w.at = "credit" /\ w.as = "picked" /\ w.taken = {r}
         \/ w.at = "claim" /\ w.as = "scripted"
  BY ShowParts
<1>3. v.as # "picked"
  BY <1>0, <1>2, ReaderOnlyPicks DEF Picking
<1>4. r \in Requests /\ ~Picked(r)
  BY <1>2, AdmittedIsOne DEF CreditIsRight, NewIsUntold, Admitting, Picked
<1>5. \A s \in Requests : Picked(s)' <=> Picked(s)
  BY <1>1 DEF Picked
<1>6. CASE w.at # "credit"
  BY <1>0, <1>1, <1>2, <1>3, <1>5, <1>6, CreditStays DEF Admitting
<1>7. CASE w.at = "credit"
  <2>1. Picking'
    BY <1>1, <1>2, <1>4, <1>7 DEF Picking, Picked
  <2>2. \A s \in credited' : Picked(s) \/ s = dropped
    BY <1>1, <1>3 DEF CreditIsRight, CreditedIsTold, Picked
  <2>3. credited' = credited /\ credited \subseteq Requests
    BY <1>1 DEF IInv, TypeOK
  <2> QED BY <1>1, <1>2, <1>7, <2>1, <2>2, <2>3, PickingStays
<1> QED BY <1>6, <1>7

\* Who sets out does so for somebody else than the policy.
LEMMA SettingOutCredits ==
  ASSUME IInv, CreditIsRight, NEW t \in Tasks,
         \/ t = Reader /\ (TurnSettles \/ Clear \/ \E r \in Requests : Withdraws(r))
         \/ \E r \in Requests : t \in Clickers /\ Clicks(t, r)
         \/ \E all \in BOOLEAN : t \in Leavers /\ AnswersCancelled(t, all)
         \/ Take(t) \/ \E r \in Requests : Abandon(t, r)
  PROVE  CreditIsRight'
<1> DEFINE v == task[t]
           w == task'[t]
<1>1. UNCHANGED <<told, credited, dropped>>
  BY DEF TurnSettles, Clear, Withdraws, Clicks, AnswersCancelled, Take, Abandon, requests, lists, ends
<1>2. /\ Only(t) /\ v.at \in {"idle", "take", "abandon", "clear", "uncredit"}
      /\ w.as \in {"none", "abandoned", "accepted", "declined", "cancelled", "withdrawn", v.as}
      /\ w.at \in {"idle", "claim", "take", "abandon", "clear", "gone"}
      /\ v.at = "uncredit" => Uncredit
  <2>1. CASE t = Reader /\ TurnSettles
    BY <2>1, GivingUpParts
  <2>2. CASE t = Reader /\ Clear
    BY <2>2, StepsParts DEF SameBut
  <2>3. CASE Take(t)
    <3>1. Only(t) /\ v.at = "take" /\ \E p \in Work : Follows(w, p) /\ p.as = v.as
      BY <2>3, TakeParts
    <3> QED BY <3>1 DEF Follows
  <2>4. CASE \E r \in Requests : Abandon(t, r)
    <3>1. Only(t) /\ v.at = "abandon" /\ \E p \in Work : Follows(w, p) /\ p.as = v.as
      BY <2>4, AbandonParts
    <3> QED BY <3>1 DEF Follows
  <2>5. CASE \/ t = Reader /\ \E r \in Requests : Withdraws(r)
             \/ \E r \in Requests : t \in Clickers /\ Clicks(t, r)
             \/ \E all \in BOOLEAN : t \in Leavers /\ AnswersCancelled(t, all)
    BY <2>5, SetsOutParts
  <2> QED BY <2>1, <2>2, <2>3, <2>4, <2>5
<1>3. v.at # "uncredit"
  <2>1. Clickers \cup Leavers \subseteq Tasks \ {Reader}
    BY DEF Tasks, Users
  <2> QED BY <2>1 DEF TurnSettles, Clear, Withdraws, Clicks, AnswersCancelled, Take, Abandon
<1>4. v.as # "picked"
  BY <1>2, <1>3, ReaderOnlyPicks DEF Picking
<1>5. \A r \in Requests : Picked(r)' <=> Picked(r)
  BY <1>1 DEF Picked
<1>6. t = Reader => ~Admitting'
  BY <1>2 DEF Admitting
<1> QED BY <1>1, <1>2, <1>4, <1>5, <1>6, CreditStays

\* An answer that is not the policy's leaves the credits alone.
LEMMA AnsweringCredits ==
  ASSUME IInv, CreditIsRight, NEW t \in Tasks, task[t].as # "picked",
         Send(t) \/ SendFails(t) \/ Settle(t) \/ Fail(t) \/ \E r \in Requests : Claim(t, r)
  PROVE  CreditIsRight'
<1> DEFINE v == task[t]
           w == task'[t]
           Fine == /\ Only(t) /\ w.as \in {"none", v.as}
                   /\ w.at \in {"idle", "claim", "abandon", "take", "clear", "send", "settle", "fail"}
<1>1. UNCHANGED <<credited, dropped>>
  BY DEF Send, SendFails, Settle, Fail, Claim, lists, ends
<1>2. Fine
  <2>1. CASE Send(t) \/ SendFails(t)
    BY <2>1, SendParts DEF SameBut
  <2>2. CASE Settle(t)
    BY <2>2, SettleParts DEF Follows
  <2>3. CASE Fail(t)
    BY <2>3, FailParts DEF Follows, SameBut
  <2>4. ASSUME NEW r \in Requests, Claim(t, r) PROVE Fine
    <3>1. PICK p : p = Picks(v, r)
      OBVIOUS
    <3>2. p.as = v.as
      <4>1. v \in Work
        BY DEF IInv, TypeOK
      <4> QED BY <3>1, <4>1, PicksParts
    <3>3. Only(t) /\ ((w.at = "send" /\ w.as = v.as) \/ Follows(w, p))
      BY <2>4, <3>1, ClaimParts
    <3> QED BY <3>2, <3>3 DEF Follows
  <2> QED BY <2>1, <2>2, <2>3, <2>4
<1>3. \A r \in Requests : Picked(r)' <=> Picked(r)
  <2>1. CASE Send(t)
    <3>1. PICK r \in Requests : told[r] = <<>> /\ told' = [told EXCEPT ![r] = <<v.as>>]
      BY <2>1, SendTells
    <3>2. <<>> # <<"picked">> /\ <<v.as>> # <<"picked">>
      OBVIOUS
    <3>3. told'[r] = <<v.as>> /\ \A s \in Requests \ {r} : told'[s] = told[s]
      BY <3>1 DEF IInv, TypeOK
    <3> QED BY <3>1, <3>2, <3>3 DEF Picked
  <2>2. CASE ~Send(t)
    <3>1. told' = told
      BY <2>2 DEF SendFails, Settle, Fail, Claim, requests
    <3> QED BY <3>1 DEF Picked
  <2> QED BY <2>1, <2>2
<1>4. w.as # "picked" /\ w.at \notin {"credit", "uncredit"} /\ (t = Reader => ~Admitting')
  BY <1>2 DEF Admitting
<1> QED BY <1>1, <1>2, <1>3, <1>4, CreditStays

\* The policy's answer is claimed or left, sent or not, while it is credited.
LEMMA PolicyAnswersCredits ==
  ASSUME IInv, CreditIsRight, task[Reader].as = "picked",
         \/ SendFails(Reader) \/ Fail(Reader) \/ Credits
         \/ \E r \in Requests : Claim(Reader, r)
  PROVE  CreditIsRight'
<1> DEFINE v == task[Reader]
           w == task'[Reader]
<1>0. Reader \in Tasks /\ Picking
  BY DEF Tasks, CreditIsRight, PickersArePicking
<1>1. UNCHANGED <<told, dropped>>
  BY DEF SendFails, Fail, Credits, Claim, requests, ends
<1>2. \A r \in credited : \/ Picked(r) \/ r = dropped
                          \/ r \in {v.for} \cup v.taken
  BY DEF CreditIsRight, CreditedIsTold, Picked
<1>3. credited \subseteq Requests /\ 0 \notin Requests
  BY DEF IInv, TypeOK, Requests
<1>4. CASE Credits
  <2>1. Only(Reader) /\ v.at = "credit" /\ w.at = "claim" /\ SameBut(w, v)
        /\ credited' = credited \cup v.taken
    BY <1>4, StepsParts DEF Credits, Credit
  <2>2. Picking'
    BY <1>0, <1>1, <2>1 DEF Picking, SameBut
  <2>3. credited' \subseteq Requests
    BY <1>0, <1>3, <2>1 DEF Picking
  <2>4. \A r \in credited' : \/ Picked(r) \/ r = dropped \/ r \in {w.for} \cup w.taken
    BY <1>2, <2>1 DEF SameBut
  <2>5. w.as = "picked" /\ credited \subseteq credited'
    BY <2>1 DEF SameBut
  <2> QED BY <1>1, <2>1, <2>2, <2>3, <2>4, <2>5, PickingStays
<1>5. CASE SendFails(Reader) \/ Fail(Reader)
  <2>1. /\ Only(Reader) /\ w.at \in {"fail", "uncredit"} /\ SameBut(w, v)
        /\ v.at \in {"send", "fail"}
        /\ w.at = "uncredit" => told[v.for] = <<>>
    <3>1. CASE SendFails(Reader)
      <4>1. ~Send(Reader)
        BY <3>1 DEF Send, SendFails
      <4> QED BY <1>0, <3>1, <4>1, SendParts
    <3>2. CASE Fail(Reader)
      BY <1>0, <3>2, FailParts
    <3> QED BY <1>5, <3>1, <3>2
  <2>2. <<>> # <<"picked">> /\ credited' = credited
    BY <1>5 DEF SendFails, Fail, lists
  <2>3. Picking'
    BY <1>0, <1>1, <2>1, <2>2 DEF Picking, SameBut
  <2>4. w.as = "picked" /\ w.for = v.for /\ w.taken = v.taken
    BY <2>1 DEF SameBut
  <2> QED BY <1>1, <1>2, <1>3, <2>1, <2>2, <2>3, <2>4, PickingStays
<1>6. ASSUME NEW r \in Requests, Claim(Reader, r) PROVE CreditIsRight'
  <2>1. /\ Only(Reader) /\ v.at = "claim" /\ r \in v.taken /\ w.at \in {"send", "uncredit"}
        /\ w.for = r /\ w.taken = v.taken \ {r} /\ w.as = "picked" /\ w.left = v.left
    BY <1>0, <1>6, ClaimParts
  <2>2. v.taken = {r} /\ v.for = 0 /\ r \in credited /\ ~Picked(r) /\ v.left = <<>>
    BY <1>0, <2>1 DEF Picking, Picked
  <2>3. credited' = credited
    BY <1>6 DEF Claim, lists
  <2>4. Picking'
    BY <1>1, <2>1, <2>2, <2>3 DEF Picking, Picked
  <2>5. \A s \in credited' : \/ Picked(s) \/ s = dropped \/ s \in {w.for} \cup w.taken
    BY <1>2, <1>3, <2>1, <2>2, <2>3
  <2> QED BY <1>1, <1>3, <2>1, <2>3, <2>4, <2>5, PickingStays
<1> QED BY <1>4, <1>5, <1>6

\* The policy's answer is told, and stays credited; or it is not, and is not.
LEMMA PolicyTellsCredits ==
  ASSUME IInv, CreditIsRight, task[Reader].as = "picked",
         Send(Reader) \/ Settle(Reader) \/ Uncredit
  PROVE  CreditIsRight'
<1> DEFINE v == task[Reader]
           w == task'[Reader]
<1>r. PICK r : r = v.for
  OBVIOUS
<1>0. Reader \in Tasks /\ Picking
  BY DEF Tasks, CreditIsRight, PickersArePicking
<1>1. UNCHANGED dropped
  BY DEF Send, Settle, Uncredit, ends
<1>2. \A s \in credited : \/ Picked(s) \/ s = dropped
                          \/ s \in {v.for} \cup v.taken
  BY DEF CreditIsRight, CreditedIsTold, Picked
<1>3. credited \subseteq Requests /\ 0 \notin Requests
  BY DEF IInv, TypeOK, Requests
<1>4. CASE Send(Reader)
  <2>1. Only(Reader) /\ v.at = "send" /\ w.at = "settle" /\ SameBut(w, v)
    BY <1>0, <1>4, SendParts
  <2>2. /\ r \in Requests /\ told' = [told EXCEPT ![r] = <<"picked">>]
        /\ v.taken = {} /\ r \in credited
    BY <1>r, <1>0, <1>4, <2>1, SendTells DEF Picking
  <2>3. credited' = credited
    BY <1>4 DEF Send, lists
  <2>4. Picked(r)' /\ \A s \in Requests \ {r} : Picked(s)' <=> Picked(s)
    BY <2>2 DEF Picked, IInv, TypeOK
  <2>5. PickersArePicking'
    BY <1>0, <2>1, <2>3 DEF CreditIsRight, PickersArePicking, Picking, SameBut, Only
  <2>6. ToldIsCredited'
    BY <2>2, <2>3, <2>4 DEF CreditIsRight, ToldIsCredited, Picked
  <2>7. CreditedIsTold'
    BY <1>r, <1>1, <1>2, <1>3, <2>2, <2>3, <2>4 DEF CreditedIsTold, Picked
  <2>8. NewIsUntold'
    BY <2>1 DEF NewIsUntold, Admitting
  <2> QED BY <2>5, <2>6, <2>7, <2>8 DEF CreditIsRight
<1>5. CASE Settle(Reader) \/ Uncredit
  <2>1. /\ Only(Reader) /\ v.at \in {"settle", "uncredit"} /\ w.at = "idle" /\ w.as = "none"
        /\ v.taken = {} /\ r \in Requests
        /\ \/ Picked(r) /\ credited' = credited
           \/ ~Picked(r) /\ credited' = credited \ {r}
    <3>1. CASE Settle(Reader)
      <4>1. Only(Reader) /\ v.at = "settle" /\ Follows(w, v) /\ Picked(r) /\ r \in Requests
        BY <1>r, <1>0, <3>1, SettleParts DEF Picked
      <4>2. v.taken = {} /\ v.left = <<>>
        BY <1>0, <4>1 DEF Picking
      <4>3. credited' = credited
        BY <3>1 DEF Settle, lists
      <4> QED BY <4>1, <4>2, <4>3 DEF Follows
    <3>2. CASE Uncredit
      <4>1. v.at = "uncredit" /\ Works(Reader, Idle) /\ credited' = credited \ {v.for}
        BY <3>2 DEF Uncredit
      <4> QED BY <1>r, <1>0, <4>1, RestedParts DEF Picking, Picked
    <3> QED BY <1>5, <3>1, <3>2
  <2>2. told' = told
    BY <1>5 DEF Settle, Uncredit, requests
  <2>3. PickersArePicking'
    BY <1>0, <2>1 DEF CreditIsRight, PickersArePicking, Only
  <2>4. ToldIsCredited' /\ CreditedIsTold'
    BY <1>r, <1>1, <1>2, <1>3, <2>1, <2>2
       DEF CreditIsRight, ToldIsCredited, CreditedIsTold, Picked
  <2>5. NewIsUntold'
    BY <2>1 DEF NewIsUntold, Admitting
  <2> QED BY <2>3, <2>4, <2>5 DEF CreditIsRight
<1> QED BY <1>4, <1>5

\* The reader is let go while it answers for the policy: that credit stays.
LEMMA DisconnectingCredits ==
  ASSUME IInv, EndsAreRight, CreditIsRight, Disconnected
  PROVE  CreditIsRight'
<1> DEFINE v == task[Reader]
           w == task'[Reader]
<1>0. Reader \in Tasks /\ 0 \notin Requests /\ credited \subseteq Requests
  BY DEF Tasks, IInv, TypeOK, Requests
<1>1. UNCHANGED <<told, credited>> /\ v.at \in {"idle", "send"}
      /\ dropped' = IF v.as = "refused" THEN 0 ELSE v.for
  BY DEF Disconnected, requests, lists
<1>2. Only(Reader) /\ w.at = "take" /\ w.as = "abandoned"
  BY GivingUpParts
<1>3. dropped = 0
  BY <1>1 DEF EndsAreRight, ClosedIsLeaving, Leaving
<1>4. PickersArePicking'
  BY <1>0, <1>2 DEF CreditIsRight, PickersArePicking, Only
<1>5. ToldIsCredited'
  BY <1>1 DEF CreditIsRight, ToldIsCredited
<1>6. CreditedIsTold'
  <2>1. CASE v.as = "picked"
    <3>1. v.taken = {} /\ dropped' = v.for
      BY <1>0, <1>1, <2>1 DEF CreditIsRight, PickersArePicking, Picking
    <3> QED BY <1>0, <1>1, <1>3, <3>1 DEF CreditIsRight, CreditedIsTold
  <2>2. CASE v.as # "picked"
    BY <1>0, <1>1, <1>3, <2>2 DEF CreditIsRight, CreditedIsTold
  <2> QED BY <2>1, <2>2
<1>7. NewIsUntold'
  BY <1>2 DEF NewIsUntold, Admitting
<1> QED BY <1>4, <1>5, <1>6, <1>7 DEF CreditIsRight

LEMMA CreditsKeep == IInv /\ EndsAreRight /\ CreditIsRight /\ [Next]_vars => CreditIsRight'
<1> SUFFICES ASSUME IInv, EndsAreRight, CreditIsRight, [Next]_vars PROVE CreditIsRight'
  OBVIOUS
<1>0. Reader \in Tasks /\ Clickers \cup Leavers \subseteq Tasks
  BY DEF Tasks, Users
<1>1. CASE Arrives \/ Count \/ Admit \/ Register \/ List
  BY <1>1, ReadingCredits
<1>2. CASE Show
  BY <1>2, ShowingCredits
<1>3. CASE Credits
  <2>1. task[Reader].as = "picked"
    BY <1>0, <1>3, ReaderOnlyPicks DEF Credits
  <2> QED BY <1>3, <2>1, PolicyAnswersCredits
<1>4. CASE Uncredit
  <2>1. task[Reader].as = "picked"
    BY <1>0, <1>4, ReaderOnlyPicks DEF Uncredit
  <2> QED BY <1>4, <2>1, PolicyTellsCredits
<1>5. CASE TurnSettles \/ Clear
  BY <1>0, <1>5, SettingOutCredits
<1>6. CASE Disconnected
  BY <1>6, DisconnectingCredits
<1>7. ASSUME NEW r \in Requests, Withdraws(r) \/ \E u \in Clickers : Clicks(u, r)
      PROVE  CreditIsRight'
  BY <1>0, <1>7, SettingOutCredits
<1>8. ASSUME NEW u \in Leavers, NEW all \in BOOLEAN, AnswersCancelled(u, all)
      PROVE  CreditIsRight'
  BY <1>0, <1>8, SettingOutCredits
<1>9. ASSUME NEW t \in Tasks, TaskGoesOn(t) \/ Send(t) PROVE CreditIsRight'
  <2>1. CASE Take(t) \/ \E r \in Requests : Abandon(t, r)
    BY <2>1, SettingOutCredits
  <2>2. CASE Send(t) \/ SendFails(t) \/ Settle(t) \/ Fail(t) \/ \E r \in Requests : Claim(t, r)
    <3>1. CASE task[t].as # "picked"
      BY <2>2, <3>1, AnsweringCredits
    <3>2. CASE task[t].as = "picked"
      <4>1. t = Reader
        BY <3>2, ReaderOnlyPicks
      <4> QED BY <2>2, <3>2, <4>1, PolicyAnswersCredits, PolicyTellsCredits
    <3> QED BY <3>1, <3>2
  <2> QED BY <1>9, <2>1, <2>2 DEF TaskGoesOn
<1>10. CASE StopsTaking \/ UNCHANGED vars \/ \E url \in Urls : Complete({url})
  <2>1. UNCHANGED <<told, credited, dropped, task>>
    BY <1>10 DEF StopsTaking, vars, Complete, requests, lists, ends
  <2> QED BY <2>1 DEF CreditIsRight, PickersArePicking, Picking, ToldIsCredited, CreditedIsTold,
                      NewIsUntold, Admitting
<1> QED BY <1>1, <1>2, <1>3, <1>4, <1>5, <1>6, <1>7, <1>8, <1>9, <1>10 DEF Next, ReaderGoesOn

(***************************************************************************)
(* Which elicitations are outstanding.                                     *)
(***************************************************************************)
LEMMA UrlsStay ==
  ASSUME IInv, UrlsAreRight, NEW t \in Tasks, Only(t),
         UNCHANGED <<asked, arrived, urls, completed, closed>>,
         t = Reader => /\ task[Reader].at # "register" /\ task'[Reader].at # "register"
                       /\ task'[Reader].at = "count" =>
                            task[Reader].at = "count" /\ task'[Reader].for = task[Reader].for,
         \A r \in Requests : asked[r].url # {} => (MayGoOn(r)' => MayGoOn(r))
  PROVE  UrlsAreRight'
<1>0. Reader \in Tasks
  BY DEF Tasks
<1>1. /\ task'[Reader].at \in {"count", "register"} =>
           task[Reader].at \in {"count", "register"} /\ task'[Reader].for = task[Reader].for
      /\ \A r \in Requests : Registering(r) => Registering(r)'
  <2>1. CASE t = Reader
    BY <2>1 DEF Registering
  <2>2. CASE t # Reader
    BY <1>0, <2>2 DEF Registering, Only
  <2> QED BY <2>1, <2>2
<1>2. ElicitedIsAsked'
  BY <1>1 DEF UrlsAreRight, ElicitedIsAsked
<1>3. GoingOnIsOutstanding'
  BY <1>1 DEF UrlsAreRight, GoingOnIsOutstanding
<1> QED BY <1>2, <1>3 DEF UrlsAreRight

\* A URL elicitation waits once it is on its way to be registered.
LEMMA ComingUrls ==
  ASSUME IInv, UrlsAreRight, Arrives \/ Admit
  PROVE  UrlsAreRight'
<1> DEFINE v == task[Reader]
           w == task'[Reader]
<1>0. Reader \in Tasks
  BY DEF Tasks
<1>1. UNCHANGED <<asked, urls, completed, closed>>
  BY DEF Arrives, Admit, elicited, ends
<1>2. \A r \in Requests : asked[r].url # {} => asked[r].kind = "elicitation" /\ ~asked[r].picked
  BY AsksAssumption DEF IInv, TypeOK
<1>3. CASE Arrives
  <2>1. PICK r : r = arrived + 1
    OBVIOUS
  <2>2. /\ Only(Reader) /\ r \in Requests /\ arrived' = r /\ v.at = "idle" /\ w.for = r
        /\ w.at \in {"count", "show"}
        /\ state' = state \/ (asked[r].kind = "service" /\ state' = [state EXCEPT ![r] = "waiting"])
    BY <1>3, <2>1, ArrivesParts
  <2>3. r \notin 1..arrived /\ 1..arrived \subseteq 1..r /\ arrived \in Nat
    BY <2>1 DEF IInv, TypeOK
  <2>4. ElicitedIsAsked'
    BY <1>1, <2>2, <2>3 DEF UrlsAreRight, ElicitedIsAsked
  <2>5. \A s \in Requests : asked[s].url # {} => (MayGoOn(s)' => MayGoOn(s))
    BY <1>2, <2>2 DEF MayGoOn, IInv, TypeOK
  <2>6. GoingOnIsOutstanding'
    BY <1>1, <2>2, <2>5 DEF UrlsAreRight, GoingOnIsOutstanding, Registering
  <2> QED BY <2>4, <2>6 DEF UrlsAreRight
<1>4. CASE Admit
  <2>1. PICK r : r = v.for
    OBVIOUS
  <2>2. /\ Only(Reader) /\ v.at = "count" /\ w.for = r
        /\ \/ w.at = "send" /\ Saturated
           \/ w.at = "show" /\ asked[r].picked
           \/ w.at = "register"
           \/ w.at = "list" /\ asked[r].url = {}
    BY <1>4, <2>1, AdmitParts
  <2>3. arrived' = arrived /\ state' = [state EXCEPT ![r] = IF Saturated THEN "refused" ELSE "waiting"]
    BY <1>4, <2>1 DEF Admit
  <2>4. r \in Requests
    BY <2>1, <2>2, AdmittedIsOne DEF Admitting
  <2>5. ElicitedIsAsked'
    BY <1>1, <2>1, <2>2, <2>3 DEF UrlsAreRight, ElicitedIsAsked
  <2>6. \A s \in Requests \ {r} : MayGoOn(s)' => MayGoOn(s)
    BY <2>3, <2>4 DEF MayGoOn, IInv, TypeOK
  <2>7. asked[r].url # {} /\ MayGoOn(r)' => w.at = "register"
    BY <1>2, <2>2, <2>3, <2>4 DEF MayGoOn, IInv, TypeOK
  <2>8. \A s \in Requests : ~Registering(s)
    BY <2>2 DEF Registering
  <2>9. GoingOnIsOutstanding'
    BY <1>1, <2>2, <2>6, <2>7, <2>8 DEF UrlsAreRight, GoingOnIsOutstanding, Registering
  <2> QED BY <2>5, <2>9 DEF UrlsAreRight
<1> QED BY <1>3, <1>4

\* What may go on is not swept away.
LEMMA SweepingSpares ==
  ASSUME NEW r \in urls, MayGoOn(r)
  PROVE  r \in Swept
  BY DEF MayGoOn, Swept, Over

LEMMA RegisteringUrls ==
  ASSUME IInv, UrlsAreRight, Register
  PROVE  UrlsAreRight'
<1> DEFINE v == task[Reader]
           w == task'[Reader]
<1>1. PICK r : r = v.for
  OBVIOUS
<1>2. Only(Reader) /\ v.at = "register" /\ w.at = "list"
  BY StepsParts
<1>3. /\ UNCHANGED <<asked, arrived, state, completed, closed>> /\ urls' = Swept \cup {r}
  BY <1>1 DEF Register, requests, ends
<1>4. r \in 1..arrived
  BY <1>1, <1>2, AdmittedIsOne DEF Admitting
<1>5. Swept \subseteq urls
  BY DEF Swept
<1>6. ElicitedIsAsked'
  BY <1>1, <1>2, <1>3, <1>4, <1>5 DEF UrlsAreRight, ElicitedIsAsked
<1>7. \A s \in Requests : Registering(s) => s = r
  BY <1>1 DEF Registering
<1>8. GoingOnIsOutstanding'
  BY <1>3, <1>7, SweepingSpares DEF UrlsAreRight, GoingOnIsOutstanding, MayGoOn
<1> QED BY <1>6, <1>8 DEF UrlsAreRight

LEMMA CompletingUrls ==
  ASSUME IInv, UrlsAreRight, NEW url \in Urls, Complete({url})
  PROVE  UrlsAreRight'
<1> DEFINE named == {r \in Swept : asked[r].url = {url}}
<1>1. /\ UNCHANGED <<asked, arrived, state, closed, task>>
      /\ completed' = completed \cup named /\ urls' = Swept \ named
  BY DEF Complete, requests, ends
<1>2. Swept \subseteq urls /\ named \subseteq Swept
  BY DEF Swept
<1> HIDE DEF named
<1>3. task[Reader].at = "idle"
  BY DEF Complete
<1>4. ElicitedIsAsked'
  BY <1>1, <1>2, <1>3 DEF UrlsAreRight, ElicitedIsAsked
<1>5. GoingOnIsOutstanding'
  BY <1>1, <1>2, SweepingSpares DEF UrlsAreRight, GoingOnIsOutstanding, MayGoOn, Registering
<1> QED BY <1>4, <1>5 DEF UrlsAreRight

\* A reader let go holds no ids.
LEMMA ClearingUrls ==
  ASSUME IInv, EndsAreRight, UrlsAreRight, Disconnected \/ Clear
  PROVE  UrlsAreRight'
<1>1. CASE Disconnected
  <2>1. task'[Reader].at = "take" /\ closed'
    BY <1>1, GivingUpParts DEF Disconnected
  <2>2. UNCHANGED <<arrived, urls, completed>>
    BY <1>1 DEF Disconnected, requests, elicited
  <2> QED BY <2>1, <2>2 DEF UrlsAreRight, ElicitedIsAsked, GoingOnIsOutstanding
<1>2. CASE Clear
  <2>1. task[Reader].at = "clear" /\ task'[Reader].at = "gone"
    BY <1>2, StepsParts
  <2>2. UNCHANGED <<arrived, completed, closed>> /\ urls' = {}
    BY <1>2 DEF Clear, requests, ends
  <2>3. closed
    BY <2>1 DEF EndsAreRight, ClosedIsLeaving
  <2> QED BY <2>1, <2>2, <2>3 DEF UrlsAreRight, ElicitedIsAsked, GoingOnIsOutstanding
<1> QED BY <1>1, <1>2

\* No other step of a task makes a request go on, or comes to register one.
LEMMA OtherUrls ==
  ASSUME IInv, UrlsAreRight, NEW t \in Tasks,
         \/ t = Reader /\ (TurnSettles \/ Count \/ List \/ Show \/ Credits)
         \/ t = Reader /\ (Uncredit \/ \E r \in Requests : Withdraws(r))
         \/ \E r \in Requests : t \in Clickers /\ Clicks(t, r)
         \/ \E all \in BOOLEAN : t \in Leavers /\ AnswersCancelled(t, all)
         \/ TaskGoesOn(t) \/ Send(t)
  PROVE  UrlsAreRight'
<1> DEFINE v == task[t]
           w == task'[t]
           Fine == /\ Only(t) /\ v.at # "register" /\ w.at # "register"
                   /\ w.at = "count" => v.at = "count" /\ w.for = v.for
<1>1. UNCHANGED <<asked, arrived, urls, completed, closed>>
  BY DEF TurnSettles, Count, List, Show, Credits, Uncredit, Withdraws, Clicks, AnswersCancelled,
         TaskGoesOn, Claim, Send, SendFails, Settle, Fail, Take, Abandon, requests, elicited, ends
<1>2. Fine
  <2>1. CASE t = Reader /\ (TurnSettles \/ Count \/ List \/ Show \/ Credits)
    BY <2>1, GivingUpParts, CountParts, StepsParts, ShowParts
  <2>2. CASE \/ t = Reader /\ (Uncredit \/ \E r \in Requests : Withdraws(r))
             \/ \E r \in Requests : t \in Clickers /\ Clicks(t, r)
             \/ \E all \in BOOLEAN : t \in Leavers /\ AnswersCancelled(t, all)
    BY <2>2, SetsOutParts
  <2>3. CASE Send(t) \/ SendFails(t)
    BY <2>3, SendParts
  <2>4. CASE Settle(t) \/ Fail(t) \/ Take(t)
    BY <2>4, SettleParts, FailParts, TakeParts DEF Follows
  <2>5. ASSUME NEW r \in Requests, Claim(t, r) PROVE Fine
    BY <2>5, ClaimParts DEF Follows
  <2>6. ASSUME NEW r \in Requests, Abandon(t, r) PROVE Fine
    BY <2>6, AbandonParts DEF Follows
  <2> QED BY <2>1, <2>2, <2>3, <2>4, <2>5, <2>6 DEF TaskGoesOn
<1>3. \A r \in Requests : MayGoOn(r)' => MayGoOn(r)
  <2>1. CASE Settle(t)
    <3>1. v.for \in Requests /\ state[v.for] = "answering"
          /\ state' = [state EXCEPT ![v.for] = Stands(v.as)]
      BY <2>1, SettleParts
    <3> QED BY <3>1 DEF MayGoOn, IInv, TypeOK
  <2>2. CASE Fail(t)
    BY <2>2, FailParts DEF MayGoOn, IInv, TypeOK
  <2>3. ASSUME NEW r \in Requests, Claim(t, r)
        PROVE  \A s \in Requests : MayGoOn(s)' => MayGoOn(s)
    BY <2>3 DEF Claim, Claims, Waiting, MayGoOn, IInv, TypeOK
  <2>4. ASSUME NEW r \in Requests, Abandon(t, r)
        PROVE  \A s \in Requests : MayGoOn(s)' => MayGoOn(s)
    BY <2>4 DEF Abandon, MayGoOn, IInv, TypeOK
  <2>5. ASSUME state' = state
        PROVE  \A s \in Requests : MayGoOn(s)' => MayGoOn(s)
    BY <2>5 DEF MayGoOn
  <2>6. TurnSettles \/ Count \/ List \/ Show \/ Credits \/ Uncredit \/ Send(t) \/ SendFails(t) \/ Take(t)
          => state' = state
    BY DEF TurnSettles, Count, List, Show, Credits, Uncredit, Send, SendFails, Take, requests
  <2>7. \A r \in Requests, all \in BOOLEAN :
          Withdraws(r) \/ Clicks(t, r) \/ AnswersCancelled(t, all) => state' = state
    BY DEF Withdraws, Clicks, AnswersCancelled, requests
  <2> QED BY <2>1, <2>2, <2>3, <2>4, <2>5, <2>6, <2>7 DEF TaskGoesOn
<1> QED BY <1>1, <1>2, <1>3, UrlsStay

LEMMA UrlsKeep == IInv /\ EndsAreRight /\ UrlsAreRight /\ [Next]_vars => UrlsAreRight'
<1> SUFFICES ASSUME IInv, EndsAreRight, UrlsAreRight, [Next]_vars PROVE UrlsAreRight'
  OBVIOUS
<1>0. Reader \in Tasks /\ Clickers \cup Leavers \subseteq Tasks
  BY DEF Tasks, Users
<1>1. CASE Arrives \/ ReaderGoesOn \/ TurnSettles \/ Disconnected
  BY <1>0, <1>1, ComingUrls, RegisteringUrls, ClearingUrls, OtherUrls DEF ReaderGoesOn
<1>2. ASSUME NEW r \in Requests, Withdraws(r) \/ \E u \in Clickers : Clicks(u, r)
      PROVE  UrlsAreRight'
  BY <1>0, <1>2, OtherUrls
<1>3. ASSUME NEW u \in Leavers, NEW all \in BOOLEAN, AnswersCancelled(u, all)
      PROVE  UrlsAreRight'
  BY <1>0, <1>3, OtherUrls
<1>4. ASSUME NEW t \in Tasks, TaskGoesOn(t) \/ Send(t) PROVE UrlsAreRight'
  BY <1>4, OtherUrls
<1>5. ASSUME NEW url \in Urls, Complete({url}) PROVE UrlsAreRight'
  BY <1>5, CompletingUrls
<1>6. CASE StopsTaking \/ UNCHANGED vars
  <2>1. UNCHANGED <<asked, arrived, state, urls, completed, closed, task>>
    BY <1>6 DEF StopsTaking, vars, requests, elicited, ends
  <2> QED BY <2>1 DEF UrlsAreRight, ElicitedIsAsked, GoingOnIsOutstanding, MayGoOn, Registering
<1> QED BY <1>1, <1>2, <1>3, <1>4, <1>5, <1>6 DEF Next

(***************************************************************************)
(* How many wait in the lists.                                             *)
(***************************************************************************)
LEMMA ListsAreFinite ==
  ASSUME IInv, CountIsRight
  PROVE  /\ IsFiniteSet(listed)
         /\ \A S \in SUBSET listed : IsFiniteSet(S) /\ Cardinality(S) \in Nat
<1>1. IsFiniteSet(1..arrived)
  BY FS_Interval DEF IInv, TypeOK
<1>2. IsFiniteSet(listed)
  BY <1>1, FS_Subset DEF CountIsRight
<1> QED BY <1>2, FS_Subset, FS_CardinalityType

\* A step that lists nothing, and lets nothing listed wait, counts no higher.
LEMMA Shrinks ==
  ASSUME IInv, CountIsRight, UNCHANGED asked, listed' \subseteq listed,
         \A r \in listed' : Waiting(r)' => Waiting(r), NEW kinds
  PROVE  /\ Cardinality(WaitingOnes(kinds)') \in Nat
         /\ Cardinality(WaitingOnes(kinds)') <= Cardinality(WaitingOnes(kinds))
         /\ Cardinality(WaitingOnes(kinds)) \in Nat
<1>1. WaitingOnes(kinds)' \subseteq WaitingOnes(kinds) /\ WaitingOnes(kinds) \subseteq listed
  BY DEF WaitingOnes
<1>2. IsFiniteSet(WaitingOnes(kinds)) /\ Cardinality(WaitingOnes(kinds)) \in Nat
  BY <1>1, ListsAreFinite
<1>3. IsFiniteSet(WaitingOnes(kinds)') /\ Cardinality(WaitingOnes(kinds)') <= Cardinality(WaitingOnes(kinds))
  BY <1>1, <1>2, FS_Subset
<1> QED BY <1>2, <1>3, FS_CardinalityType

LEMMA CountStays ==
  ASSUME IInv, CountIsRight, NEW t \in Tasks, Only(t), UNCHANGED <<asked, arrived>>,
         listed' \subseteq listed, \A r \in listed' : Waiting(r)' => Waiting(r),
         t = Reader => \/ task'[Reader].at \notin {"count", "register", "list"}
                       \/ /\ task[Reader].at = "register" /\ task'[Reader].at = "list"
                          /\ task'[Reader].for = task[Reader].for
  PROVE  CountIsRight'
<1>0. Reader \in Tasks /\ Capacity \in Nat
  BY DEF Tasks
<1>1. ASSUME NEW kinds
      PROVE  /\ Cardinality(WaitingOnes(kinds)') \in Nat
             /\ Cardinality(WaitingOnes(kinds)') <= Cardinality(WaitingOnes(kinds))
             /\ Cardinality(WaitingOnes(kinds)) \in Nat
  BY Shrinks
<1>2. Cardinality(WaitingOnes(KindNames)') <= Capacity
  BY <1>0, <1>1 DEF CountIsRight
<1>3. CASE t = Reader
  <2>1. ASSUME task'[Reader].at = "list"
        PROVE  /\ task'[Reader].for \notin listed'
               /\ Cardinality(WaitingOnes(KindNames)') < Capacity
    <3>1. task[Reader].at = "register" /\ task'[Reader].for = task[Reader].for
      BY <1>3, <2>1
    <3>2. task[Reader].for \notin listed /\ Cardinality(WaitingOnes(KindNames)) < Capacity
      BY <3>1 DEF CountIsRight
    <3> QED BY <1>0, <1>1, <3>1, <3>2
  <2> QED BY <1>2, <1>3, <2>1 DEF CountIsRight
<1>4. CASE t # Reader
  <2>1. task'[Reader] = task[Reader]
    BY <1>0, <1>4 DEF Only
  <2>2. task[Reader].at = "count" =>
          Cardinality(WaitingOnes(Counted(task[Reader].left))') <= task[Reader].count
    <3>1. task[Reader].count \in Nat
      BY <1>0 DEF IInv, TypeOK, Work
    <3>2. PICK kinds : kinds = Counted(task[Reader].left)
      OBVIOUS
    <3>3. task[Reader].at = "count" => Cardinality(WaitingOnes(kinds)) <= task[Reader].count
      BY <3>2 DEF CountIsRight
    <3>4. task[Reader].at = "count" => Cardinality(WaitingOnes(kinds)') <= task[Reader].count
      BY <1>1, <3>1, <3>3
    <3>5. kinds = Counted(task[Reader].left)'
      BY <2>1, <3>2
    <3> QED BY <2>1, <3>2, <3>4
  <2>3. task[Reader].at \in {"register", "list"} => Cardinality(WaitingOnes(KindNames)') < Capacity
    BY <1>0, <1>1 DEF CountIsRight
  <2> QED BY <1>2, <2>1, <2>2, <2>3 DEF CountIsRight
<1> QED BY <1>3, <1>4

\* Each list counted adds its kind to what was counted.
LEMMA Suffixing ==
  ASSUME NEW left \in Suffixes, left # <<>>
  PROVE  /\ Tail(left) \in Suffixes /\ Head(left) \in KindNames
         /\ Counted(Tail(left)) \subseteq Counted(left) \cup {Head(left)}
<1>1. CASE left = Kinds
  <2>1. Head(left) = "permission" /\ Tail(left) = <<"elicitation", "service">>
    BY <1>1 DEF Kinds
  <2>2. Counted(<<"elicitation", "service">>) = {"permission"}
    BY DEF Counted, Kinds
  <2> QED BY <2>1, <2>2 DEF Suffixes, KindNames
<1>2. CASE left = <<"elicitation", "service">>
  <2>1. Head(left) = "elicitation" /\ Tail(left) = <<"service">>
    BY <1>2
  <2>2. Counted(<<"service">>) = {"permission", "elicitation"} /\ Counted(left) = {"permission"}
    BY <1>2 DEF Counted, Kinds
  <2> QED BY <2>1, <2>2 DEF Suffixes, KindNames
<1>3. CASE left = <<"service">>
  <2>1. Head(left) = "service" /\ Tail(left) = <<>>
    BY <1>3
  <2>2. Counted(<<>>) = KindNames /\ Counted(left) = {"permission", "elicitation"}
    BY <1>3 DEF Counted, Kinds
  <2> QED BY <2>1, <2>2 DEF Suffixes, KindNames
<1> QED BY <1>1, <1>2, <1>3 DEF Suffixes

LEMMA CountingCounts ==
  ASSUME IInv, CountIsRight, Count
  PROVE  CountIsRight'
<1> DEFINE v == task[Reader]
           w == task'[Reader]
<1>1. PICK kind : kind = Head(v.left)
  OBVIOUS
<1>2. PICK n : n = Cardinality(Pruned(kind) \cap Of(kind))
  OBVIOUS
<1>3. /\ Only(Reader) /\ v.at = "count" /\ w.at = "count" /\ v.left # <<>>
      /\ w.for = v.for /\ w.left = Tail(v.left) /\ w.count = v.count + n
  BY <1>1, <1>2, CountParts
<1>4. UNCHANGED <<asked, arrived, state>> /\ listed' = Pruned(kind) /\ Pruned(kind) \subseteq listed
  BY <1>1 DEF Count, Pruned, requests
<1>5. /\ v.left \in Suffixes /\ Tail(v.left) \in Suffixes /\ kind \in KindNames
      /\ Counted(Tail(v.left)) \subseteq Counted(v.left) \cup {kind}
  BY <1>1, <1>3, Suffixing DEF CountIsRight
<1>6. PICK seen, now : seen = Counted(v.left) /\ now = Counted(Tail(v.left))
  OBVIOUS
<1>7. Cardinality(WaitingOnes(seen)) <= v.count /\ v.count \in Nat
  <2>1. Reader \in Tasks
    BY DEF Tasks
  <2> QED BY <1>3, <1>6, <2>1 DEF CountIsRight, IInv, TypeOK, Work
<1>8. Cardinality(WaitingOnes({kind})) <= n /\ n \in Nat
  <2>1. WaitingOnes({kind}) \subseteq Pruned(kind) \cap Of(kind)
    BY DEF WaitingOnes, Pruned, Of, CountIsRight
  <2>2. Pruned(kind) \cap Of(kind) \subseteq listed
    BY <1>4
  <2>3. IsFiniteSet(Pruned(kind) \cap Of(kind)) /\ n \in Nat
    BY <1>2, <2>2, ListsAreFinite
  <2> QED BY <1>2, <2>1, <2>3, FS_Subset
<1>9. Cardinality(WaitingOnes(now)') <= v.count + n
  <2>1. WaitingOnes(now)' \subseteq WaitingOnes(seen) \cup WaitingOnes({kind})
    BY <1>4, <1>5, <1>6 DEF WaitingOnes, Waiting
  <2>2. WaitingOnes(seen) \subseteq listed /\ WaitingOnes({kind}) \subseteq listed
        /\ WaitingOnes(seen) \cap WaitingOnes({kind}) \subseteq listed
    BY DEF WaitingOnes
  <2>3. /\ IsFiniteSet(WaitingOnes(seen)) /\ Cardinality(WaitingOnes(seen)) \in Nat
        /\ IsFiniteSet(WaitingOnes({kind})) /\ Cardinality(WaitingOnes({kind})) \in Nat
        /\ Cardinality(WaitingOnes(seen) \cap WaitingOnes({kind})) \in Nat
    BY <2>2, ListsAreFinite
  <2>4. /\ IsFiniteSet(WaitingOnes(seen) \cup WaitingOnes({kind}))
        /\ Cardinality(WaitingOnes(seen) \cup WaitingOnes({kind}))
             = Cardinality(WaitingOnes(seen)) + Cardinality(WaitingOnes({kind}))
                 - Cardinality(WaitingOnes(seen) \cap WaitingOnes({kind}))
    BY <2>3, FS_Union
  <2>5. /\ Cardinality(WaitingOnes(now)')
             <= Cardinality(WaitingOnes(seen) \cup WaitingOnes({kind}))
        /\ IsFiniteSet(WaitingOnes(now)')
    BY <2>1, <2>4, FS_Subset
  <2>6. Cardinality(WaitingOnes(now)') \in Nat
    BY <2>5, FS_CardinalityType
  <2> QED BY <1>7, <1>8, <2>3, <2>4, <2>5, <2>6
<1>10. (Cardinality(WaitingOnes(Counted(task[Reader].left))) <= task[Reader].count)'
  <2>1. now = Counted(task[Reader].left)'
    BY <1>3, <1>6
  <2> QED BY <1>3, <1>9, <2>1
<1>11. Cardinality(WaitingOnes(KindNames)') <= Capacity
  <2>1. \A r \in listed' : Waiting(r)' => Waiting(r)
    BY <1>4 DEF Waiting
  <2>2. /\ Cardinality(WaitingOnes(KindNames)') \in Nat
        /\ Cardinality(WaitingOnes(KindNames)') <= Cardinality(WaitingOnes(KindNames))
        /\ Cardinality(WaitingOnes(KindNames)) \in Nat
    BY <1>4, <2>1, Shrinks
  <2>3. Cardinality(WaitingOnes(KindNames)) <= Capacity /\ Capacity \in Nat
    BY DEF CountIsRight
  <2> QED BY <2>2, <2>3
<1>12. w.for \notin listed' /\ listed' \subseteq 1..arrived'
  BY <1>3, <1>4 DEF CountIsRight
<1> QED BY <1>3, <1>5, <1>10, <1>11, <1>12 DEF CountIsRight

\* What comes in is not listed yet; nothing was counted, or everything was.
LEMMA ComingCounts ==
  ASSUME IInv, CountIsRight, Arrives \/ Admit
  PROVE  CountIsRight'
<1> DEFINE v == task[Reader]
           w == task'[Reader]
<1>0. Reader \in Tasks /\ Capacity \in Nat
  BY DEF Tasks
<1>1. UNCHANGED <<asked, listed>>
  BY DEF Arrives, Admit, lists
<1>2. CASE Arrives
  <2>1. PICK r : r = arrived + 1
    OBVIOUS
  <2>2. /\ r \in Requests /\ arrived' = r /\ w.for = r
        /\ \/ w.at = "count" /\ w.left = Kinds /\ w.count = 0
           \/ w.at = "show"
        /\ state' = state \/ state' = [state EXCEPT ![r] = "waiting"]
    BY <1>2, <2>1, ArrivesParts
  <2>3. r \notin listed /\ listed \subseteq 1..r /\ arrived \in Nat
    BY <2>1 DEF CountIsRight, IInv, TypeOK
  <2>4. \A s \in listed' : Waiting(s)' => Waiting(s)
    BY <1>1, <2>2, <2>3 DEF Waiting, IInv, TypeOK
  <2>5. /\ Cardinality(WaitingOnes(KindNames)') \in Nat
        /\ Cardinality(WaitingOnes(KindNames)') <= Cardinality(WaitingOnes(KindNames))
        /\ Cardinality(WaitingOnes(KindNames)) \in Nat
    BY <1>1, <2>4, Shrinks
  <2>6. w.at = "count" =>
          /\ w.left \in Suffixes
          /\ (Cardinality(WaitingOnes(Counted(task[Reader].left))) <= task[Reader].count)'
    <3>1. Counted(Kinds) = {}
      BY DEF Counted, Kinds
    <3>2. WaitingOnes({})' = {}
      BY DEF WaitingOnes
    <3>3. Cardinality(WaitingOnes({})') = 0
      BY <3>2, FS_EmptySet
    <3>4. w.at = "count" => Counted(task[Reader].left)' = {} /\ w.count = 0 /\ w.left = Kinds
      BY <2>2, <3>1
    <3>5. w.at = "count" => Cardinality(WaitingOnes(Counted(task[Reader].left))') = w.count
      BY <3>3, <3>4
    <3>6. w.at = "count" => w.count <= w.count
      BY <3>4
    <3> QED BY <3>4, <3>5, <3>6 DEF Suffixes
  <2>7. Cardinality(WaitingOnes(KindNames)') <= Capacity
    BY <1>0, <2>5 DEF CountIsRight
  <2>8. listed' \subseteq 1..arrived' /\ w.for \notin listed'
    BY <1>1, <2>2, <2>3
  <2>9. w.at \notin {"register", "list"}
    BY <2>2
  <2> QED BY <2>6, <2>7, <2>8, <2>9 DEF CountIsRight
<1>3. CASE Admit
  <2>1. PICK r : r = v.for
    OBVIOUS
  <2>2. /\ Only(Reader) /\ v.at = "count" /\ v.left = <<>> /\ w.for = r
        /\ w.at \in {"send", "show", "register", "list"}
        /\ w.at \in {"register", "list"} => ~Saturated
    BY <1>3, <2>1, AdmitParts
  <2>3. /\ arrived' = arrived
        /\ state' = [state EXCEPT ![r] = IF Saturated THEN "refused" ELSE "waiting"]
    BY <1>3, <2>1 DEF Admit
  <2>4. r \notin listed /\ r \in Requests
    BY <2>1, <2>2, AdmittedIsOne DEF CountIsRight, Admitting
  <2>5. \A s \in listed' : Waiting(s)' => Waiting(s)
    BY <1>1, <2>3, <2>4 DEF Waiting, IInv, TypeOK
  <2>6. /\ Cardinality(WaitingOnes(KindNames)') \in Nat
        /\ Cardinality(WaitingOnes(KindNames)') <= Cardinality(WaitingOnes(KindNames))
        /\ Cardinality(WaitingOnes(KindNames)) \in Nat
    BY <1>1, <2>5, Shrinks
  <2>7. Cardinality(WaitingOnes(KindNames)) <= v.count /\ v.count \in Nat
    <3>1. Counted(v.left) = KindNames
      BY <2>2 DEF Counted, Kinds
    <3>2. Cardinality(WaitingOnes(Counted(v.left))) <= v.count
      BY <2>2 DEF CountIsRight
    <3> QED BY <1>0, <3>1, <3>2 DEF IInv, TypeOK, Work
  <2>8. ~Saturated => v.count < Capacity
    BY <1>0, <2>7 DEF Saturated
  <2>9. w.at \in {"register", "list"} => Cardinality(WaitingOnes(KindNames)') < Capacity
    BY <1>0, <2>2, <2>6, <2>7, <2>8
  <2>10. Cardinality(WaitingOnes(KindNames)') <= Capacity
    BY <1>0, <2>6 DEF CountIsRight
  <2>11. listed' \subseteq 1..arrived' /\ r \notin listed'
    BY <1>1, <2>3, <2>4 DEF CountIsRight
  <2> QED BY <2>2, <2>9, <2>10, <2>11 DEF CountIsRight
<1> QED BY <1>2, <1>3

LEMMA ListingCounts ==
  ASSUME IInv, CountIsRight, List
  PROVE  CountIsRight'
<1>0. Reader \in Tasks /\ Capacity \in Nat
  BY DEF Tasks
<1>1. PICK r : r = task[Reader].for
  OBVIOUS
<1>2. Only(Reader) /\ task[Reader].at = "list" /\ task'[Reader].at = "show"
  BY StepsParts
<1>3. UNCHANGED <<asked, arrived, state>> /\ listed' = listed \cup {r}
  BY <1>1 DEF List, requests
<1>4. r \in 1..arrived
  BY <1>1, <1>2, AdmittedIsOne DEF Admitting
<1>5. Cardinality(WaitingOnes(KindNames)) < Capacity
  BY <1>2 DEF CountIsRight
<1>6. WaitingOnes(KindNames)' \subseteq WaitingOnes(KindNames) \cup {r}
  BY <1>3 DEF WaitingOnes, Waiting
<1>7. WaitingOnes(KindNames) \subseteq listed
  BY DEF WaitingOnes
<1>8. IsFiniteSet(WaitingOnes(KindNames)) /\ Cardinality(WaitingOnes(KindNames)) \in Nat
  BY <1>7, ListsAreFinite
<1>9. /\ IsFiniteSet(WaitingOnes(KindNames) \cup {r})
      /\ Cardinality(WaitingOnes(KindNames) \cup {r}) <= Cardinality(WaitingOnes(KindNames)) + 1
      /\ Cardinality(WaitingOnes(KindNames) \cup {r}) \in Nat
  <2>1. PICK S : S = WaitingOnes(KindNames)
    OBVIOUS
  <2>2. /\ IsFiniteSet(S \cup {r})
        /\ Cardinality(S \cup {r}) = IF r \in S THEN Cardinality(S) ELSE Cardinality(S) + 1
    BY <1>8, <2>1, FS_AddElement
  <2> QED BY <1>8, <2>1, <2>2
<1>10. IsFiniteSet(WaitingOnes(KindNames)')
       /\ Cardinality(WaitingOnes(KindNames)') <= Cardinality(WaitingOnes(KindNames) \cup {r})
  BY <1>6, <1>9, FS_Subset
<1>11. Cardinality(WaitingOnes(KindNames)') \in Nat
  BY <1>10, FS_CardinalityType
<1>12. Cardinality(WaitingOnes(KindNames)') <= Capacity
  BY <1>0, <1>5, <1>8, <1>9, <1>10, <1>11
<1>13. listed' \subseteq 1..arrived'
  BY <1>3, <1>4 DEF CountIsRight
<1> QED BY <1>2, <1>12, <1>13 DEF CountIsRight

LEMMA OtherCounts ==
  ASSUME IInv, CountIsRight, NEW t \in Tasks,
         \/ t = Reader /\ (TurnSettles \/ Disconnected \/ Register \/ Show \/ Credits \/ Clear)
         \/ t = Reader /\ (Uncredit \/ \E r \in Requests : Withdraws(r))
         \/ \E r \in Requests : t \in Clickers /\ Clicks(t, r)
         \/ \E all \in BOOLEAN : t \in Leavers /\ AnswersCancelled(t, all)
         \/ TaskGoesOn(t) \/ Send(t)
  PROVE  CountIsRight'
<1> DEFINE v == task[t]
           w == task'[t]
           Fine == /\ Only(t)
                   /\ \/ w.at \notin {"count", "register", "list"}
                      \/ v.at = "register" /\ w.at = "list" /\ w.for = v.for
<1>1. UNCHANGED <<asked, arrived>>
  BY DEF TurnSettles, Disconnected, Register, Show, Credits, Clear, Uncredit, Withdraws, Clicks,
         AnswersCancelled, TaskGoesOn, Claim, Send, SendFails, Settle, Fail, Take, Abandon, requests
<1>2. Fine
  <2>1. CASE t = Reader /\ (TurnSettles \/ Disconnected \/ Register \/ Show \/ Credits \/ Clear)
    BY <2>1, GivingUpParts, StepsParts, ShowParts DEF SameBut
  <2>2. CASE \/ t = Reader /\ (Uncredit \/ \E r \in Requests : Withdraws(r))
             \/ \E r \in Requests : t \in Clickers /\ Clicks(t, r)
             \/ \E all \in BOOLEAN : t \in Leavers /\ AnswersCancelled(t, all)
    BY <2>2, SetsOutParts
  <2>3. CASE Send(t) \/ SendFails(t)
    BY <2>3, SendParts
  <2>4. CASE Settle(t) \/ Fail(t) \/ Take(t)
    BY <2>4, SettleParts, FailParts, TakeParts DEF Follows
  <2>5. ASSUME NEW r \in Requests, Claim(t, r) PROVE Fine
    BY <2>5, ClaimParts DEF Follows
  <2>6. ASSUME NEW r \in Requests, Abandon(t, r) PROVE Fine
    BY <2>6, AbandonParts DEF Follows
  <2> QED BY <2>1, <2>2, <2>3, <2>4, <2>5, <2>6 DEF TaskGoesOn
<1>3. listed' \subseteq listed
  <2>1. CASE Take(t)
    BY <2>1, TakeParts
  <2>2. ASSUME NEW r \in Requests, Withdraws(r) PROVE listed' \subseteq listed
    BY <2>2 DEF Withdraws
  <2>3. CASE TurnSettles \/ Disconnected \/ Register \/ Show \/ Credits \/ Clear \/ Uncredit
             \/ Send(t) \/ SendFails(t) \/ Settle(t) \/ Fail(t)
    BY <2>3 DEF TurnSettles, Disconnected, Register, Show, Credits, Clear, Uncredit, Send,
                SendFails, Settle, Fail, lists
  <2>4. ASSUME NEW r \in Requests, Clicks(t, r) \/ Claim(t, r) \/ Abandon(t, r)
        PROVE  listed' \subseteq listed
    BY <2>4 DEF Clicks, Claim, Abandon, lists
  <2>5. ASSUME NEW all \in BOOLEAN, AnswersCancelled(t, all) PROVE listed' \subseteq listed
    BY <2>5 DEF AnswersCancelled, lists
  <2> QED BY <2>1, <2>2, <2>3, <2>4, <2>5 DEF TaskGoesOn
<1>4. \A r \in listed' : Waiting(r)' => Waiting(r)
  <2> SUFFICES \A r \in Requests : Waiting(r)' => Waiting(r)
    BY <1>3 DEF IInv, TypeOK
  <2>1. CASE Settle(t)
    <3>1. v.for \in Requests /\ v.as \in Choices /\ state' = [state EXCEPT ![v.for] = Stands(v.as)]
      BY <2>1, SettleParts
    <3>2. Stands(v.as) # "waiting"
      BY <3>1 DEF Stands, Choices, Answers
    <3> QED BY <3>1, <3>2 DEF Waiting, IInv, TypeOK
  <2>2. CASE Fail(t)
    BY <2>2, FailParts DEF Waiting, IInv, TypeOK
  <2>3. ASSUME NEW r \in Requests, Claim(t, r)
        PROVE  \A s \in Requests : Waiting(s)' => Waiting(s)
    BY <2>3 DEF Claim, Claims, Waiting, IInv, TypeOK
  <2>4. ASSUME NEW r \in Requests, Abandon(t, r)
        PROVE  \A s \in Requests : Waiting(s)' => Waiting(s)
    BY <2>4 DEF Abandon, Waiting, IInv, TypeOK
  <2>5. ASSUME state' = state
        PROVE  \A s \in Requests : Waiting(s)' => Waiting(s)
    BY <2>5 DEF Waiting
  <2>6. TurnSettles \/ Disconnected \/ Register \/ Show \/ Credits => state' = state
    BY DEF TurnSettles, Disconnected, Register, Show, Credits, requests
  <2>7. Clear \/ Uncredit \/ Send(t) \/ SendFails(t) \/ Take(t) => state' = state
    BY DEF Clear, Uncredit, Send, SendFails, Take, requests
  <2>8. \A r \in Requests, all \in BOOLEAN :
          Withdraws(r) \/ Clicks(t, r) \/ AnswersCancelled(t, all) => state' = state
    BY DEF Withdraws, Clicks, AnswersCancelled, requests
  <2> QED BY <2>1, <2>2, <2>3, <2>4, <2>5, <2>6, <2>7, <2>8 DEF TaskGoesOn
<1> QED BY <1>1, <1>2, <1>3, <1>4, CountStays

LEMMA CountsKeep == IInv /\ CountIsRight /\ [Next]_vars => CountIsRight'
<1> SUFFICES ASSUME IInv, CountIsRight, [Next]_vars PROVE CountIsRight'
  OBVIOUS
<1>0. Reader \in Tasks /\ Clickers \cup Leavers \subseteq Tasks
  BY DEF Tasks, Users
<1>1. CASE Arrives \/ ReaderGoesOn \/ TurnSettles \/ Disconnected
  BY <1>0, <1>1, ComingCounts, CountingCounts, ListingCounts, OtherCounts DEF ReaderGoesOn
<1>2. ASSUME NEW r \in Requests, Withdraws(r) \/ \E u \in Clickers : Clicks(u, r)
      PROVE  CountIsRight'
  BY <1>0, <1>2, OtherCounts
<1>3. ASSUME NEW u \in Leavers, NEW all \in BOOLEAN, AnswersCancelled(u, all)
      PROVE  CountIsRight'
  BY <1>0, <1>3, OtherCounts
<1>4. ASSUME NEW t \in Tasks, TaskGoesOn(t) \/ Send(t) PROVE CountIsRight'
  BY <1>4, OtherCounts
<1>5. CASE StopsTaking \/ (\E url \in Urls : Complete({url})) \/ UNCHANGED vars
  <2>1. UNCHANGED <<asked, arrived, state, listed, task>>
    BY <1>5 DEF StopsTaking, Complete, vars, requests, lists
  <2>2. \A kinds : WaitingOnes(kinds)' = WaitingOnes(kinds)
    BY <2>1 DEF WaitingOnes, Waiting
  <2> QED BY <2>1, <2>2 DEF CountIsRight
<1> QED BY <1>1, <1>2, <1>3, <1>4, <1>5 DEF Next

(***************************************************************************)
(* Whose a request is before it is listed or shown.                        *)
(***************************************************************************)
LEMMA FreshStays ==
  ASSUME IInv, FreshIsNobodys, NEW t \in Tasks, Only(t), UNCHANGED arrived,
         shown' \subseteq 1..arrived, task'[t].taken \subseteq 1..arrived,
         \/ t = Reader /\ task'[t].at \notin {"count", "register"}
         \/ /\ t # Reader /\ shown' = shown
            /\ task[Reader].at \in {"count", "register"} => task[Reader].for \notin task'[t].taken
            /\ task[Reader].at = "register" => state'[task[Reader].for] = state[task[Reader].for]
  PROVE  FreshIsNobodys'
<1>0. Reader \in Tasks
  BY DEF Tasks
<1>1. \A u \in Tasks : task'[u].taken \subseteq 1..arrived'
  BY DEF FreshIsNobodys, Only
<1>2. CASE t = Reader
  BY <1>1, <1>2 DEF FreshIsNobodys
<1>3. CASE t # Reader
  <2>1. task'[Reader] = task[Reader]
    BY <1>0, <1>3 DEF Only
  <2>2. task[Reader].at \in {"count", "register"} =>
          \A u \in Tasks : task[Reader].for \notin task'[u].taken
    BY <1>3 DEF FreshIsNobodys, Only
  <2> QED BY <1>1, <1>3, <2>1, <2>2 DEF FreshIsNobodys
<1> QED BY <1>2, <1>3

\* Whoever goes on keeps to what it took, or takes what is listed.
LEMMA TakenParts ==
  ASSUME IInv, NEW t \in Tasks, TaskGoesOn(t) \/ Send(t)
  PROVE  /\ Only(t) /\ task'[t].at \notin {"count", "register"}
         /\ task'[t].taken \subseteq task[t].taken \/ task'[t].taken \subseteq listed
<1> DEFINE v == task[t]
           w == task'[t]
           Fine == /\ Only(t) /\ w.at \notin {"count", "register"}
                   /\ w.taken \subseteq v.taken \/ w.taken \subseteq listed
<1>1. CASE Send(t) \/ SendFails(t)
  BY <1>1, SendParts DEF SameBut
<1>2. CASE Settle(t)
  BY <1>2, SettleParts DEF Follows
<1>3. CASE Fail(t)
  BY <1>3, FailParts DEF Follows, SameBut
<1>4. CASE Take(t)
  BY <1>4, TakeParts DEF Follows
<1>5. ASSUME NEW r \in Requests, Claim(t, r) PROVE Fine
  <2>1. v \in Work
    BY DEF IInv, TypeOK
  <2>2. Picks(v, r).taken = v.taken \ {r}
    BY <2>1, PicksParts
  <2> QED BY <1>5, <2>2, ClaimParts, ZenonT(30) DEF Follows
<1>6. ASSUME NEW r \in Requests, Abandon(t, r) PROVE Fine
  <2>1. PICK p \in Work : Follows(w, p) /\ p.taken = v.taken \ {r}
    BY <1>6, AbandonParts
  <2>2. Only(t)
    BY <1>6, AbandonParts
  <2> QED BY <2>1, <2>2 DEF Follows
<1> QED BY <1>1, <1>2, <1>3, <1>4, <1>5, <1>6 DEF TaskGoesOn

LEMMA AnsweringFresh ==
  ASSUME IInv, CountIsRight, FreshIsNobodys, NEW t \in Tasks, TaskGoesOn(t) \/ Send(t)
  PROVE  FreshIsNobodys'
<1> DEFINE v == task[Reader]
<1>1. UNCHANGED <<arrived, shown>>
  BY DEF TaskGoesOn, Claim, Abandon, SendFails, Settle, Fail, Take, Send, requests, lists
<1>2. /\ Only(t) /\ task'[t].at \notin {"count", "register"}
      /\ task'[t].taken \subseteq task[t].taken \/ task'[t].taken \subseteq listed
  BY TakenParts
<1>3. task'[t].taken \subseteq 1..arrived /\ shown' \subseteq 1..arrived
  BY <1>1, <1>2 DEF CountIsRight, FreshIsNobodys
<1>4. v.at \in {"count", "register"} => v.for \notin task'[t].taken
  BY <1>2 DEF CountIsRight, FreshIsNobodys
<1>5. v.at = "register" => state'[v.for] = state[v.for]
  <2> SUFFICES ASSUME v.at = "register" PROVE state'[v.for] = state[v.for]
    OBVIOUS
  <2>1. state[v.for] = "waiting" /\ v.for \notin task[t].taken /\ v.for \in Requests
    BY AdmittedIsOne DEF FreshIsNobodys, Admitting
  <2>2. CASE Settle(t)
    BY <2>1, <2>2, SettleParts DEF IInv, TypeOK
  <2>3. CASE Fail(t)
    <3>1. state[task[t].for] = "answering" /\ state' = [state EXCEPT ![task[t].for] = "abandoned"]
      BY <2>3, FailParts, OwnerHas DEF Owning, Choices
    <3> QED BY <2>1, <3>1 DEF IInv, TypeOK
  <2>4. ASSUME NEW r \in Requests, Claim(t, r) PROVE state'[v.for] = state[v.for]
    <3>1. r \in task[t].taken /\ (state' = state \/ state' = [state EXCEPT ![r] = "answering"])
      BY <2>4, ClaimParts
    <3> QED BY <2>1, <3>1 DEF IInv, TypeOK
  <2>5. ASSUME NEW r \in Requests, Abandon(t, r) PROVE state'[v.for] = state[v.for]
    <3>1. r \in task[t].taken /\ (state' = state \/ state' = [state EXCEPT ![r] = "abandoned"])
      BY <2>5, AbandonParts
    <3> QED BY <2>1, <3>1 DEF IInv, TypeOK
  <2>6. CASE SendFails(t) \/ Take(t) \/ Send(t)
    BY <2>6 DEF SendFails, Take, Send, requests
  <2> QED BY <2>2, <2>3, <2>4, <2>5, <2>6 DEF TaskGoesOn
<1> QED BY <1>1, <1>2, <1>3, <1>4, <1>5, FreshStays

LEMMA ComingFresh ==
  ASSUME IInv, FreshIsNobodys, Arrives \/ Count \/ Admit
  PROVE  FreshIsNobodys'
<1> DEFINE v == task[Reader]
           w == task'[Reader]
<1>0. Reader \in Tasks /\ shown' = shown
  BY DEF Tasks, Arrives, Count, Admit, lists
<1>1. CASE Arrives
  <2>1. PICK r : r = arrived + 1
    OBVIOUS
  <2>2. /\ Only(Reader) /\ arrived' = r /\ w.for = r /\ w.taken = {} /\ w.at # "register"
    BY <1>1, <2>1, ArrivesParts
  <2>3. r \notin 1..arrived /\ 1..arrived \subseteq 1..arrived'
    BY <2>1, <2>2 DEF IInv, TypeOK
  <2>4. \A u \in Tasks : task'[u].taken \subseteq 1..arrived
    BY <2>2 DEF FreshIsNobodys, Only
  <2> QED BY <1>0, <2>2, <2>3, <2>4 DEF FreshIsNobodys
<1>2. CASE Count \/ Admit
  <2>1. /\ Only(Reader) /\ v.at = "count" /\ w.for = v.for /\ w.taken \subseteq v.taken
    BY <1>2, CountParts, AdmitParts
  <2>2. arrived' = arrived
    BY <1>2 DEF Count, Admit, requests
  <2>3. \A u \in Tasks : task'[u].taken \subseteq 1..arrived /\ v.for \notin task'[u].taken
    BY <1>0, <2>1 DEF FreshIsNobodys, Only
  <2>4. w.at = "register" => state'[v.for] = "waiting"
    <3>1. CASE Count
      BY <3>1, CountParts
    <3>2. CASE Admit
      <4>1. v.for \in Requests
        BY <2>1, AdmittedIsOne DEF Admitting
      <4>2. w.at = "register" => ~Saturated
        BY <3>2, AdmitParts
      <4>3. state' = [state EXCEPT ![v.for] = IF Saturated THEN "refused" ELSE "waiting"]
        BY <3>2 DEF Admit
      <4> QED BY <4>1, <4>2, <4>3 DEF IInv, TypeOK
    <3> QED BY <1>2, <3>1, <3>2
  <2> QED BY <1>0, <2>1, <2>2, <2>3, <2>4 DEF FreshIsNobodys
<1> QED BY <1>1, <1>2

LEMMA ReadingFresh ==
  ASSUME IInv, FreshIsNobodys,
         TurnSettles \/ Disconnected \/ Register \/ List \/ Show \/ Credits \/ Uncredit \/ Clear
  PROVE  FreshIsNobodys'
<1> DEFINE v == task[Reader]
           w == task'[Reader]
<1>0. Reader \in Tasks /\ arrived' = arrived
  BY DEF Tasks, TurnSettles, Disconnected, Register, List, Show, Credits, Uncredit, Clear, requests
<1>1. CASE Show
  <2>1. v.at = "show" /\ Only(Reader) /\ w.taken \subseteq {v.for} /\ w.at \notin {"count", "register"}
    BY <1>1, ShowParts
  <2>2. shown' = shown \cup {v.for} /\ v.for \in 1..arrived
    BY <1>1, <2>1, AdmittedIsOne DEF Show, Admitting
  <2> QED BY <1>0, <2>1, <2>2, FreshStays DEF FreshIsNobodys
<1>2. CASE TurnSettles \/ Disconnected \/ Register \/ List \/ Credits \/ Uncredit \/ Clear
  <2>1. Only(Reader) /\ w.taken \subseteq v.taken /\ w.at \notin {"count", "register"}
    <3>1. CASE TurnSettles \/ Disconnected
      BY <3>1, GivingUpParts
    <3>2. CASE Register \/ List \/ Credits \/ Clear
      BY <3>2, StepsParts DEF SameBut
    <3>3. CASE Uncredit
      <4>1. Works(Reader, Idle)
        BY <3>3 DEF Uncredit
      <4> QED BY <1>0, <4>1, RestedParts
    <3> QED BY <1>2, <3>1, <3>2, <3>3
  <2>2. shown' = shown
    BY <1>2 DEF TurnSettles, Disconnected, Register, List, Credits, Uncredit, Clear, lists
  <2> QED BY <1>0, <2>1, <2>2, FreshStays DEF FreshIsNobodys
<1> QED BY <1>1, <1>2

LEMMA SettingOutFresh ==
  ASSUME IInv, FreshIsNobodys, NEW t \in Tasks,
         \/ \E r \in Requests : t = Reader /\ Withdraws(r)
         \/ \E r \in Requests : t \in Clickers /\ Clicks(t, r)
         \/ \E all \in BOOLEAN : t \in Leavers /\ AnswersCancelled(t, all)
  PROVE  FreshIsNobodys'
<1>1. ASSUME NEW r \in Requests, t = Reader, Withdraws(r) PROVE FreshIsNobodys'
  <2>1. UNCHANGED <<arrived, shown>> /\ r \in 1..arrived
    BY <1>1 DEF Withdraws, requests, IInv, TypeOK, Requests
  <2>2. Only(t) /\ task'[t].at \notin {"count", "register"} /\ task'[t].taken \subseteq {r}
    <3>1. CASE r \in listed'
      <4>1. Works(t, Begin("claim", "withdrawn", <<>>, {r}, FALSE))
        BY <1>1, <3>1 DEF Withdraws
      <4>2. Only(t) /\ task'[t].at = "claim" /\ task'[t].taken = {r}
        BY <4>1, BegunParts
      <4> QED BY <4>2
    <3>2. CASE r \notin listed'
      <4>1. Works(t, Idle)
        BY <1>1, <3>2 DEF Withdraws
      <4> QED BY <4>1, RestedParts
    <3> QED BY <3>1, <3>2
  <2> QED BY <1>1, <2>1, <2>2, FreshStays DEF FreshIsNobodys
<1>2. ASSUME NEW r \in Requests, t \in Clickers, Clicks(t, r) PROVE FreshIsNobodys'
  <2>1. UNCHANGED <<arrived, shown, state>> /\ r \in shown /\ t # Reader
    BY <1>2 DEF Clicks, requests, lists, Users
  <2>2. PICK as \in {"accepted", "declined", "cancelled"} :
          Works(t, Begin("claim", as, <<>>, {r}, FALSE))
    BY <1>2 DEF Clicks
  <2>3. Only(t) /\ task'[t].taken = {r}
    BY <2>2, BegunParts
  <2> QED BY <2>1, <2>3, FreshStays DEF FreshIsNobodys
<1>3. ASSUME NEW all \in BOOLEAN, t \in Leavers, AnswersCancelled(t, all) PROVE FreshIsNobodys'
  <2>1. UNCHANGED <<arrived, shown, state>> /\ t # Reader
    BY <1>3 DEF AnswersCancelled, requests, lists, Users
  <2>2. Works(t, Begin("take", "cancelled", Kinds, {}, all))
    BY <1>3 DEF AnswersCancelled
  <2>3. Only(t) /\ task'[t].taken = {}
    BY <2>2, BegunParts
  <2> QED BY <2>1, <2>3, FreshStays DEF FreshIsNobodys
<1> QED BY <1>1, <1>2, <1>3

LEMMA FreshKeeps == IInv /\ CountIsRight /\ FreshIsNobodys /\ [Next]_vars => FreshIsNobodys'
<1> SUFFICES ASSUME IInv, CountIsRight, FreshIsNobodys, [Next]_vars PROVE FreshIsNobodys'
  OBVIOUS
<1>0. Reader \in Tasks /\ Clickers \cup Leavers \subseteq Tasks
  BY DEF Tasks, Users
<1>1. CASE Arrives \/ ReaderGoesOn \/ TurnSettles \/ Disconnected
  BY <1>1, ComingFresh, ReadingFresh DEF ReaderGoesOn
<1>2. ASSUME NEW r \in Requests, Withdraws(r) \/ \E u \in Clickers : Clicks(u, r)
      PROVE  FreshIsNobodys'
  BY <1>0, <1>2, SettingOutFresh
<1>3. ASSUME NEW u \in Leavers, NEW all \in BOOLEAN, AnswersCancelled(u, all)
      PROVE  FreshIsNobodys'
  BY <1>0, <1>3, SettingOutFresh
<1>4. ASSUME NEW t \in Tasks, TaskGoesOn(t) \/ Send(t) PROVE FreshIsNobodys'
  BY <1>4, AnsweringFresh
<1>5. CASE StopsTaking \/ (\E url \in Urls : Complete({url})) \/ UNCHANGED vars
  <2>1. UNCHANGED <<arrived, state, shown, task>>
    BY <1>5 DEF StopsTaking, Complete, vars, requests, lists
  <2> QED BY <2>1 DEF FreshIsNobodys
<1> QED BY <1>1, <1>2, <1>3, <1>4, <1>5 DEF Next

(***************************************************************************)
(* What a caller reads of the lists.                                       *)
(***************************************************************************)
LEMMA InitLInv == Init => LInv
<1> SUFFICES ASSUME Init PROVE LInv
  OBVIOUS
<1>1. /\ asked \in Asks /\ arrived = 0 /\ listed = {} /\ shown = {} /\ credited = {}
      /\ urls = {} /\ completed = {} /\ dropped = 0 /\ closed = FALSE /\ taking = TRUE
      /\ \A r \in Requests : state[r] = "none" /\ told[r] = <<>>
      /\ \A t \in Tasks : task[t] = Idle
  BY DEF Init
<1>2. /\ Idle.at = "idle" /\ Idle.as = "none" /\ Idle.taken = {} /\ Idle.left = <<>>
      /\ Idle.for = 0 /\ Idle.all = FALSE
  BY DEF Idle, Begin
<1>3. Reader \in Tasks
  BY DEF Tasks
<1>4. EndsAreRight
  BY <1>1, <1>2, <1>3 DEF EndsAreRight, AbandonersAreRight, Right, ClosedIsLeaving, CallsOutliveTurns
<1>5. CreditIsRight
  BY <1>1, <1>2, <1>3 DEF CreditIsRight, PickersArePicking, ToldIsCredited, CreditedIsTold,
                         NewIsUntold, Admitting
<1>6. UrlsAreRight
  BY <1>1, <1>2, <1>3 DEF UrlsAreRight, ElicitedIsAsked, GoingOnIsOutstanding, MayGoOn
<1>7. CountIsRight
  <2>1. WaitingOnes(KindNames) = {}
    BY <1>1 DEF WaitingOnes
  <2>2. Cardinality(WaitingOnes(KindNames)) = 0
    BY <2>1, FS_EmptySet
  <2> QED BY <1>1, <1>2, <1>3, <2>2 DEF CountIsRight
<1>8. FreshIsNobodys
  BY <1>1, <1>2, <1>3 DEF FreshIsNobodys
<1> QED BY <1>4, <1>5, <1>6, <1>7, <1>8 DEF LInv

LEMMA ListsKeep == IInv /\ LInv /\ [Next]_vars => LInv'
  BY EndsKeep, CreditsKeep, UrlsKeep, CountsKeep, FreshKeeps DEF LInv

LEMMA ListsFollow == IInv /\ LInv => ListsAreHonest
<1> SUFFICES ASSUME IInv, LInv PROVE ListsAreHonest
  OBVIOUS
<1>1. PolicyIsCredited
  BY DEF LInv, CreditIsRight, ToldIsCredited, CreditedIsTold, PolicyIsCredited
<1>2. ListsAreBounded
  <2>1. \A r \in listed : asked[r].kind \in KindNames
    BY DEF IInv, TypeOK, KindNames
  <2>2. {r \in listed : Waiting(r)} = WaitingOnes(KindNames)
    BY <2>1 DEF WaitingOnes
  <2> QED BY <2>2 DEF LInv, CountIsRight, ListsAreBounded
<1>3. ConsentKeepsTheId
  <2> SUFFICES ASSUME ~closed, NEW r \in Requests, state[r] = "accepted", asked[r].url # {},
                      r \notin completed
               PROVE  r \in urls
    BY DEF LInv, UrlsAreRight, ElicitedIsAsked, ConsentKeepsTheId
  <2>1. ~Registering(r)
    BY DEF LInv, FreshIsNobodys, Registering
  <2> QED BY <2>1 DEF LInv, UrlsAreRight, GoingOnIsOutstanding, MayGoOn
<1> QED BY <1>1, <1>2, <1>3 DEF IInv, LInv, EndsAreRight, ListsAreHonest

\* Whatever policy, user, cancel, withdrawal, completion and teardown interleave
\* to: a policy's answer is credited before it can be read and no other is, no
\* more requests wait in the lists than the capacity, a URL elicitation that was
\* consented to stays outstanding until it is finished, and one scoped to a call
\* outlives its turn (permission.rs:164, requests.rs:228, elicitation.rs:446,
\* blocking.rs:160).
THEOREM HonestLists == Spec => []ListsAreHonest
<1>1. Init => IInv /\ LInv
  BY InitIInv, InitLInv
<1>2. IInv /\ LInv /\ [Next]_vars => IInv' /\ LInv'
  BY NextKeeps, ListsKeep
<1>3. IInv /\ LInv => ListsAreHonest
  BY ListsFollow
<1> QED BY <1>1, <1>2, <1>3, PTL DEF Spec
=============================================================================
