-------------------------- MODULE InspectorProofs --------------------------
(***************************************************************************)
(* What holds of the inspector's one connection (Inspector), for any number*)
(* of connections and frames (crates/core/src/inspector/mod.rs, reader.rs).*)
(***************************************************************************)
EXTENDS Inspector, TLAPS

(***************************************************************************)
(* The invariant.                                                          *)
(***************************************************************************)
Said(g, kind) == \E i \in DOMAIN diags[g] : diags[g][i] = kind
Published(g) == reader[g].at # "none"
Between == {"greet", "publish"}

\* What may be left to do of letting a connection go.
AfterLog == <<"status", "push", "wake", "cancel">>
AfterStatus == <<"push", "wake", "cancel">>
AfterPush == <<"wake", "cancel">>
AfterWake == <<"cancel">>
Whole == <<"log", "status", "push", "wake", "cancel">>
Rests == {Whole, AfterLog, AfterStatus, AfterPush, AfterWake}

\* Whoever holds the lock is letting go of the connection held, which is the
\* last one made; a reader only of its own, and with its evidence logged first.
LockIsSound ==
  /\ Free => lock = Unlocked
  /\ ~Free =>
       /\ lock.left \in Rests /\ lock.gen \in Gens /\ lock.gen = latest
       /\ live = IF lock.left \in {Whole, AfterLog} THEN lock.gen ELSE 0
       /\ lock.by = Window => /\ lock.to = "disconnected" /\ lock.left # Whole
                              /\ ui \in {"idle", "spawn", "kill"}
       /\ lock.by # Window =>
            /\ lock.by = lock.gen /\ ~lock.polite /\ lock.kind # "stopped" /\ ui = "idle"
            /\ lock.to = IF lock.kind = "spawn" THEN "failed" ELSE "lost"
            /\ lock.left # Whole => <<lock.by, lock.kind>> \in log

\* The window is between connections only while none is held, and a connection
\* made has a reader as soon as it is published.
WindowFits ==
  /\ ui \in Between \cup {"closed"} => Free /\ live = 0
  /\ ui \in {"spawn", "kill"} /\ Free => live = 0
  /\ ui \in Between \cup {"spawn"} => launch = "ready"
  /\ launch \in {"waiting", "ready"} /\ ui \notin Between => latest < MaxGens
  /\ ui \in Between => latest # 0
  /\ ui = "closed" => stopping = {}
  /\ live \in {0, latest}
  /\ \A g \in Gens : Published(g) <=> g <= latest /\ ~(g = latest /\ ui \in Between)

\* Only the connection held, or the one being let go, still owns the stores; the
\* others were cancelled, and nobody is woken but on the way there.
LettingFits ==
  /\ live \notin cancelled
  /\ ~Free => lock.gen \notin cancelled
  /\ \A g \in Gens :
       /\ g \in cancelled => Published(g)
       /\ Published(g) /\ g # live => g \in cancelled \/ (~Free /\ lock.gen = g)
       /\ g \in woken <=> g \in cancelled \/ (~Free /\ lock.gen = g /\ lock.left = AfterWake)
       /\ g \in graceful =>
            g \in cancelled \/ (/\ ~Free /\ lock.gen = g /\ lock.polite
                                /\ lock.left \in {AfterPush, AfterWake})
  /\ ~Free /\ lock.polite /\ lock.left \in {AfterPush, AfterWake} => lock.gen \in graceful
  /\ stopping \subseteq graceful

\* An agent that runs is on its way to be held, held, being let go, or listed
\* as still stopping.
AgentsFit ==
  \A g \in Gens :
    /\ agent[g] = "none" <=> g > latest
    /\ g \in over => agent[g] = "gone"
    /\ g \in woken /\ g \notin graceful => agent[g] = "gone"
    /\ agent[g] = "running" =>
         \/ g = latest /\ ui \in Between
         \/ g = live
         \/ /\ ~Free /\ lock.gen = g
            /\ lock.left = AfterStatus \/ (lock.left = AfterPush /\ ~lock.polite)
         \/ g \in stopping

\* A reader that stops listening unreleased has an agent that is over.
ReadersFit ==
  \A g \in Gens :
    /\ reader[g].released => g \in cancelled
    /\ reader[g].at = "after" /\ ~reader[g].released => g \in over
    /\ reader[g].exit \/ Said(g, "exited") => g \in over
    /\ Published(g) /\ ~reader[g].lines => g \in over
    /\ Said(g, "stopped") => g \in woken
    /\ ~Published(g) => reader[g] = Unborn

\* No frame is lost while the connection is owned, and none is outstanding once
\* its exit is told.
InHand(g) == IF reader[g].hand THEN 1 ELSE 0
Told(g) == <<g, "exited">> \in log \/ (lock.by = g /\ lock.kind = "exited")
TailFits ==
  \A g \in Gens :
    /\ g \notin cancelled => kept[g] + frames[g] + InHand(g) = made[g]
    /\ Published(g) /\ g \notin cancelled /\ ~reader[g].receiving =>
         ~reader[g].hand /\ frames[g] = 0 /\ g \in eof
    /\ Told(g) => kept[g] = made[g] /\ ~reader[g].hand /\ frames[g] = 0 /\ g \in eof

\* Once the status was set it says connected again only of another connection.
StatusFits ==
  /\ latest \in woken => status # "connected"
  /\ ~Free /\ lock.left \in {AfterStatus, AfterPush, AfterWake} => status # "connected"

IInv ==
  /\ TypeOK /\ LockIsSound /\ WindowFits /\ LettingFits /\ AgentsFit /\ ReadersFit
  /\ TailFits /\ StatusFits

(***************************************************************************)
(* The lock: who takes it for what, and how it goes on.                    *)
(***************************************************************************)
LEMMA RestsDiffer ==
  /\ Whole # AfterLog /\ Whole # AfterStatus /\ Whole # AfterPush /\ Whole # AfterWake
  /\ AfterLog # AfterStatus /\ AfterLog # AfterPush /\ AfterLog # AfterWake
  /\ AfterStatus # AfterPush /\ AfterStatus # AfterWake /\ AfterPush # AfterWake
  /\ Rests = {Whole, AfterLog, AfterStatus, AfterPush, AfterWake}
  BY DEF Whole, AfterLog, AfterStatus, AfterPush, AfterWake, Rests

\* The window lets go of the connection held, the reader tells of its own, the
\* holder goes on, and the last step frees the lock.
Starts(polite) ==
  /\ Free /\ live \in Gens
  /\ lock' = [by |-> Window, gen |-> live, kind |-> "exited", to |-> "disconnected",
              polite |-> polite, left |-> AfterLog]
Tells(g, kind) ==
  /\ Free /\ live = g
  /\ lock' = [by |-> g, gen |-> g, kind |-> kind, polite |-> FALSE,
              to |-> IF kind = "spawn" THEN "failed" ELSE "lost", left |-> Whole]
GoesOn(from, to) == ~Free /\ lock.left = from /\ lock' = [lock EXCEPT !.left = to]
LetsGo == ~Free /\ lock.left = AfterWake /\ lock' = Unlocked

LEMMA Numbers ==
  /\ MaxGens \in Nat /\ Window \in Nat /\ Window \notin Gens /\ 0 \notin Gens /\ Window # 0
  /\ \A g \in Gens : g \in Nat /\ g # 0 /\ g # Window /\ 1 <= g /\ g <= MaxGens
  BY InspectorAssumption DEF Gens, Window

LEMMA HeldIsTyped ==
  ASSUME IInv
  PROVE  /\ lock \in [by : 0..Window, gen : 0..MaxGens, kind : Kinds, polite : BOOLEAN,
                      to : {"disconnected", "lost", "failed"},
                      left : Seq({"log", "status", "push", "wake", "cancel"})]
         /\ ~Free => lock.left \in Rests
         /\ Free => lock.left = <<>>
  BY DEF IInv, TypeOK, LockIsSound, Unlocked

LEMMA LockStepsAre ==
  ASSUME IInv
  PROVE  /\ Logs => GoesOn(Whole, AfterLog)
         /\ SetsStatus => GoesOn(AfterLog, AfterStatus)
         /\ Pushes => GoesOn(AfterStatus, AfterPush)
         /\ Wakes => GoesOn(AfterPush, AfterWake)
         /\ Cancels => LetsGo
<1>1. ASSUME NEW step, Did(step)
      PROVE  /\ ~Free /\ lock.left \in Rests /\ Head(lock.left) = step
             /\ lock' = IF Len(lock.left) = 1 THEN Unlocked ELSE [lock EXCEPT !.left = Tail(@)]
  BY <1>1, HeldIsTyped DEF Did
<1>2. /\ Len(Whole) = 5 /\ Head(Whole) = "log" /\ Tail(Whole) = AfterLog
      /\ Len(AfterLog) = 4 /\ Head(AfterLog) = "status" /\ Tail(AfterLog) = AfterStatus
      /\ Len(AfterStatus) = 3 /\ Head(AfterStatus) = "push" /\ Tail(AfterStatus) = AfterPush
      /\ Len(AfterPush) = 2 /\ Head(AfterPush) = "wake" /\ Tail(AfterPush) = AfterWake
      /\ Len(AfterWake) = 1 /\ Head(AfterWake) = "cancel"
  BY DEF Whole, AfterLog, AfterStatus, AfterPush, AfterWake
<1>3. Logs => GoesOn(Whole, AfterLog)
  <2>1. SUFFICES ASSUME Did("log") PROVE GoesOn(Whole, AfterLog)
    BY DEF Logs
  <2>2. lock.left = Whole
    BY <2>1, <1>1, <1>2, RestsDiffer
  <2>3. ~Free /\ lock' = [lock EXCEPT !.left = Tail(@)]
    BY <2>1, <2>2, <1>1, <1>2
  <2> QED BY <2>2, <2>3, <1>2 DEF GoesOn
<1>4. SetsStatus => GoesOn(AfterLog, AfterStatus)
  <2>1. SUFFICES ASSUME Did("status") PROVE GoesOn(AfterLog, AfterStatus)
    BY DEF SetsStatus
  <2>2. lock.left = AfterLog
    BY <2>1, <1>1, <1>2, RestsDiffer
  <2>3. ~Free /\ lock' = [lock EXCEPT !.left = Tail(@)]
    BY <2>1, <2>2, <1>1, <1>2
  <2> QED BY <2>2, <2>3, <1>2 DEF GoesOn
<1>5. Pushes => GoesOn(AfterStatus, AfterPush)
  <2>1. SUFFICES ASSUME Did("push") PROVE GoesOn(AfterStatus, AfterPush)
    BY DEF Pushes
  <2>2. lock.left = AfterStatus
    BY <2>1, <1>1, <1>2, RestsDiffer
  <2>3. ~Free /\ lock' = [lock EXCEPT !.left = Tail(@)]
    BY <2>1, <2>2, <1>1, <1>2
  <2> QED BY <2>2, <2>3, <1>2 DEF GoesOn
<1>6. Wakes => GoesOn(AfterPush, AfterWake)
  <2>1. SUFFICES ASSUME Did("wake") PROVE GoesOn(AfterPush, AfterWake)
    BY DEF Wakes
  <2>2. lock.left = AfterPush
    BY <2>1, <1>1, <1>2, RestsDiffer
  <2>3. ~Free /\ lock' = [lock EXCEPT !.left = Tail(@)]
    BY <2>1, <2>2, <1>1, <1>2
  <2> QED BY <2>2, <2>3, <1>2 DEF GoesOn
<1>7. Cancels => LetsGo
  <2>1. SUFFICES ASSUME Did("cancel") PROVE LetsGo
    BY DEF Cancels
  <2>2. lock.left = AfterWake
    BY <2>1, <1>1, <1>2, RestsDiffer
  <2> QED BY <2>1, <2>2, <1>1, <1>2 DEF LetsGo
<1> QED BY <1>3, <1>4, <1>5, <1>6, <1>7

\* Between two holders, whoever was not cancelled is the connection held.
LEMMA OwnerIsLive ==
  ASSUME IInv, Free, NEW g \in Gens, Published(g), Owns(g)
  PROVE  live = g
  BY DEF IInv, LettingFits, Owns

LEMMA WindowTakes ==
  ASSUME IInv, NEW polite \in BOOLEAN, Free, Release(polite)
  PROVE  (live = 0 /\ lock' = lock) \/ Starts(polite)
<1>1. live = 0 \/ live \in Gens
  BY Numbers DEF IInv, TypeOK, Gens
<1>2. CASE live = 0
  BY <1>2 DEF Release
<1>3. CASE live \in Gens
  <2>1. lock' = [Unlocked EXCEPT !.by = Window, !.gen = live, !.to = "disconnected",
                                 !.polite = polite, !.left = AfterLog]
    BY <1>3, Numbers DEF Release, ReleaseOrder, AfterLog
  <2> QED BY <2>1, <1>3 DEF Starts, Unlocked
<1> QED BY <1>1, <1>2, <1>3

LEMMA WholeIs == <<"log">> \o ReleaseOrder = Whole
<1> DEFINE steps == {"log", "status", "push", "wake", "cancel"}
           whole == <<"log">> \o ReleaseOrder
<1>1. whole \in Seq(steps) /\ Whole \in Seq(steps)
  <2>1. <<"log">> \in Seq(steps) /\ ReleaseOrder \in Seq(steps) /\ Whole \in Seq(steps)
    BY DEF ReleaseOrder, Whole
  <2> QED BY <2>1
<1>2. Len(whole) = 5 /\ Len(Whole) = 5
  BY DEF ReleaseOrder, Whole
<1>3. /\ whole[1] = "log" /\ whole[2] = "status" /\ whole[3] = "push" /\ whole[4] = "wake"
      /\ whole[5] = "cancel"
  BY DEF ReleaseOrder
<1> HIDE DEF whole
<1>4. \A i \in 1..5 : whole[i] = Whole[i]
  BY <1>3 DEF Whole
<1>5. whole = Whole
  BY <1>1, <1>2, <1>4
<1> QED BY <1>5 DEF whole

LEMMA ReaderTakes ==
  ASSUME IInv, NEW g \in Gens, NEW kind \in Kinds, Free, Published(g), Observe(g, kind)
  PROVE  (~Owns(g) /\ lock' = lock) \/ (Owns(g) /\ Tells(g, kind))
<1>1. Owns(g) => live = g /\ live # 0
  BY OwnerIsLive, Numbers
<1>2. <<"log">> \o ReleaseOrder = Whole
  BY WholeIs
<1>3. CASE ~Owns(g)
  BY <1>3 DEF Observe
<1>4. CASE Owns(g)
  <2>1. lock' = [by |-> g, gen |-> live, kind |-> kind, polite |-> FALSE,
                 to |-> IF kind = "spawn" THEN "failed" ELSE "lost", left |-> Whole]
    BY <1>1, <1>2, <1>4 DEF Observe, ObserveOrder
  <2> QED BY <2>1, <1>1, <1>4 DEF Tells
<1> QED BY <1>3, <1>4

(***************************************************************************)
(* Who moves what.                                                         *)
(***************************************************************************)
\* A step of a reader changes its own books only; it takes the lock for what
\* befell its own agent, and takes off the list an agent that does not run.
Works(g) ==
  /\ UNCHANGED <<live, latest, status, cancelled, woken, graceful, window, agent, made,
                 eof, over>>
  /\ Published(g) /\ \A h \in Gens : Published(h)' <=> Published(h)
  /\ \A h \in Gens \ {g} : /\ reader'[h] = reader[h] /\ kept'[h] = kept[h]
                           /\ frames'[h] = frames[h] /\ diags'[h] = diags[h]
  /\ log \subseteq log' /\ log' \subseteq log \cup {<<g, "stopped">>}
  /\ stopping' = stopping \/ (stopping' = stopping \ {g} /\ agent[g] # "running")
  /\ \/ lock' = lock
     \/ \E kind \in {"spawn", "failed", "exited"} :
          /\ Tells(g, kind) /\ log' = log
          /\ kind = "exited" => reader[g].exit /\ ~reader[g].receiving /\ Owns(g)

LEMMA ReaderSets ==
  ASSUME TypeOK, NEW g \in Gens, NEW r, Set(g, r), r.at # "none", Published(g)
  PROVE  /\ reader'[g] = r /\ \A h \in Gens \ {g} : reader'[h] = reader[h]
         /\ \A h \in Gens : Published(h)' <=> Published(h)
  BY DEF TypeOK, Set, Published

LEMMA ReaderIsTyped ==
  ASSUME TypeOK, NEW g \in Gens
  PROVE  /\ reader[g] \in [at : {"none", "drain", "after", "stopping", "panicked", "done"},
                           receiving : BOOLEAN, lines : BOOLEAN, exit : BOOLEAN,
                           hand : BOOLEAN, released : BOOLEAN]
         /\ kept[g] \in Nat /\ made[g] \in Nat /\ frames[g] \in Nat
         /\ agent[g] \in {"none", "running", "gone"} /\ diags[g] \in Seq(Kinds)
  BY DEF TypeOK

\* What a drain does to its frames.
LEMMA FramesWork ==
  ASSUME IInv, NEW g \in Gens, Pull(g) \/ Record(g) \/ ReceiveEnds(g)
  PROVE  Works(g)
<1>1. TypeOK /\ Published(g) /\ reader[g].at = "drain"
  BY DEF IInv, Pull, Record, ReceiveEnds, Draining, Reader, Published
<1>2. \A r : Set(g, r) /\ r.at = "drain" =>
        /\ \A h \in Gens \ {g} : reader'[h] = reader[h]
        /\ \A h \in Gens : Published(h)' <=> Published(h)
  BY <1>1, ReaderSets
<1>3. CASE Pull(g)
  <2>1. Set(g, [reader[g] EXCEPT !.hand = TRUE]) /\ [reader[g] EXCEPT !.hand = TRUE].at = "drain"
    BY <1>1, <1>3, ReaderIsTyped DEF Pull
  <2>2. \A h \in Gens \ {g} : frames'[h] = frames[h]
    BY <1>1, <1>3 DEF Pull, TypeOK
  <2> QED BY <1>1, <1>2, <1>3, <2>1, <2>2
           DEF Pull, Works, connection, letting, window, transport
<1>4. CASE Record(g)
  <2>1. \E r : Set(g, r) /\ r.at = "drain"
    <3>1. \/ Set(g, [reader[g] EXCEPT !.hand = FALSE])
          \/ Set(g, [reader[g] EXCEPT !.hand = FALSE, !.receiving = FALSE])
      BY <1>4 DEF Record
    <3>2. /\ [reader[g] EXCEPT !.hand = FALSE].at = "drain"
          /\ [reader[g] EXCEPT !.hand = FALSE, !.receiving = FALSE].at = "drain"
      BY <1>1, ReaderIsTyped
    <3> QED BY <3>1, <3>2
  <2>2. \A h \in Gens \ {g} : kept'[h] = kept[h]
    BY <1>1, <1>4 DEF Record, TypeOK
  <2>3. /\ \A h \in Gens \ {g} : reader'[h] = reader[h]
        /\ \A h \in Gens : Published(h)' <=> Published(h)
    BY <1>2, <2>1
  <2>4. UNCHANGED <<connection, letting, window, transport>>
    BY <1>4 DEF Record
  <2> QED BY <1>1, <2>2, <2>3, <2>4 DEF Works, connection, letting, window, transport
<1>5. CASE ReceiveEnds(g)
  <2>1. /\ Set(g, [reader[g] EXCEPT !.receiving = FALSE])
        /\ [reader[g] EXCEPT !.receiving = FALSE].at = "drain"
    BY <1>1, <1>5, ReaderIsTyped DEF ReceiveEnds
  <2> QED BY <1>1, <1>2, <1>5, <2>1
           DEF ReceiveEnds, Works, connection, letting, window, transport
<1> QED BY <1>3, <1>4, <1>5

LEMMA TailIsTyped ==
  ASSUME TypeOK, NEW g \in Gens, diags[g] # <<>>, diags' = [diags EXCEPT ![g] = Tail(@)]
  PROVE  /\ Head(diags[g]) \in Kinds /\ Head(diags[g]) = diags[g][1] /\ 1 \in DOMAIN diags[g]
         /\ diags' \in [Gens -> Seq(Kinds)]
         /\ \A h \in Gens \ {g} : diags'[h] = diags[h]
         /\ \A kind : Said(g, kind)' => Said(g, kind)
<1>1. diags[g] \in Seq(Kinds) /\ diags \in [Gens -> Seq(Kinds)]
  BY DEF TypeOK
<1>2. PICK s \in Seq(Kinds) : s = diags[g]
  BY <1>1
<1>3. s # <<>> /\ Len(s) > 0 /\ Tail(s) \in Seq(Kinds) /\ Head(s) = s[1] /\ s[1] \in Kinds
  BY <1>2
<1>4. DOMAIN s = 1..Len(s) /\ Len(Tail(s)) = Len(s) - 1 /\ DOMAIN Tail(s) = 1..Len(Tail(s))
  BY <1>3
<1>5. \A i \in DOMAIN Tail(s) : i + 1 \in DOMAIN s /\ Tail(s)[i] = s[i + 1]
  BY <1>3, <1>4
<1>6. diags'[g] = Tail(s)
  BY <1>1, <1>2
<1> QED BY <1>1, <1>2, <1>3, <1>4, <1>5, <1>6 DEF Said

\* What it does with a diagnostic.
LEMMA WordsWork ==
  ASSUME IInv, NEW g \in Gens, Hear(g) \/ HearsLast(g) \/ TellsExit(g) \/ Dropped(g)
  PROVE  Works(g)
<1>1. TypeOK /\ Published(g)
  BY DEF IInv, Hear, HearsLast, TellsExit, Dropped, Draining, Reader, Published
<1>2. \A r : Set(g, r) /\ r.at # "none" =>
        /\ \A h \in Gens \ {g} : reader'[h] = reader[h]
        /\ \A h \in Gens : Published(h)' <=> Published(h)
  BY <1>1, ReaderSets
<1>3. ASSUME UNCHANGED reader
      PROVE  \A h \in Gens : reader'[h] = reader[h] /\ (Published(h)' <=> Published(h))
  BY <1>3 DEF Published
<1>4. CASE Hear(g)
  <2>1. /\ diags[g] # <<>> /\ diags' = [diags EXCEPT ![g] = Tail(@)] /\ Free
        /\ UNCHANGED <<live, latest, status, log, letting, window, kept, agent, made, frames,
                       eof, over>>
    BY <1>4 DEF Hear
  <2> DEFINE kind == Head(diags[g])
  <2>2. kind \in Kinds /\ Said(g, kind) /\ \A h \in Gens \ {g} : diags'[h] = diags[h]
    BY <1>1, <2>1, TailIsTyped DEF Said
  <2>3. CASE kind = "exited"
    <3>1. /\ Set(g, [reader[g] EXCEPT !.exit = TRUE]) /\ UNCHANGED lock
          /\ [reader[g] EXCEPT !.exit = TRUE].at = reader[g].at
      BY <1>1, <1>4, <2>3, ReaderIsTyped DEF Hear, Holds
    <3>2. /\ \A h \in Gens \ {g} : reader'[h] = reader[h]
          /\ \A h \in Gens : Published(h)' <=> Published(h)
      BY <1>1, <1>2, <3>1 DEF Published
    <3> QED BY <1>1, <2>1, <2>2, <3>1, <3>2 DEF Works, letting
  <2>4. CASE kind # "exited"
    <3>1. Observe(g, kind) /\ UNCHANGED reader
      BY <1>4, <2>4 DEF Hear, Holds
    <3>2. Owns(g) => kind \in {"spawn", "failed"}
      <4>1. Owns(g) => g \notin woken
        BY <2>1 DEF IInv, LettingFits, Owns
      <4>2. Owns(g) => kind # "stopped"
        BY <2>2, <4>1 DEF IInv, ReadersFit
      <4> QED BY <2>2, <2>4, <4>2 DEF Kinds
    <3>3. lock' = lock \/ (Owns(g) /\ Tells(g, kind))
      BY <1>1, <2>1, <2>2, <3>1, ReaderTakes
    <3>4. \/ lock' = lock
          \/ \E k \in {"spawn", "failed", "exited"} :
               /\ Tells(g, k) /\ log' = log
               /\ k = "exited" => reader[g].exit /\ ~reader[g].receiving /\ Owns(g)
      <4> HIDE DEF kind
      <4> QED BY <2>1, <3>2, <3>3
    <3>5. \A h \in Gens : reader'[h] = reader[h] /\ (Published(h)' <=> Published(h))
      BY <1>3, <3>1
    <3> QED BY <1>1, <2>1, <2>2, <3>4, <3>5 DEF Works, letting
  <2> QED BY <2>3, <2>4
<1>5. CASE HearsLast(g)
  <2>1. /\ Set(g, [reader[g] EXCEPT !.lines = FALSE])
        /\ [reader[g] EXCEPT !.lines = FALSE].at = reader[g].at
    BY <1>1, <1>5, ReaderIsTyped DEF HearsLast
  <2>2. /\ \A h \in Gens \ {g} : reader'[h] = reader[h]
        /\ \A h \in Gens : Published(h)' <=> Published(h)
    BY <1>1, <1>2, <2>1 DEF Published
  <2>3. UNCHANGED <<connection, letting, window, kept, transport>>
    BY <1>5 DEF HearsLast
  <2> QED BY <1>1, <2>2, <2>3 DEF Works, connection, letting, window, transport
<1>6. CASE TellsExit(g)
  <2>1. /\ Set(g, [reader[g] EXCEPT !.at = "after"])
        /\ [reader[g] EXCEPT !.at = "after"].at = "after"
        /\ Observe(g, "exited") /\ Free /\ reader[g].exit /\ ~reader[g].receiving
        /\ UNCHANGED <<live, latest, status, log, letting, window, kept, transport>>
    BY <1>1, <1>6, ReaderIsTyped DEF TellsExit
  <2>2. /\ \A h \in Gens \ {g} : reader'[h] = reader[h]
        /\ \A h \in Gens : Published(h)' <=> Published(h)
    BY <1>2, <2>1
  <2>3. lock' = lock \/ (Owns(g) /\ Tells(g, "exited"))
    BY <1>1, <2>1, ReaderTakes DEF Kinds
  <2> QED BY <1>1, <2>1, <2>2, <2>3 DEF Works, letting, transport
<1>7. CASE Dropped(g)
  <2>1. /\ UNCHANGED <<connection, letting, window, reading, agent, made, frames, eof, over>>
        /\ diags[g] # <<>> /\ diags' = [diags EXCEPT ![g] = Tail(@)]
    BY <1>7 DEF Dropped
  <2>2. \A h \in Gens \ {g} : diags'[h] = diags[h]
    BY <1>1, <2>1, TailIsTyped
  <2>3. \A h \in Gens : reader'[h] = reader[h] /\ (Published(h)' <=> Published(h))
    BY <2>1, <1>3 DEF reading
  <2> QED BY <1>1, <2>1, <2>2, <2>3 DEF Works, connection, letting, window, reading
<1> QED BY <1>4, <1>5, <1>6, <1>7

\* How it ends.
LEMMA EndsWork ==
  ASSUME IInv, NEW g \in Gens, Leaves(g) \/ After(g) \/ Stopped(g) \/ Panic(g) \/ Caught(g)
  PROVE  Works(g)
<1>1. TypeOK /\ Published(g)
  BY DEF IInv, Leaves, After, Stopped, Panic, Caught, Draining, Reader, Published
<1>2. \A r : Set(g, r) /\ r.at # "none" =>
        /\ \A h \in Gens \ {g} : reader'[h] = reader[h]
        /\ \A h \in Gens : Published(h)' <=> Published(h)
  BY <1>1, ReaderSets
<1>3. CASE Leaves(g) \/ Panic(g)
  <2>1. \E r : Set(g, r) /\ r.at # "none"
    <3>1. \/ Set(g, [reader[g] EXCEPT !.at = "after", !.released = TRUE])
          \/ Set(g, [reader[g] EXCEPT !.at = "after"])
          \/ Set(g, [reader[g] EXCEPT !.at = "panicked"])
      BY <1>3 DEF Leaves, Panic
    <3>2. /\ [reader[g] EXCEPT !.at = "after", !.released = TRUE].at = "after"
          /\ [reader[g] EXCEPT !.at = "after"].at = "after"
          /\ [reader[g] EXCEPT !.at = "panicked"].at = "panicked"
      BY <1>1, ReaderIsTyped
    <3> QED BY <3>1, <3>2
  <2>2. /\ \A h \in Gens \ {g} : reader'[h] = reader[h]
        /\ \A h \in Gens : Published(h)' <=> Published(h)
    BY <1>2, <2>1
  <2>3. UNCHANGED <<connection, letting, window, kept, transport>>
    BY <1>3 DEF Leaves, Panic
  <2> QED BY <1>1, <2>2, <2>3 DEF Works, connection, letting, window, transport
<1>4. CASE After(g)
  <2>1. \E r : Set(g, r) /\ r.at # "none"
    BY <1>1, <1>4, ReaderIsTyped DEF After
  <2>2. /\ \A h \in Gens \ {g} : reader'[h] = reader[h]
        /\ \A h \in Gens : Published(h)' <=> Published(h)
    BY <1>2, <2>1
  <2>3. stopping' = stopping \/ (stopping' = stopping \ {g} /\ agent[g] # "running")
    <3>1. CASE reader[g].released /\ g \in graceful
      BY <1>4, <3>1 DEF After
    <3>2. CASE reader[g].released /\ g \notin graceful
      <4>1. agent[g] = "gone"
        BY <3>2 DEF IInv, ReadersFit, LettingFits, AgentsFit
      <4> QED BY <1>4, <3>2, <4>1 DEF After, Afterwards
    <3>3. CASE ~reader[g].released
      <4>1. agent[g] = "gone"
        BY <1>4, <3>3 DEF IInv, ReadersFit, AgentsFit, After, Reader
      <4> QED BY <1>4, <3>3, <4>1 DEF After, Afterwards
    <3> QED BY <3>1, <3>2, <3>3
  <2>4. UNCHANGED <<connection, cancelled, woken, graceful, window, kept, transport>>
    BY <1>4 DEF After
  <2> QED BY <1>1, <2>2, <2>3, <2>4 DEF Works, connection, window, transport
<1>5. CASE Stopped(g)
  <2>1. \E r : Set(g, r) /\ r.at # "none"
    BY <1>1, <1>5, ReaderIsTyped DEF Stopped
  <2>2. /\ \A h \in Gens \ {g} : reader'[h] = reader[h]
        /\ \A h \in Gens : Published(h)' <=> Published(h)
    BY <1>2, <2>1
  <2>3. /\ stopping' = stopping \ {g} /\ agent[g] # "running"
        /\ log \subseteq log' /\ log' \subseteq log \cup {<<g, "stopped">>}
        /\ UNCHANGED <<live, latest, status, lock, cancelled, woken, graceful, window, kept,
                       transport>>
    BY <1>5 DEF Stopped
  <2> QED BY <1>1, <2>2, <2>3 DEF Works, window, transport
<1>6. CASE Caught(g)
  <2>1. /\ Set(g, [reader[g] EXCEPT !.at = "done"])
        /\ [reader[g] EXCEPT !.at = "done"].at = "done"
        /\ Observe(g, "failed") /\ Free
        /\ UNCHANGED <<live, latest, status, log, letting, window, kept, transport>>
    BY <1>1, <1>6, ReaderIsTyped DEF Caught
  <2>2. /\ \A h \in Gens \ {g} : reader'[h] = reader[h]
        /\ \A h \in Gens : Published(h)' <=> Published(h)
    BY <1>2, <2>1
  <2>3. lock' = lock \/ Tells(g, "failed")
    BY <1>1, <2>1, ReaderTakes DEF Kinds
  <2> QED BY <1>1, <2>1, <2>2, <2>3 DEF Works, letting, transport
<1> QED BY <1>3, <1>4, <1>5, <1>6

LEMMA ReadersWork ==
  ASSUME IInv, NEW g \in Gens, ReaderSteps(g) \/ Panic(g)
  PROVE  Works(g)
  BY FramesWork, WordsWork, EndsWork DEF ReaderSteps

\* What the window does that takes the lock.
Takes ==
  /\ UNCHANGED <<live, latest, status, log, letting, launch, reading, transport>>
  /\ Free /\ ui = "idle"
  /\ \/ ui' = "spawn" /\ launch = "ready"
     \/ ui' = "idle"
     \/ ui' = "kill"
  /\ (live = 0 /\ lock' = lock) \/ Starts(TRUE) \/ Starts(FALSE)

LEMMA WindowMoves ==
  ASSUME IInv, Connect \/ Disconnect \/ Close
  PROVE  Takes
<1>1. CASE Connect
  BY <1>1, WindowTakes DEF Connect, Takes, At
<1>2. CASE Disconnect
  BY <1>2, WindowTakes DEF Disconnect, Takes, At
<1>3. CASE Close
  BY <1>3, WindowTakes DEF Close, Takes, At
<1> QED BY <1>1, <1>2, <1>3

\* Between the steps of a launch or a close nobody holds the lock, and nothing
\* is connected.
LEMMA AwayIsFree ==
  ASSUME IInv, ui # "idle", lock.by # Window
  PROVE  Free /\ live = 0
<1>1. Free
  BY DEF IInv, LockIsSound
<1>2. ui \in {"spawn", "greet", "publish", "kill", "closed"}
  BY DEF IInv, TypeOK
<1> QED BY <1>1, <1>2 DEF IInv, WindowFits, Between

LEMMA TellersAreHeld ==
  ASSUME IInv, NEW g \in Gens, NEW kind, Tells(g, kind)
  PROVE  ui = "idle" /\ g = live /\ g = latest /\ g # 0
<1>1. live # 0 /\ Free /\ lock.by # Window
  BY Numbers DEF Tells, Free
<1>2. ui = "idle"
  BY <1>1, AwayIsFree
<1> QED BY <1>1, <1>2 DEF Tells, IInv, WindowFits

\* The steps of a launch that leave the connection and its agents alone.
OnlyLaunch == UNCHANGED <<connection, letting, ui, reading, transport>>

LEMMA LaunchMoves ==
  ASSUME Launch \/ StopIsOver \/ Launched
  PROVE  OnlyLaunch
  BY DEF Launch, StopIsOver, Launched, OnlyLaunch, At

\* The transport touches its own only.
Carries == UNCHANGED <<connection, letting, window, reading>>

LEMMA TransportMoves ==
  ASSUME NEW g \in Gens, Sends(g) \/ Dies(g) \/ Ends(g) \/ Finishes(g)
  PROVE  Carries
  BY DEF Sends, Dies, Ends, Finishes, Carries

\* Every step is one of these.
LEMMA StepsAre ==
  ASSUME IInv, [Next]_vars
  PROVE  \/ Logs \/ SetsStatus \/ Pushes \/ Wakes \/ Cancels \/ Takes
         \/ Spawn \/ Greet \/ Publish \/ Kill
         \/ OnlyLaunch /\ (Launch \/ StopIsOver \/ Launched)
         \/ \E g \in Gens : Works(g) /\ (ReaderSteps(g) \/ Panic(g))
         \/ \E g \in Gens : Carries /\ (Sends(g) \/ Dies(g) \/ Ends(g) \/ Finishes(g))
         \/ UNCHANGED vars
<1>1. CASE LockSteps
  BY <1>1 DEF LockSteps
<1>2. CASE WindowSteps \/ Launch \/ Launched \/ Disconnect \/ Close
  BY <1>2, WindowMoves, LaunchMoves DEF WindowSteps
<1>3. ASSUME NEW g \in Gens, ReaderSteps(g) \/ Panic(g)
      PROVE  Works(g)
  BY <1>3, ReadersWork
<1>4. ASSUME NEW g \in Gens, Sends(g) \/ Dies(g) \/ Ends(g) \/ Finishes(g)
      PROVE  Carries
  BY <1>4, TransportMoves
<1> QED BY <1>1, <1>2, <1>3, <1>4 DEF Next

(***************************************************************************)
(* The lock.                                                               *)
(***************************************************************************)
\* What going on makes of the lock.
LEMMA GoingOn ==
  ASSUME IInv, NEW from, NEW to, GoesOn(from, to)
  PROVE  /\ lock'.by = lock.by /\ lock'.gen = lock.gen /\ lock'.kind = lock.kind
         /\ lock'.to = lock.to /\ lock'.polite = lock.polite /\ lock'.left = to
         /\ lock.left = from /\ ~Free /\ ~Free'
  BY HeldIsTyped DEF GoesOn, Free

LEMMA LockGoesOn ==
  ASSUME IInv, Logs \/ SetsStatus \/ Pushes \/ Wakes
  PROVE  LockIsSound'
<1> USE RestsDiffer
<1>1. CASE Logs
  <2>1. GoesOn(Whole, AfterLog)
    BY <1>1, LockStepsAre
  <2>2. /\ UNCHANGED <<live, latest, ui>> /\ log' = log \cup {<<lock.by, lock.kind>>}
    BY <1>1 DEF Logs, window
  <2>3. lock.by # Window
    BY <2>1, GoingOn DEF IInv, LockIsSound
  <2> QED BY <2>1, <2>2, <2>3, GoingOn DEF IInv, LockIsSound, Free
<1>2. CASE SetsStatus
  <2>1. GoesOn(AfterLog, AfterStatus)
    BY <1>2, LockStepsAre
  <2>2. UNCHANGED <<latest, ui, log>> /\ live' = 0
    BY <1>2 DEF SetsStatus, window
  <2> QED BY <2>1, <2>2, GoingOn DEF IInv, LockIsSound, Free
<1>3. CASE Pushes
  <2>1. GoesOn(AfterStatus, AfterPush)
    BY <1>3, LockStepsAre
  <2>2. UNCHANGED <<live, latest, ui, log>>
    BY <1>3 DEF Pushes, window
  <2> QED BY <2>1, <2>2, GoingOn DEF IInv, LockIsSound, Free
<1>4. CASE Wakes
  <2>1. GoesOn(AfterPush, AfterWake)
    BY <1>4, LockStepsAre
  <2>2. UNCHANGED <<live, latest, ui, log>>
    BY <1>4 DEF Wakes, window
  <2> QED BY <2>1, <2>2, GoingOn DEF IInv, LockIsSound, Free
<1> QED BY <1>1, <1>2, <1>3, <1>4

LEMMA LockIsTaken ==
  ASSUME IInv, Takes \/ \E g \in Gens, kind \in {"spawn", "failed", "exited"} :
                          Tells(g, kind) /\ UNCHANGED <<live, latest, ui, log>>
  PROVE  LockIsSound'
<1> USE RestsDiffer, Numbers
<1>1. ASSUME NEW polite \in BOOLEAN, Starts(polite), UNCHANGED <<live, latest, log>>,
             ui' \in {"idle", "spawn", "kill"}
      PROVE  LockIsSound'
  BY <1>1 DEF IInv, LockIsSound, WindowFits, Starts, Free
<1>2. CASE Takes
  <2>1. CASE lock' = lock
    BY <1>2, <2>1 DEF Takes, IInv, LockIsSound, Free
  <2>2. CASE Starts(TRUE) \/ Starts(FALSE)
    BY <1>1, <1>2, <2>2 DEF Takes
  <2> QED BY <1>2, <2>1, <2>2 DEF Takes
<1>3. ASSUME NEW g \in Gens, NEW kind \in {"spawn", "failed", "exited"}, Tells(g, kind),
             UNCHANGED <<live, latest, ui, log>>
      PROVE  LockIsSound'
  <2>1. ui = "idle" /\ g = live /\ g = latest
    BY <1>3, TellersAreHeld
  <2> QED BY <1>3, <2>1 DEF Tells, LockIsSound, Free
<1> QED BY <1>2, <1>3

LEMMA LockKeeps == IInv /\ [Next]_vars => LockIsSound'
<1> SUFFICES ASSUME IInv, [Next]_vars PROVE LockIsSound'
  OBVIOUS
<1>1. CASE Logs \/ SetsStatus \/ Pushes \/ Wakes
  BY <1>1, LockGoesOn
<1>2. CASE Cancels
  <2>1. LetsGo
    BY <1>2, LockStepsAre
  <2> QED BY <2>1 DEF LetsGo, LockIsSound, Free, Unlocked
<1>3. CASE Takes
  BY <1>3, LockIsTaken
<1>4. CASE Spawn \/ Greet \/ Publish \/ Kill
  <2>1. UNCHANGED <<lock, log>> /\ ui # "idle" /\ lock.by # Window
    BY <1>4 DEF Spawn, Greet, Publish, Kill, At, connection
  <2>2. Free
    BY <2>1, AwayIsFree
  <2> QED BY <2>1, <2>2 DEF IInv, LockIsSound, Free
<1>5. CASE OnlyLaunch \/ Carries \/ UNCHANGED vars
  <2>1. UNCHANGED <<live, latest, log, lock, ui>>
    BY <1>5 DEF OnlyLaunch, Carries, vars, connection, window
  <2> QED BY <2>1 DEF IInv, LockIsSound, Free
<1>6. ASSUME NEW g \in Gens, Works(g) PROVE LockIsSound'
  <2>1. CASE lock' = lock
    <3>1. UNCHANGED <<live, latest, lock, ui>> /\ log \subseteq log'
      BY <1>6, <2>1 DEF Works, window
    <3> QED BY <3>1 DEF IInv, LockIsSound, Free
  <2>2. CASE \E kind \in {"spawn", "failed", "exited"} : Tells(g, kind) /\ log' = log
    <3>1. UNCHANGED <<live, latest, ui>>
      BY <1>6 DEF Works, window
    <3> QED BY <2>2, <3>1, LockIsTaken
  <2> QED BY <1>6, <2>1, <2>2 DEF Works
<1> QED BY <1>1, <1>2, <1>3, <1>4, <1>5, <1>6, StepsAre

(***************************************************************************)
(* The window.                                                             *)
(***************************************************************************)
\* Only connecting and publishing put a connection in place.
LEMMA HolderIsLast ==
  ASSUME IInv, ~Free
  PROVE  /\ ui \notin Between \cup {"closed"} /\ lock.gen \in Gens /\ lock.gen = latest
         /\ Published(lock.gen) /\ lock.left \in Rests
         /\ live = IF lock.left \in {Whole, AfterLog} THEN lock.gen ELSE 0
<1>1. /\ ui \notin Between \cup {"closed"} /\ lock.gen \in Gens /\ lock.gen = latest
      /\ lock.left \in Rests /\ live = IF lock.left \in {Whole, AfterLog} THEN lock.gen ELSE 0
  BY DEF IInv, WindowFits, LockIsSound
<1>2. Published(lock.gen)
  BY <1>1, Numbers DEF IInv, WindowFits
<1> QED BY <1>1, <1>2

LEMMA WindowHolds ==
  ASSUME IInv, Logs \/ SetsStatus \/ Pushes \/ Wakes \/ Cancels
  PROVE  WindowFits'
<1> USE RestsDiffer, Numbers
<1>1. /\ UNCHANGED <<latest, launch, ui, reader>> /\ live' \in {live, 0} /\ ~Free
      /\ Free' => live' = 0
      /\ stopping' = stopping \/ ui # "closed"
  <2>1. ~Free
    BY LockStepsAre DEF GoesOn, LetsGo
  <2>2. CASE Logs \/ SetsStatus \/ Pushes \/ Wakes
    <3>1. ~Free'
      BY <2>2, LockStepsAre, GoingOn
    <3>2. ui # "closed"
      BY <2>1, HolderIsLast
    <3> QED BY <2>1, <2>2, <3>1, <3>2 DEF Logs, SetsStatus, Pushes, Wakes, window, reading
  <2>3. CASE Cancels
    <3>1. LetsGo
      BY <2>3, LockStepsAre
    <3>2. live = 0
      BY <2>1, <3>1, HolderIsLast DEF LetsGo
    <3> QED BY <2>1, <2>3, <3>2 DEF Cancels, window, reading
  <2> QED BY <2>2, <2>3
<1>2. ui \notin Between \cup {"closed"}
  BY <1>1, HolderIsLast
<1>3. \A g \in Gens : Published(g)' <=> Published(g)
  BY <1>1 DEF Published
<1> QED BY <1>1, <1>2, <1>3 DEF IInv, WindowFits, Between

LEMMA WindowTurns ==
  ASSUME IInv, Takes \/ Spawn \/ Greet \/ Publish \/ Kill
  PROVE  WindowFits'
<1> USE Numbers
<1>0. latest \in 0..MaxGens /\ live \in 0..MaxGens /\ stopping \subseteq Gens
  BY DEF IInv, TypeOK
<1>1. CASE Takes
  <2>1. /\ UNCHANGED <<live, latest, launch, reader, stopping>> /\ Free /\ ui = "idle"
        /\ ui' = "spawn" => launch = "ready"
        /\ ui' \in {"spawn", "idle", "kill"}
    BY <1>1 DEF Takes, letting, reading
  <2>2. Free' => live = 0
    BY <1>1 DEF Takes, Starts, Free
  <2>3. \A g \in Gens : Published(g)' <=> Published(g)
    BY <2>1 DEF Published
  <2> QED BY <2>1, <2>2, <2>3 DEF IInv, WindowFits, Between
<1>2. CASE Spawn
  <2>1. /\ ui = "spawn" /\ ui' = "greet" /\ lock.by # Window /\ latest' = latest + 1
        /\ UNCHANGED <<live, lock, stopping, launch, reader>>
    BY <1>2 DEF Spawn, At, letting, reading
  <2>2. Free /\ live = 0
    BY <2>1, AwayIsFree
  <2>3. \A g \in Gens : Published(g)' <=> Published(g)
    BY <2>1 DEF Published
  <2>4. \A g \in Gens : Published(g) <=> g <= latest
    BY <2>1 DEF IInv, WindowFits, Between
  <2>5. \A g \in Gens : g <= latest <=> g <= latest + 1 /\ g # latest + 1
    BY <1>0
  <2> QED BY <1>0, <2>1, <2>2, <2>3, <2>4, <2>5 DEF IInv, WindowFits, Between, Free
<1>3. CASE Greet
  <2>1. /\ ui = "greet" /\ ui' = "publish" /\ lock.by # Window
        /\ UNCHANGED <<live, latest, lock, stopping, launch, reader>>
    BY <1>3 DEF Greet, At, letting, reading
  <2>2. Free /\ live = 0
    BY <2>1, AwayIsFree
  <2>3. \A g \in Gens : Published(g)' <=> Published(g)
    BY <2>1 DEF Published
  <2> QED BY <2>1, <2>2, <2>3 DEF IInv, WindowFits, Between, Free
<1>4. CASE Publish
  <2>1. /\ ui = "publish" /\ ui' = "idle" /\ lock.by # Window /\ live' = latest
        /\ launch' = "opening" /\ reader' = [reader EXCEPT ![latest] = Fresh]
        /\ UNCHANGED <<latest, lock, stopping>>
    BY <1>4 DEF Publish, At, letting
  <2>2. latest # 0 /\ latest \in Gens
    BY <1>0, <2>1 DEF IInv, WindowFits, Between, Gens
  <2>3. Fresh.at = "drain"
    BY DEF Fresh, Unborn
  <2>4. reader'[latest] = Fresh /\ \A g \in Gens \ {latest} : reader'[g] = reader[g]
    BY <2>1, <2>2 DEF IInv, TypeOK
  <2>5. \A g \in Gens : Published(g)' <=> (Published(g) \/ g = latest)
    BY <2>3, <2>4 DEF Published
  <2>6. \A g \in Gens : Published(g)' <=> g <= latest
    BY <1>0, <2>1, <2>2, <2>5 DEF IInv, WindowFits, Between
  <2> QED BY <2>1, <2>2, <2>6 DEF WindowFits, Between, Free
<1>5. CASE Kill
  <2>1. /\ ui = "kill" /\ ui' = "closed" /\ lock.by # Window /\ stopping' = {}
        /\ UNCHANGED <<live, latest, lock, launch, reader>>
    BY <1>5 DEF Kill, At, connection, reading
  <2>2. Free /\ live = 0
    BY <2>1, AwayIsFree
  <2>3. \A g \in Gens : Published(g)' <=> Published(g)
    BY <2>1 DEF Published
  <2> QED BY <2>1, <2>2, <2>3 DEF IInv, WindowFits, Between, Free
<1> QED BY <1>1, <1>2, <1>3, <1>4, <1>5

LEMMA WindowKeeps == IInv /\ [Next]_vars => WindowFits'
<1> SUFFICES ASSUME IInv, [Next]_vars PROVE WindowFits'
  OBVIOUS
<1>1. CASE Logs \/ SetsStatus \/ Pushes \/ Wakes \/ Cancels
  BY <1>1, WindowHolds
<1>2. CASE Takes \/ Spawn \/ Greet \/ Publish \/ Kill
  BY <1>2, WindowTurns
<1>3. CASE OnlyLaunch /\ (Launch \/ StopIsOver \/ Launched)
  <2>1. UNCHANGED <<live, latest, lock, ui, stopping, reader>>
    BY <1>3 DEF OnlyLaunch, connection, letting, reading
  <2>2. \/ launch' = "waiting" /\ latest < MaxGens /\ ui = "idle"
        \/ launch = "waiting" /\ launch' = "ready"
        \/ launch = "opening" /\ launch' = "no"
    BY <1>3 DEF Launch, StopIsOver, Launched, At
  <2>3. \A g \in Gens : Published(g)' <=> Published(g)
    BY <2>1 DEF Published
  <2> QED BY <2>1, <2>2, <2>3 DEF IInv, WindowFits, Between, Free
<1>4. CASE Carries \/ UNCHANGED vars
  <2>1. UNCHANGED <<live, latest, lock, ui, launch, stopping, reader>>
    BY <1>4 DEF Carries, vars, connection, letting, window, reading
  <2>2. \A g \in Gens : Published(g)' <=> Published(g)
    BY <2>1 DEF Published
  <2> QED BY <2>1, <2>2 DEF IInv, WindowFits, Between, Free
<1>5. ASSUME NEW g \in Gens, Works(g) PROVE WindowFits'
  <2>1. /\ UNCHANGED <<live, latest, ui, launch>> /\ stopping' \subseteq stopping
        /\ \A h \in Gens : Published(h)' <=> Published(h)
    BY <1>5 DEF Works, window
  <2>2. lock' = lock \/ (ui = "idle" /\ ~Free')
    BY <1>5, TellersAreHeld, Numbers DEF Works, Tells, Free
  <2> QED BY <2>1, <2>2 DEF IInv, WindowFits, Between, Free
<1> QED BY <1>1, <1>2, <1>3, <1>4, <1>5, StepsAre

(***************************************************************************)
(* The status.                                                             *)
(***************************************************************************)
LEMMA StatusKeeps == IInv /\ [Next]_vars => StatusFits'
<1> SUFFICES ASSUME IInv, [Next]_vars PROVE StatusFits'
  OBVIOUS
<1> USE RestsDiffer, Numbers
<1>1. CASE Logs \/ Pushes
  <2>1. ~Free /\ (GoesOn(Whole, AfterLog) \/ GoesOn(AfterStatus, AfterPush))
    BY <1>1, LockStepsAre DEF GoesOn
  <2>2. UNCHANGED <<latest, woken, status>>
    BY <1>1 DEF Logs, Pushes, letting
  <2> QED BY <2>1, <2>2, GoingOn DEF IInv, StatusFits
<1>2. CASE SetsStatus
  <2>1. status' = lock.to /\ lock.to # "connected"
    BY <1>2, HeldIsTyped DEF SetsStatus
  <2> QED BY <2>1 DEF StatusFits
<1>3. CASE Wakes
  <2>1. GoesOn(AfterPush, AfterWake)
    BY <1>3, LockStepsAre
  <2>2. status # "connected" /\ status' = status
    BY <1>3, <2>1, GoingOn DEF Wakes, IInv, StatusFits
  <2> QED BY <2>2 DEF StatusFits
<1>4. CASE Cancels
  <2>1. LetsGo /\ UNCHANGED <<latest, woken, status>>
    BY <1>4, LockStepsAre DEF Cancels
  <2> QED BY <2>1 DEF IInv, StatusFits, LetsGo, Free, Unlocked
<1>5. CASE Takes
  <2>1. UNCHANGED <<latest, woken, status>> /\ (lock' = lock \/ lock'.left = AfterLog)
    BY <1>5 DEF Takes, letting, Starts
  <2> QED BY <2>1 DEF IInv, StatusFits, Free
<1>6. CASE Spawn
  <2>1. ui = "spawn" /\ lock.by # Window /\ latest' = latest + 1 /\ UNCHANGED <<lock, woken>>
    BY <1>6 DEF Spawn, At, letting
  <2>2. Free
    BY <2>1, AwayIsFree
  <2>3. \A g \in woken : g \in Gens /\ g <= latest
    BY <2>2 DEF IInv, LettingFits, WindowFits, TypeOK
  <2>4. latest' \notin woken
    BY <2>1, <2>3 DEF IInv, TypeOK
  <2> QED BY <2>1, <2>2, <2>4 DEF StatusFits, Free
<1>7. CASE Greet
  <2>1. ui = "greet" /\ lock.by # Window /\ UNCHANGED <<lock, woken, latest>>
    BY <1>7 DEF Greet, At, letting
  <2>2. Free
    BY <2>1, AwayIsFree
  <2>3. latest \notin woken
    BY <2>1, <2>2 DEF IInv, LettingFits, WindowFits, TypeOK, Between
  <2> QED BY <2>1, <2>2, <2>3 DEF StatusFits, Free
<1>8. CASE Publish \/ Kill \/ OnlyLaunch \/ Carries \/ UNCHANGED vars
  <2>1. UNCHANGED <<latest, woken, status, lock>>
    BY <1>8 DEF Publish, Kill, OnlyLaunch, Carries, vars, connection, letting
  <2> QED BY <2>1 DEF IInv, StatusFits, Free
<1>9. ASSUME NEW g \in Gens, Works(g) PROVE StatusFits'
  <2>1. UNCHANGED <<latest, woken, status>> /\ (lock' = lock \/ lock'.left = Whole)
    BY <1>9 DEF Works, Tells
  <2> QED BY <2>1 DEF IInv, StatusFits, Free
<1> QED BY <1>1, <1>2, <1>3, <1>4, <1>5, <1>6, <1>7, <1>8, <1>9, StepsAre

(***************************************************************************)
(* Who was let go.                                                         *)
(***************************************************************************)
LEMMA LettingHolds ==
  ASSUME IInv, Logs \/ SetsStatus \/ Pushes \/ Wakes \/ Cancels
  PROVE  LettingFits'
<1> USE RestsDiffer, Numbers
<1>1. /\ ~Free /\ lock.gen \in Gens /\ Published(lock.gen)
      /\ live = IF lock.left \in {Whole, AfterLog} THEN lock.gen ELSE 0
      /\ cancelled \subseteq Gens
  BY LockStepsAre, HolderIsLast DEF GoesOn, LetsGo, IInv, TypeOK
<1>2. ASSUME UNCHANGED reader PROVE \A g \in Gens : Published(g)' <=> Published(g)
  BY <1>2 DEF Published
<1>3. CASE Logs
  <2>1. GoesOn(Whole, AfterLog) /\ UNCHANGED <<live, cancelled, woken, graceful, stopping, reader>>
    BY <1>3, LockStepsAre DEF Logs, letting, reading
  <2> QED BY <1>1, <1>2, <2>1, GoingOn DEF IInv, LettingFits
<1>4. CASE SetsStatus
  <2>1. /\ GoesOn(AfterLog, AfterStatus) /\ live' = 0
        /\ UNCHANGED <<cancelled, woken, graceful, stopping, reader>>
    BY <1>4, LockStepsAre DEF SetsStatus, letting, reading
  <2> QED BY <1>1, <1>2, <2>1, GoingOn DEF IInv, LettingFits
<1>5. CASE Pushes
  <2>1. GoesOn(AfterStatus, AfterPush) /\ UNCHANGED <<live, cancelled, woken, reader>>
    BY <1>5, LockStepsAre DEF Pushes, reading
  <2>2. \/ lock.polite /\ graceful' = graceful \cup {lock.gen} /\ stopping' = stopping \cup {lock.gen}
        \/ ~lock.polite /\ UNCHANGED <<graceful, stopping>>
    BY <1>5 DEF Pushes
  <2> QED BY <1>1, <1>2, <2>1, <2>2, GoingOn DEF IInv, LettingFits
<1>6. CASE Wakes
  <2>1. /\ GoesOn(AfterPush, AfterWake) /\ woken' = woken \cup {lock.gen}
        /\ UNCHANGED <<live, cancelled, graceful, stopping, reader>>
    BY <1>6, LockStepsAre DEF Wakes, reading
  <2> QED BY <1>1, <1>2, <2>1, GoingOn DEF IInv, LettingFits
<1>7. CASE Cancels
  <2>1. /\ LetsGo /\ cancelled' = cancelled \cup {lock.gen}
        /\ UNCHANGED <<live, woken, graceful, stopping, reader>>
    BY <1>7, LockStepsAre DEF Cancels, reading
  <2>2. Free' /\ live = 0 /\ lock.left = AfterWake
    BY <1>1, <2>1 DEF LetsGo, Free, Unlocked
  <2> QED BY <1>1, <1>2, <2>1, <2>2 DEF IInv, LettingFits
<1> QED BY <1>3, <1>4, <1>5, <1>6, <1>7

LEMMA LettingKeeps == IInv /\ [Next]_vars => LettingFits'
<1> SUFFICES ASSUME IInv, [Next]_vars PROVE LettingFits'
  OBVIOUS
<1> USE RestsDiffer, Numbers
<1>1. CASE Logs \/ SetsStatus \/ Pushes \/ Wakes \/ Cancels
  BY <1>1, LettingHolds
<1>2. ASSUME UNCHANGED <<live, cancelled, woken, graceful>>, stopping' \subseteq stopping,
             \A g \in Gens : Published(g)' <=> Published(g),
             lock' = lock \/ (Free /\ ~Free' /\ lock'.gen = live /\ live # 0
                              /\ lock'.left \in {Whole, AfterLog})
      PROVE  LettingFits'
  <2>1. CASE lock' = lock
    BY <1>2, <2>1 DEF IInv, LettingFits, Free
  <2>2. CASE lock' # lock
    BY <1>2, <2>2 DEF IInv, LettingFits
  <2> QED BY <2>1, <2>2
<1>3. CASE Takes
  <2>1. /\ UNCHANGED <<live, cancelled, woken, graceful, stopping, reader>>
        /\ lock' = lock \/ (Free /\ ~Free' /\ lock'.gen = live /\ live # 0
                            /\ lock'.left = AfterLog)
    BY <1>3 DEF Takes, letting, reading, Starts, Free
  <2>2. \A g \in Gens : Published(g)' <=> Published(g)
    BY <2>1 DEF Published
  <2> QED BY <1>2, <2>1, <2>2
<1>4. CASE Spawn \/ Greet \/ Kill \/ OnlyLaunch \/ Carries \/ UNCHANGED vars
  <2>1. /\ UNCHANGED <<live, cancelled, woken, graceful, lock, reader>>
        /\ stopping' = stopping \/ stopping' = {}
    BY <1>4 DEF Spawn, Greet, Kill, OnlyLaunch, Carries, vars, connection, letting, reading
  <2>2. \A g \in Gens : Published(g)' <=> Published(g)
    BY <2>1 DEF Published
  <2> QED BY <1>2, <2>1, <2>2
<1>5. CASE Publish
  <2>1. /\ ui = "publish" /\ lock.by # Window /\ live' = latest
        /\ reader' = [reader EXCEPT ![latest] = Fresh]
        /\ UNCHANGED <<lock, cancelled, woken, graceful, stopping>>
    BY <1>5 DEF Publish, At, letting
  <2>2. Free /\ live = 0
    BY <2>1, AwayIsFree
  <2>3. latest \in Gens /\ ~Published(latest)
    BY <2>1 DEF IInv, WindowFits, TypeOK, Between, Gens
  <2>4. Fresh.at = "drain"
    BY DEF Fresh, Unborn
  <2>5. \A g \in Gens : Published(g)' <=> (Published(g) \/ g = latest)
    BY <2>1, <2>3, <2>4 DEF Published, IInv, TypeOK
  <2> QED BY <2>1, <2>2, <2>3, <2>5 DEF IInv, LettingFits, Free
<1>6. ASSUME NEW g \in Gens, Works(g) PROVE LettingFits'
  <2>1. /\ UNCHANGED <<live, cancelled, woken, graceful>> /\ stopping' \subseteq stopping
        /\ \A h \in Gens : Published(h)' <=> Published(h)
    BY <1>6 DEF Works
  <2>2. lock' = lock \/ (Free /\ ~Free' /\ lock'.gen = live /\ live # 0
                         /\ lock'.left \in {Whole, AfterLog})
    BY <1>6 DEF Works, Tells, Free
  <2> QED BY <1>2, <2>1, <2>2
<1> QED BY <1>1, <1>3, <1>4, <1>5, <1>6, StepsAre

(***************************************************************************)
(* The agents.                                                             *)
(***************************************************************************)
LEMMA AgentsHold ==
  ASSUME IInv, Logs \/ SetsStatus \/ Pushes \/ Wakes \/ Cancels
  PROVE  AgentsFit'
<1> USE RestsDiffer, Numbers
<1>1. /\ ~Free /\ lock.gen \in Gens /\ ui \notin Between
      /\ live = IF lock.left \in {Whole, AfterLog} THEN lock.gen ELSE 0
  BY LockStepsAre, HolderIsLast DEF GoesOn, LetsGo
<1>2. CASE Logs
  <2>1. /\ GoesOn(Whole, AfterLog)
        /\ UNCHANGED <<live, latest, ui, woken, graceful, stopping, agent, over>>
    BY <1>2, LockStepsAre DEF Logs, letting, window, transport
  <2> QED BY <1>1, <2>1, GoingOn DEF IInv, AgentsFit
<1>3. CASE SetsStatus
  <2>1. /\ GoesOn(AfterLog, AfterStatus)
        /\ UNCHANGED <<latest, ui, woken, graceful, stopping, agent, over>>
    BY <1>3, LockStepsAre DEF SetsStatus, letting, window, transport
  <2> QED BY <1>1, <2>1, GoingOn DEF IInv, AgentsFit
<1>4. CASE Pushes
  <2>1. /\ GoesOn(AfterStatus, AfterPush)
        /\ UNCHANGED <<live, latest, ui, woken, agent, over>>
    BY <1>4, LockStepsAre DEF Pushes, window, transport
  <2>2. \/ lock.polite /\ graceful' = graceful \cup {lock.gen} /\ stopping' = stopping \cup {lock.gen}
        \/ ~lock.polite /\ UNCHANGED <<graceful, stopping>>
    BY <1>4 DEF Pushes
  <2> QED BY <1>1, <2>1, <2>2, GoingOn DEF IInv, AgentsFit
<1>5. CASE Wakes
  <2>1. /\ GoesOn(AfterPush, AfterWake) /\ woken' = woken \cup {lock.gen}
        /\ agent' = Killed({lock.gen} \ graceful)
        /\ UNCHANGED <<live, latest, ui, graceful, stopping, over>>
    BY <1>5, LockStepsAre DEF Wakes, window
  <2>2. \A g \in Gens : agent'[g] = IF g = lock.gen /\ g \notin graceful THEN "gone" ELSE agent[g]
    BY <2>1 DEF Killed
  <2>3. agent[lock.gen] # "none"
    <3>1. ~(lock.gen > latest)
      BY <1>1, HolderIsLast
    <3> QED BY <1>1, <3>1 DEF IInv, AgentsFit
  <2>4. lock.gen \in graceful => lock.polite
    BY <1>1 DEF IInv, LettingFits
  <2> QED BY <1>1, <2>1, <2>2, <2>3, <2>4, GoingOn DEF IInv, AgentsFit
<1>6. CASE Cancels
  <2>1. /\ LetsGo /\ Free' /\ UNCHANGED <<live, latest, ui, woken, graceful, stopping, agent, over>>
    BY <1>6, LockStepsAre DEF Cancels, window, transport, LetsGo, Free, Unlocked
  <2> QED BY <1>1, <2>1 DEF IInv, AgentsFit, LetsGo
<1> QED BY <1>2, <1>3, <1>4, <1>5, <1>6

LEMMA AgentsTurn ==
  ASSUME IInv, Takes \/ Spawn \/ Greet \/ Publish \/ Kill
  PROVE  AgentsFit'
<1> USE RestsDiffer, Numbers
<1>1. CASE Takes
  <2>1. /\ UNCHANGED <<live, latest, woken, graceful, stopping, agent, over>> /\ Free /\ ui = "idle"
    BY <1>1 DEF Takes, letting, transport
  <2> QED BY <2>1 DEF IInv, AgentsFit, Between
<1>2. ASSUME ui # "idle", lock.by # Window PROVE Free /\ live = 0
  BY <1>2, AwayIsFree
<1>3. CASE Spawn
  <2>1. /\ ui = "spawn" /\ ui' = "greet" /\ lock.by # Window /\ latest' = latest + 1
        /\ UNCHANGED <<live, lock, woken, graceful, stopping>>
    BY <1>3 DEF Spawn, At, letting
  <2>2. Free /\ latest' \in Gens /\ latest \in Nat
    BY <1>2, <2>1 DEF IInv, WindowFits, Between, TypeOK, Gens
  <2>3. /\ agent'[latest'] \in {"running", "gone"}
        /\ \A g \in Gens \ {latest'} : agent'[g] = agent[g]
        /\ over' = over \/ (over' = over \cup {latest'} /\ agent'[latest'] = "gone")
    BY <1>3, <2>2 DEF Spawn, IInv, TypeOK
  <2>4. agent[latest'] = "none"
    BY <2>1, <2>2 DEF IInv, AgentsFit
  <2>5. latest' \notin over
    BY <2>2, <2>4 DEF IInv, AgentsFit
  <2>6. latest' \notin woken
    <3>1. ~Published(latest')
      BY <2>1, <2>2 DEF IInv, WindowFits
    <3> QED BY <2>2, <3>1 DEF IInv, LettingFits
  <2>7. \A g \in Gens \ {latest'} : g > latest <=> g > latest'
    BY <2>1, <2>2
  <2> QED BY <2>1, <2>2, <2>3, <2>5, <2>6, <2>7 DEF IInv, AgentsFit, Between, Free
<1>4. CASE Greet \/ Publish
  <2>1. /\ ui \in Between /\ lock.by # Window /\ (ui' \in Between \/ live' = latest)
        /\ UNCHANGED <<latest, lock, woken, graceful, stopping, agent, over>>
    BY <1>4 DEF Greet, Publish, At, letting, transport, Between
  <2>2. Free /\ live = 0
    BY <1>2, <2>1 DEF Between
  <2> QED BY <2>1, <2>2 DEF IInv, AgentsFit, Free
<1>5. CASE Kill
  <2>1. /\ ui = "kill" /\ ui' = "closed" /\ lock.by # Window /\ agent' = Killed(stopping)
        /\ UNCHANGED <<live, latest, lock, woken, graceful, over>>
    BY <1>5 DEF Kill, At, connection, ToKill
  <2>2. Free /\ live = 0
    BY <1>2, <2>1
  <2>3. \A g \in Gens : agent'[g] = IF g \in stopping THEN "gone" ELSE agent[g]
    BY <2>1 DEF Killed
  <2>4. \A g \in stopping : g \in Gens /\ g <= latest
    BY <2>2 DEF IInv, TypeOK, LettingFits, WindowFits
  <2>5. latest \in Nat
    BY DEF IInv, TypeOK
  <2> QED BY <2>1, <2>2, <2>3, <2>4, <2>5 DEF IInv, AgentsFit, Between
<1> QED BY <1>1, <1>3, <1>4, <1>5

LEMMA AgentsKeep == IInv /\ [Next]_vars => AgentsFit'
<1> SUFFICES ASSUME IInv, [Next]_vars PROVE AgentsFit'
  OBVIOUS
<1> USE RestsDiffer, Numbers
<1>1. CASE Logs \/ SetsStatus \/ Pushes \/ Wakes \/ Cancels
  BY <1>1, AgentsHold
<1>2. CASE Takes \/ Spawn \/ Greet \/ Publish \/ Kill
  BY <1>2, AgentsTurn
<1>3. CASE OnlyLaunch \/ UNCHANGED vars
  <2>1. UNCHANGED <<live, latest, ui, lock, woken, graceful, stopping, agent, over>>
    BY <1>3 DEF OnlyLaunch, vars, connection, letting, window, transport
  <2> QED BY <2>1 DEF IInv, AgentsFit, Free
<1>4. ASSUME NEW g \in Gens, Carries, Sends(g) \/ Dies(g) \/ Ends(g) \/ Finishes(g)
      PROVE  AgentsFit'
  <2>1. UNCHANGED <<live, latest, ui, lock, woken, graceful, stopping>>
    BY <1>4 DEF Carries, connection, letting, window
  <2>2. \/ UNCHANGED <<agent, over>>
        \/ agent[g] = "running" /\ agent' = [agent EXCEPT ![g] = "gone"] /\ UNCHANGED over
        \/ agent[g] = "gone" /\ over' = over \cup {g} /\ UNCHANGED agent
    BY <1>4 DEF Sends, Dies, Ends, Finishes
  <2>3. agent \in [Gens -> {"none", "running", "gone"}]
    BY DEF IInv, TypeOK
  <2> QED BY <2>1, <2>2, <2>3 DEF IInv, AgentsFit, Free
<1>5. ASSUME NEW g \in Gens, Works(g) PROVE AgentsFit'
  <2>1. /\ UNCHANGED <<live, latest, ui, woken, graceful, agent, over>>
        /\ stopping' = stopping \/ (stopping' = stopping \ {g} /\ agent[g] # "running")
    BY <1>5 DEF Works, window
  <2>2. lock' = lock \/ Free
    BY <1>5 DEF Works, Tells
  <2> QED BY <2>1, <2>2 DEF IInv, AgentsFit, Free
<1> QED BY <1>1, <1>2, <1>3, <1>4, <1>5, StepsAre

(***************************************************************************)
(* The readers.                                                            *)
(***************************************************************************)
LEMMA SaidMore ==
  ASSUME TypeOK, NEW g \in Gens, NEW word \in Kinds, diags' = [diags EXCEPT ![g] = Append(@, word)]
  PROVE  /\ diags' \in [Gens -> Seq(Kinds)]
         /\ \A h \in Gens \ {g} : diags'[h] = diags[h]
         /\ \A kind : Said(g, kind)' => Said(g, kind) \/ kind = word
<1>1. diags[g] \in Seq(Kinds) /\ diags \in [Gens -> Seq(Kinds)]
  BY DEF TypeOK
<1>2. PICK s \in Seq(Kinds) : s = diags[g]
  BY <1>1
<1>3. /\ Append(s, word) \in Seq(Kinds) /\ Len(Append(s, word)) = Len(s) + 1
      /\ DOMAIN s = 1..Len(s) /\ DOMAIN Append(s, word) = 1..(Len(s) + 1)
      /\ Append(s, word)[Len(s) + 1] = word
      /\ \A i \in 1..Len(s) : Append(s, word)[i] = s[i]
  BY <1>2
<1>4. \A i \in DOMAIN Append(s, word) : i \in DOMAIN s \/ i = Len(s) + 1
  BY <1>3
<1>5. diags'[g] = Append(s, word)
  BY <1>1, <1>2
<1> QED BY <1>1, <1>2, <1>3, <1>4, <1>5 DEF Said

\* What holds of one reader.
ReaderFits(g) ==
  /\ reader[g].released => g \in cancelled
  /\ reader[g].at = "after" /\ ~reader[g].released => g \in over
  /\ reader[g].exit \/ Said(g, "exited") => g \in over
  /\ Published(g) /\ ~reader[g].lines => g \in over
  /\ Said(g, "stopped") => g \in woken
  /\ ~Published(g) => reader[g] = Unborn

LEMMA ReadersAre == ReadersFit <=> \A g \in Gens : ReaderFits(g)
  BY DEF ReadersFit, ReaderFits

\* Whoever reads nothing and hears nothing fits as before.
LEMMA OthersFit ==
  ASSUME IInv, NEW g \in Gens, reader'[g] = reader[g], diags'[g] = diags[g],
         cancelled \subseteq cancelled', woken \subseteq woken', over \subseteq over'
  PROVE  ReaderFits(g)'
<1>1. ReaderFits(g)
  BY ReadersAre DEF IInv
<1>2. /\ Published(g)' <=> Published(g)
      /\ Said(g, "exited")' <=> Said(g, "exited")
      /\ Said(g, "stopped")' <=> Said(g, "stopped")
  BY DEF Published, Said
<1> QED BY <1>1, <1>2 DEF ReaderFits

\* What a reader does to its own record.
LEMMA ReadingFits ==
  ASSUME IInv, NEW g \in Gens, ReaderSteps(g) \/ Panic(g), Works(g)
  PROVE  ReaderFits(g)'
<1>1. TypeOK /\ ReaderFits(g) /\ Published(g) /\ Published(g)'
  BY ReadersAre DEF IInv, Works
<1>2. UNCHANGED <<cancelled, woken, over>>
  BY DEF Works
<1>3. \A r : Set(g, r) => reader'[g] = r
  BY <1>1 DEF Set, TypeOK
<1>4. PICK r : r = reader[g]
  OBVIOUS
<1>5. r \in [at : {"none", "drain", "after", "stopping", "panicked", "done"},
             receiving : BOOLEAN, lines : BOOLEAN, exit : BOOLEAN,
             hand : BOOLEAN, released : BOOLEAN]
  BY <1>1, <1>4, ReaderIsTyped
<1>6. CASE Pull(g) \/ Record(g) \/ ReceiveEnds(g)
  <2>1. /\ diags' = diags /\ r.at = "drain"
        /\ \/ reader'[g] = [r EXCEPT !.hand = TRUE]
           \/ reader'[g] = [r EXCEPT !.hand = FALSE]
           \/ reader'[g] = [r EXCEPT !.hand = FALSE, !.receiving = FALSE]
           \/ reader'[g] = [r EXCEPT !.receiving = FALSE]
    BY <1>3, <1>4, <1>6 DEF Pull, Record, ReceiveEnds, transport, Draining, Reader
  <2>2. /\ reader'[g].at = r.at /\ reader'[g].released = r.released /\ reader'[g].exit = r.exit
        /\ reader'[g].lines = r.lines
    BY <1>5, <2>1
  <2>3. Said(g, "exited")' = Said(g, "exited") /\ Said(g, "stopped")' = Said(g, "stopped")
    BY <2>1 DEF Said
  <2> QED BY <1>1, <1>2, <1>4, <2>2, <2>3 DEF ReaderFits
<1>7. CASE Hear(g) \/ Dropped(g)
  <2>1. diags[g] # <<>> /\ diags' = [diags EXCEPT ![g] = Tail(@)]
    BY <1>7 DEF Hear, Dropped
  <2>2. /\ \A kind : Said(g, kind)' => Said(g, kind)
        /\ Said(g, Head(diags[g]))
    BY <1>1, <2>1, TailIsTyped DEF Said
  <2>3. \/ reader' = reader
        \/ reader'[g] = [r EXCEPT !.exit = TRUE] /\ Said(g, "exited")
    BY <1>3, <1>4, <1>7, <2>2 DEF Hear, Dropped, Holds, reading
  <2>4. /\ reader'[g].at = r.at /\ reader'[g].released = r.released
        /\ reader'[g].lines = r.lines /\ (reader'[g].exit => r.exit \/ Said(g, "exited"))
    BY <1>4, <1>5, <2>3
  <2> QED BY <1>1, <1>2, <1>4, <2>2, <2>4 DEF ReaderFits
<1>8. CASE HearsLast(g) \/ TellsExit(g) \/ Leaves(g) \/ After(g) \/ Stopped(g) \/ Panic(g) \/ Caught(g)
  <2>1. diags' = diags
    BY <1>8 DEF HearsLast, TellsExit, Leaves, After, Stopped, Panic, Caught, transport
  <2>2. Said(g, "exited")' = Said(g, "exited") /\ Said(g, "stopped")' = Said(g, "stopped")
    BY <2>1 DEF Said
  <2>3. \/ reader'[g] = [r EXCEPT !.lines = FALSE] /\ g \in over
        \/ reader'[g] = [r EXCEPT !.at = "after"] /\ (r.exit \/ ~r.lines)
        \/ reader'[g] = [r EXCEPT !.at = "after", !.released = TRUE] /\ g \in cancelled
        \/ reader'[g] = [r EXCEPT !.at = "stopping"]
        \/ reader'[g] = [r EXCEPT !.at = "done"]
        \/ reader'[g] = [r EXCEPT !.at = "panicked"]
    BY <1>3, <1>4, <1>8 DEF HearsLast, TellsExit, Leaves, After, Stopped, Panic, Caught
  <2>4. /\ reader'[g].released => r.released \/ g \in cancelled
        /\ reader'[g].exit = r.exit
        /\ reader'[g].lines = r.lines \/ g \in over
        /\ reader'[g].at = "after" => r.at = "after" \/ reader'[g].released \/ g \in over \/ r.exit \/ ~r.lines
    BY <1>5, <2>3
  <2>5. ~reader'[g].released => ~r.released
    BY <1>5, <2>3
  <2> QED BY <1>1, <1>2, <1>4, <2>2, <2>4, <2>5 DEF ReaderFits
<1> QED BY <1>6, <1>7, <1>8 DEF ReaderSteps

LEMMA ReadersKeep == IInv /\ [Next]_vars => ReadersFit'
<1> SUFFICES ASSUME IInv, [Next]_vars, NEW h \in Gens PROVE ReaderFits(h)'
  BY DEF ReadersFit, ReaderFits
<1> USE Numbers
<1>0. ReaderFits(h) /\ TypeOK
  BY ReadersAre DEF IInv
<1>1. CASE \/ Logs \/ SetsStatus \/ Pushes \/ Wakes \/ Cancels \/ Takes \/ Greet \/ Kill
           \/ OnlyLaunch \/ UNCHANGED vars
  <2>1. /\ UNCHANGED <<reader, diags, over>> /\ cancelled \subseteq cancelled'
        /\ woken \subseteq woken'
    BY <1>1 DEF Logs, SetsStatus, Pushes, Wakes, Cancels, Takes, Greet, Kill, OnlyLaunch, vars,
                letting, reading, transport
  <2> QED BY <2>1, OthersFit
<1>2. CASE Spawn
  <2>1. /\ ui = "spawn" /\ lock.by # Window /\ latest' = latest + 1
        /\ UNCHANGED <<reader, cancelled, woken>> /\ over \subseteq over'
        /\ diags' = diags \/ diags' = [diags EXCEPT ![latest'] = <<"spawn">>]
    BY <1>2 DEF Spawn, At, letting, reading
  <2>2. CASE diags'[h] = diags[h]
    BY <2>1, <2>2, OthersFit
  <2>3. CASE diags'[h] # diags[h]
    <3>1. diags'[h] = <<"spawn">>
      BY <1>0, <2>1, <2>3 DEF TypeOK
    <3>2. ~Said(h, "exited")' /\ ~Said(h, "stopped")'
      BY <3>1 DEF Said
    <3>3. Published(h)' <=> Published(h)
      BY <2>1 DEF Published
    <3> QED BY <1>0, <2>1, <3>2, <3>3 DEF ReaderFits
  <2> QED BY <2>2, <2>3
<1>3. CASE Publish
  <2>1. /\ reader' = [reader EXCEPT ![latest] = Fresh] /\ UNCHANGED <<diags, over, cancelled, woken>>
    BY <1>3 DEF Publish, letting, transport
  <2>2. CASE reader'[h] = reader[h]
    BY <2>1, <2>2, OthersFit
  <2>3. CASE reader'[h] # reader[h]
    <3>1. reader'[h] = Fresh
      BY <1>0, <2>1, <2>3 DEF TypeOK
    <3>2. Said(h, "exited")' = Said(h, "exited") /\ Said(h, "stopped")' = Said(h, "stopped")
      BY <2>1 DEF Said
    <3>3. Fresh.at = "drain" /\ ~Fresh.released /\ ~Fresh.exit /\ Fresh.lines
      BY DEF Fresh, Unborn
    <3> QED BY <1>0, <2>1, <3>1, <3>2, <3>3 DEF ReaderFits, Published
  <2> QED BY <2>2, <2>3
<1>4. ASSUME NEW g \in Gens, Carries, Sends(g) \/ Dies(g) \/ Ends(g) \/ Finishes(g)
      PROVE  ReaderFits(h)'
  <2>1. UNCHANGED <<reader, cancelled, woken>>
    BY <1>4 DEF Carries, letting, reading
  <2>2. Published(h)' <=> Published(h)
    BY <2>1 DEF Published
  <2>3. CASE UNCHANGED diags /\ over \subseteq over'
    BY <2>1, <2>3, OthersFit
  <2>4. CASE /\ diags' = [diags EXCEPT ![g] = Append(@, "failed")] /\ over' = over
    <3>1. Said(h, "exited")' => Said(h, "exited")
      BY <1>0, <2>4, SaidMore DEF Kinds, Said
    <3>2. Said(h, "stopped")' => Said(h, "stopped")
      BY <1>0, <2>4, SaidMore DEF Kinds, Said
    <3> QED BY <1>0, <2>1, <2>2, <2>4, <3>1, <3>2 DEF ReaderFits
  <2>5. CASE /\ diags' = [diags EXCEPT ![g] = Append(@, "exited")] /\ over' = over \cup {g}
    <3>1. Said(h, "exited")' => Said(h, "exited") \/ h = g
      BY <1>0, <2>5, SaidMore DEF Kinds, Said
    <3>2. Said(h, "stopped")' => Said(h, "stopped")
      BY <1>0, <2>5, SaidMore DEF Kinds, Said
    <3> QED BY <1>0, <2>1, <2>2, <2>5, <3>1, <3>2 DEF ReaderFits
  <2>6. CASE /\ diags' = [diags EXCEPT ![g] = Append(@, "stopped")] /\ over' = over \cup {g}
             /\ g \in woken
    <3>1. Said(h, "exited")' => Said(h, "exited")
      BY <1>0, <2>6, SaidMore DEF Kinds, Said
    <3>2. Said(h, "stopped")' => Said(h, "stopped") \/ h = g
      BY <1>0, <2>6, SaidMore DEF Kinds, Said
    <3> QED BY <1>0, <2>1, <2>2, <2>6, <3>1, <3>2 DEF ReaderFits
  <2> QED BY <1>4, <2>3, <2>4, <2>5, <2>6 DEF Sends, Dies, Ends, Finishes
<1>5. ASSUME NEW g \in Gens, Works(g), ReaderSteps(g) \/ Panic(g)
      PROVE  ReaderFits(h)'
  <2>1. CASE h = g
    BY <1>5, <2>1, ReadingFits
  <2>2. CASE h # g
    <3>1. reader'[h] = reader[h] /\ diags'[h] = diags[h] /\ UNCHANGED <<cancelled, woken, over>>
      BY <1>5, <2>2 DEF Works
    <3> QED BY <3>1, OthersFit
  <2> QED BY <2>1, <2>2
<1> QED BY <1>1, <1>2, <1>3, <1>4, <1>5, StepsAre

(***************************************************************************)
(* The tail of the frames.                                                 *)
(***************************************************************************)
TailIsKept(g) ==
  /\ g \notin cancelled => kept[g] + frames[g] + InHand(g) = made[g]
  /\ Published(g) /\ g \notin cancelled /\ ~reader[g].receiving =>
       ~reader[g].hand /\ frames[g] = 0 /\ g \in eof
  /\ Told(g) => kept[g] = made[g] /\ ~reader[g].hand /\ frames[g] = 0 /\ g \in eof

LEMMA TailsAre == TailFits <=> \A g \in Gens : TailIsKept(g)
  BY DEF TailFits, TailIsKept

\* Whose books are not touched, and of whom nothing new is told, keeps its tail.
LEMMA OthersKeep ==
  ASSUME IInv, NEW g \in Gens, reader'[g] = reader[g], kept'[g] = kept[g],
         frames'[g] = frames[g], made'[g] = made[g], eof \subseteq eof',
         cancelled \subseteq cancelled', Told(g)' => Told(g)
  PROVE  TailIsKept(g)'
<1>1. TailIsKept(g)
  BY TailsAre DEF IInv
<1>2. (Published(g)' <=> Published(g)) /\ InHand(g)' = InHand(g)
  BY DEF Published, InHand
<1> QED BY <1>1, <1>2 DEF TailIsKept

\* Telling an exit takes a reader that holds it back until its tail is in.
LEMMA NothingIsTold ==
  ASSUME IInv, [Next]_vars, NEW h \in Gens, Told(h)', ~Told(h)
  PROVE  Works(h) /\ Owns(h) /\ reader[h].exit /\ ~reader[h].receiving /\ TellsExit(h)
<1> USE Numbers
<1>1. CASE Logs
  <2>1. GoesOn(Whole, AfterLog) /\ log' = log \cup {<<lock.by, lock.kind>>}
    BY <1>1, LockStepsAre DEF Logs
  <2> QED BY <2>1, GoingOn DEF Told
<1>2. CASE SetsStatus \/ Pushes \/ Wakes
  <2>1. lock'.by = lock.by /\ lock'.kind = lock.kind /\ log' = log
    BY <1>2, LockStepsAre, GoingOn DEF SetsStatus, Pushes, Wakes
  <2> QED BY <2>1 DEF Told
<1>3. CASE Cancels
  <2>1. LetsGo /\ log' = log
    BY <1>3, LockStepsAre DEF Cancels
  <2> QED BY <2>1 DEF Told, LetsGo, Unlocked
<1>4. CASE Takes
  <2>1. log' = log /\ (lock' = lock \/ lock'.by = Window)
    BY <1>4 DEF Takes, Starts
  <2> QED BY <2>1 DEF Told
<1>5. CASE Spawn \/ Greet \/ Publish \/ Kill \/ OnlyLaunch \/ Carries \/ UNCHANGED vars
  <2>1. log' = log /\ lock' = lock
    BY <1>5 DEF Spawn, Greet, Publish, Kill, OnlyLaunch, Carries, vars, connection
  <2> QED BY <2>1 DEF Told
<1>6. ASSUME NEW g \in Gens, Works(g), ReaderSteps(g) \/ Panic(g)
      PROVE  Works(h) /\ Owns(h) /\ reader[h].exit /\ ~reader[h].receiving /\ TellsExit(h)
  <2>1. <<h, "exited">> \in log' => <<h, "exited">> \in log
    BY <1>6 DEF Works
  <2>2. lock'.by = h /\ lock'.kind = "exited" /\ lock' # lock
    BY <2>1 DEF Told
  <2>3. g = h /\ Tells(h, "exited") /\ reader[h].exit /\ ~reader[h].receiving /\ Owns(h)
    BY <1>6, <2>2 DEF Works, Tells
  <2>4. Hear(g) \/ TellsExit(g) \/ Caught(g)
    BY <1>6, <2>2 DEF ReaderSteps, Panic, Pull, Record, ReceiveEnds, HearsLast, Leaves, After,
                      Dropped, Stopped, connection
  <2>5. ~Hear(g)
    BY <2>3 DEF Hear
  <2>6. ~Caught(g)
    BY <2>2, <2>3 DEF Caught, Observe
  <2> QED BY <1>6, <2>3, <2>4, <2>5, <2>6
<1> QED BY <1>1, <1>2, <1>3, <1>4, <1>5, <1>6, StepsAre

\* What a reader does with its own frames.
LEMMA OwnTail ==
  ASSUME IInv, [Next]_vars, NEW g \in Gens, Works(g), ReaderSteps(g) \/ Panic(g)
  PROVE  TailIsKept(g)'
<1>1. TypeOK /\ TailIsKept(g) /\ Published(g) /\ Published(g)'
  BY TailsAre DEF IInv, Works
<1>2. UNCHANGED <<cancelled, made, eof>>
  BY DEF Works
<1>3. \A r : Set(g, r) => reader'[g] = r
  BY <1>1 DEF Set, TypeOK
<1>4. PICK r : r = reader[g]
  OBVIOUS
<1>5. r \in [at : {"none", "drain", "after", "stopping", "panicked", "done"},
             receiving : BOOLEAN, lines : BOOLEAN, exit : BOOLEAN,
             hand : BOOLEAN, released : BOOLEAN]
  BY <1>1, <1>4, ReaderIsTyped
<1>6. /\ kept[g] \in Nat /\ made[g] \in Nat /\ frames[g] \in Nat
      /\ kept \in [Gens -> Nat] /\ frames \in [Gens -> Nat]
  BY <1>1 DEF TypeOK
<1>7. CASE Pull(g)
  <2>1. /\ reader'[g] = [r EXCEPT !.hand = TRUE] /\ r.receiving /\ ~r.hand /\ frames[g] > 0
        /\ frames'[g] = frames[g] - 1 /\ kept'[g] = kept[g]
    BY <1>3, <1>4, <1>6, <1>7 DEF Pull
  <2>2. reader'[g].hand /\ reader'[g].receiving
    BY <1>5, <2>1
  <2>3. ~Told(g)
    BY <1>1, <2>1 DEF TailIsKept
  <2>4. ~Told(g)'
    <3>1. ~TellsExit(g)
      BY <1>4, <2>1 DEF TellsExit
    <3> QED BY <2>3, <3>1, NothingIsTold
  <2>5. InHand(g) = 0 /\ InHand(g)' = 1
    BY <1>4, <2>1, <2>2 DEF InHand
  <2>6. g \notin cancelled => kept[g] + frames[g] = made[g]
    BY <1>1, <1>6, <2>5 DEF TailIsKept
  <2>7. g \notin cancelled => kept'[g] + frames'[g] + InHand(g)' = made[g]
    BY <1>6, <2>1, <2>5, <2>6
  <2> QED BY <1>2, <2>2, <2>4, <2>7 DEF TailIsKept
<1>8. CASE Record(g)
  <2>1. r.hand /\ UNCHANGED <<frames, log, lock>>
    BY <1>4, <1>8 DEF Record, transport, connection
  <2>2. ~Told(g)'
    BY <1>1, <1>4, <2>1 DEF Told, TailIsKept
  <2>3. CASE Owns(g)
    <3>1. reader'[g] = [r EXCEPT !.hand = FALSE] /\ kept'[g] = kept[g] + 1 /\ frames'[g] = frames[g]
      BY <1>3, <1>4, <1>6, <1>8, <2>1, <2>3 DEF Record
    <3>2. ~reader'[g].hand /\ reader'[g].receiving = r.receiving
      BY <1>5, <3>1
    <3>3. InHand(g) = 1 /\ InHand(g)' = 0
      BY <1>4, <2>1, <3>2 DEF InHand
    <3>4. kept[g] + frames[g] + 1 = made[g]
      BY <1>1, <2>3, <3>3 DEF TailIsKept, Owns
    <3>5. kept'[g] + frames'[g] + InHand(g)' = made[g]
      BY <1>6, <3>1, <3>3, <3>4
    <3>6. r.receiving
      BY <1>1, <1>4, <2>1, <2>3 DEF TailIsKept, Owns
    <3> QED BY <1>2, <2>2, <3>2, <3>5, <3>6 DEF TailIsKept
  <2>4. CASE ~Owns(g)
    BY <1>2, <2>2, <2>4 DEF TailIsKept, Owns
  <2> QED BY <2>3, <2>4
<1>9. CASE ReceiveEnds(g)
  <2>1. /\ reader'[g] = [r EXCEPT !.receiving = FALSE] /\ ~r.hand
        /\ ~Owns(g) \/ (frames[g] = 0 /\ g \in eof)
        /\ UNCHANGED <<kept, frames, log, lock>>
    BY <1>3, <1>4, <1>9 DEF ReceiveEnds, transport, connection
  <2>2. ~reader'[g].hand
    BY <1>5, <2>1
  <2>3. Told(g)' = Told(g) /\ InHand(g)' = InHand(g)
    BY <1>4, <2>1, <2>2 DEF Told, InHand
  <2> QED BY <1>1, <1>2, <2>1, <2>2, <2>3 DEF TailIsKept, Owns
<1>10. CASE TellsExit(g)
  <2>1. /\ reader'[g] = [r EXCEPT !.at = "after"] /\ UNCHANGED <<kept, frames>>
        /\ ~r.receiving
    BY <1>3, <1>4, <1>10 DEF TellsExit, transport
  <2>2. reader'[g].hand = r.hand /\ reader'[g].receiving = r.receiving
    BY <1>5, <2>1
  <2>3. InHand(g)' = InHand(g)
    BY <1>4, <2>2 DEF InHand
  <2>4. Told(g)' => Told(g) \/ g \notin cancelled
    BY NothingIsTold DEF Owns
  <2>5. CASE g \in cancelled
    BY <1>1, <1>2, <1>4, <2>1, <2>2, <2>3, <2>4, <2>5 DEF TailIsKept
  <2>6. CASE g \notin cancelled
    <3>1. ~r.hand /\ frames[g] = 0 /\ g \in eof
      BY <1>1, <1>4, <2>1, <2>6 DEF TailIsKept
    <3>2. kept[g] = made[g]
      BY <1>1, <1>4, <1>6, <2>6, <3>1 DEF TailIsKept, InHand
    <3> QED BY <1>1, <1>2, <1>4, <2>1, <2>2, <2>3, <2>6, <3>1, <3>2 DEF TailIsKept
  <2> QED BY <2>5, <2>6
<1>11. CASE Hear(g) \/ HearsLast(g) \/ Leaves(g) \/ After(g) \/ Dropped(g) \/ Stopped(g)
            \/ Panic(g) \/ Caught(g)
  <2>1. /\ UNCHANGED <<kept, frames>>
        /\ \/ reader'[g] = r
           \/ reader'[g] = [r EXCEPT !.exit = TRUE]
           \/ reader'[g] = [r EXCEPT !.lines = FALSE]
           \/ reader'[g] = [r EXCEPT !.at = "after"]
           \/ reader'[g] = [r EXCEPT !.at = "after", !.released = TRUE]
           \/ reader'[g] = [r EXCEPT !.at = "stopping"]
           \/ reader'[g] = [r EXCEPT !.at = "done"]
           \/ reader'[g] = [r EXCEPT !.at = "panicked"]
    BY <1>3, <1>4, <1>11 DEF Hear, HearsLast, Leaves, After, Dropped, Stopped, Panic, Caught,
                             reading, transport
  <2>2. reader'[g].hand = r.hand /\ reader'[g].receiving = r.receiving
    BY <1>5, <2>1
  <2>3. InHand(g)' = InHand(g)
    BY <1>4, <2>2 DEF InHand
  <2>4. CASE Told(g)' => Told(g)
    BY <1>1, <1>2, <1>4, <2>1, <2>2, <2>3, <2>4 DEF TailIsKept
  <2>5. CASE Told(g)' /\ ~Told(g)
    BY <1>10, <2>5, NothingIsTold
  <2> QED BY <2>4, <2>5
<1> QED BY <1>7, <1>8, <1>9, <1>10, <1>11 DEF ReaderSteps

LEMMA TailKeeps == IInv /\ [Next]_vars => TailFits'
<1> SUFFICES ASSUME IInv, [Next]_vars, NEW h \in Gens PROVE TailIsKept(h)'
  BY DEF TailFits, TailIsKept
<1> USE Numbers
<1>0. TailIsKept(h) /\ TypeOK
  BY TailsAre DEF IInv
<1>2. ASSUME Told(h)', ~Told(h), NEW g \in Gens, Works(g), ReaderSteps(g) \/ Panic(g)
      PROVE  TailIsKept(h)'
  BY <1>2, NothingIsTold, OwnTail DEF ReaderSteps
<1>3. CASE \/ Logs \/ SetsStatus \/ Pushes \/ Wakes \/ Cancels \/ Takes \/ Spawn \/ Greet \/ Kill
           \/ OnlyLaunch \/ UNCHANGED vars
  <2>1. /\ UNCHANGED <<reader, kept, frames, made>> /\ cancelled \subseteq cancelled'
        /\ eof \subseteq eof'
    BY <1>3 DEF Logs, SetsStatus, Pushes, Wakes, Cancels, Takes, Spawn, Greet, Kill, OnlyLaunch,
                vars, letting, reading, transport
  <2>2. CASE Told(h)' => Told(h)
    BY <2>1, <2>2, OthersKeep
  <2>3. CASE Told(h)' /\ ~Told(h)
    BY <2>3, NothingIsTold, OwnTail DEF ReaderSteps
  <2> QED BY <2>2, <2>3
<1>4. CASE Publish
  <2>1. /\ ui = "publish" /\ lock.by # Window /\ reader' = [reader EXCEPT ![latest] = Fresh]
        /\ UNCHANGED <<log, lock, cancelled, kept, frames, made, eof>>
    BY <1>4 DEF Publish, At, letting, transport
  <2>2. Told(h)' = Told(h)
    BY <2>1 DEF Told
  <2>3. CASE reader'[h] = reader[h]
    BY <2>1, <2>2, <2>3, OthersKeep
  <2>4. CASE reader'[h] # reader[h]
    <3>1. reader'[h] = Fresh /\ h = latest
      BY <1>0, <2>1, <2>4 DEF TypeOK
    <3>2. ~Published(h)
      BY <2>1, <3>1 DEF IInv, WindowFits, Between
    <3>3. reader[h] = Unborn
      BY <3>2 DEF IInv, ReadersFit
    <3>4. ~Fresh.hand /\ Fresh.receiving /\ ~Unborn.hand
      BY DEF Fresh, Unborn
    <3>5. InHand(h)' = InHand(h)
      BY <3>1, <3>3, <3>4 DEF InHand
    <3> QED BY <1>0, <2>1, <2>2, <3>1, <3>3, <3>4, <3>5 DEF TailIsKept
  <2> QED BY <2>3, <2>4
<1>5. ASSUME NEW g \in Gens, Carries, Sends(g) \/ Dies(g) \/ Ends(g) \/ Finishes(g)
      PROVE  TailIsKept(h)'
  <2>1. UNCHANGED <<log, lock, cancelled, reader, kept>> /\ (Told(h)' <=> Told(h))
    BY <1>5 DEF Carries, connection, letting, reading, Told
  <2>2. CASE eof \subseteq eof' /\ frames'[h] = frames[h] /\ made'[h] = made[h]
    BY <2>1, <2>2, OthersKeep
  <2>3. CASE Sends(h)
    <3>1. /\ h \notin eof /\ made'[h] = made[h] + 1 /\ frames'[h] = frames[h] + 1 /\ eof' = eof
      BY <1>0, <2>3 DEF Sends, TypeOK
    <3>2. kept[h] \in Nat /\ frames[h] \in Nat /\ made[h] \in Nat /\ InHand(h) \in Nat
      BY <1>0 DEF TypeOK, InHand
    <3>3. ~Told(h) /\ (Published(h) /\ h \notin cancelled => reader[h].receiving)
      BY <1>0, <3>1 DEF TailIsKept
    <3>4. (Published(h)' <=> Published(h)) /\ InHand(h)' = InHand(h)
      BY <2>1 DEF Published, InHand
    <3>5. h \notin cancelled => kept[h] + frames'[h] + InHand(h) = made'[h]
      <4>1. h \notin cancelled => kept[h] + frames[h] + InHand(h) = made[h]
        BY <1>0 DEF TailIsKept
      <4> QED BY <3>1, <3>2, <4>1
    <3> QED BY <2>1, <3>3, <3>4, <3>5 DEF TailIsKept
  <2>4. CASE Sends(g) /\ g # h
    <3>1. eof' = eof /\ frames'[h] = frames[h] /\ made'[h] = made[h]
      BY <1>0, <2>4 DEF Sends, TypeOK
    <3> QED BY <2>2, <3>1
  <2>5. CASE Dies(g) \/ Ends(g) \/ Finishes(g)
    <3>1. eof \subseteq eof' /\ frames' = frames /\ made' = made
      BY <2>5 DEF Dies, Ends, Finishes
    <3> QED BY <2>2, <3>1
  <2> QED BY <1>5, <2>3, <2>4, <2>5
<1>6. ASSUME NEW g \in Gens, Works(g), ReaderSteps(g) \/ Panic(g)
      PROVE  TailIsKept(h)'
  <2>1. CASE h = g
    BY <1>6, <2>1, OwnTail
  <2>2. CASE h # g /\ (Told(h)' => Told(h))
    <3>1. /\ reader'[h] = reader[h] /\ kept'[h] = kept[h] /\ frames'[h] = frames[h]
          /\ UNCHANGED <<made, eof, cancelled>>
      BY <1>6, <2>2 DEF Works
    <3> QED BY <2>2, <3>1, OthersKeep
  <2>3. CASE Told(h)' /\ ~Told(h)
    BY <1>2, <1>6, <2>3
  <2> QED BY <2>1, <2>2, <2>3
<1> QED BY <1>3, <1>4, <1>5, <1>6, StepsAre

(***************************************************************************)
(* The types.                                                              *)
(***************************************************************************)
LEMMA RestsAreTyped == Rests \subseteq Seq({"log", "status", "push", "wake", "cancel"})
<1> DEFINE steps == {"log", "status", "push", "wake", "cancel"}
<1>1. Whole \in Seq(steps) /\ AfterLog \in Seq(steps)
  BY DEF Whole, AfterLog
<1>2. AfterStatus \in Seq(steps) /\ AfterPush \in Seq(steps) /\ AfterWake \in Seq(steps)
  BY DEF AfterStatus, AfterPush, AfterWake
<1> HIDE DEF steps
<1>3. Rests \subseteq Seq(steps)
  BY <1>1, <1>2, RestsDiffer
<1> QED BY <1>3 DEF steps

LockIsTyped ==
  /\ lock \in [by : 0..Window, gen : 0..MaxGens, kind : Kinds, polite : BOOLEAN,
               to : {"disconnected", "lost", "failed"},
               left : Seq({"log", "status", "push", "wake", "cancel"})]
  /\ lock.by \in Gens => lock.gen \in {0, lock.by}

LEMMA LockTypes == IInv /\ [Next]_vars => LockIsTyped'
<1> SUFFICES ASSUME IInv, [Next]_vars PROVE LockIsTyped'
  OBVIOUS
<1> USE Numbers
<1>0. LockIsTyped /\ live \in 0..MaxGens
  BY DEF IInv, TypeOK, LockIsTyped
<1> DEFINE steps == Seq({"log", "status", "push", "wake", "cancel"})
<1>1. /\ Whole \in steps /\ AfterLog \in steps /\ AfterStatus \in steps /\ AfterPush \in steps
      /\ AfterWake \in steps /\ <<>> \in steps
  BY RestsAreTyped, RestsDiffer
<1> HIDE DEF steps
<1>2. ASSUME UNCHANGED lock PROVE LockIsTyped'
  BY <1>0, <1>2 DEF LockIsTyped
<1>3. CASE Logs \/ SetsStatus \/ Pushes \/ Wakes
  <2>1. PICK from \in Rests, to \in Rests : GoesOn(from, to)
    BY <1>3, LockStepsAre, RestsDiffer
  <2>2. to \in steps
    BY <1>1, <2>1, RestsDiffer
  <2>3. lock' = [lock EXCEPT !.left = to]
    BY <2>1 DEF GoesOn
  <2> QED BY <1>0, <2>2, <2>3 DEF LockIsTyped, steps
<1>4. CASE Cancels
  <2>1. lock' = Unlocked
    BY <1>4, LockStepsAre DEF LetsGo
  <2> QED BY <1>1, <2>1 DEF LockIsTyped, Unlocked, Kinds, steps
<1>5. ASSUME NEW polite \in BOOLEAN, Starts(polite) PROVE LockIsTyped'
  <2>1. Window \in 0..Window /\ live \in 0..MaxGens
    BY <1>0
  <2> QED BY <1>1, <1>5, <2>1 DEF LockIsTyped, Starts, Kinds, steps
<1>6. ASSUME NEW g \in Gens, NEW kind \in {"spawn", "failed", "exited"}, Tells(g, kind)
      PROVE LockIsTyped'
  <2>1. g \in 0..Window /\ g \in 0..MaxGens
    BY DEF Window
  <2> QED BY <1>1, <1>6, <2>1 DEF LockIsTyped, Tells, Kinds, steps
<1>7. CASE Takes
  BY <1>2, <1>5, <1>7 DEF Takes
<1>8. CASE Spawn \/ Greet \/ Publish \/ Kill \/ OnlyLaunch \/ Carries \/ UNCHANGED vars
  BY <1>2, <1>8 DEF Spawn, Greet, Publish, Kill, OnlyLaunch, Carries, vars, connection
<1>9. ASSUME NEW g \in Gens, Works(g) PROVE LockIsTyped'
  BY <1>2, <1>6, <1>9 DEF Works
<1> QED BY <1>3, <1>4, <1>7, <1>8, <1>9, StepsAre

ConnectionIsTyped ==
  /\ live \in 0..MaxGens /\ latest \in 0..MaxGens
  /\ status \in {"disconnected", "connected", "lost", "failed"}
  /\ log \subseteq Gens \X Kinds
  /\ cancelled \subseteq Gens /\ woken \subseteq Gens
  /\ graceful \subseteq Gens /\ stopping \subseteq Gens
  /\ launch \in {"no", "waiting", "ready", "opening"}
  /\ ui \in {"idle", "spawn", "greet", "publish", "kill", "closed"}

LEMMA ConnectionTypes == IInv /\ [Next]_vars => ConnectionIsTyped'
<1> SUFFICES ASSUME IInv, [Next]_vars PROVE ConnectionIsTyped'
  OBVIOUS
<1> USE Numbers
<1>0. ConnectionIsTyped
  BY DEF IInv, TypeOK, ConnectionIsTyped
<1>1. ASSUME ~Free PROVE lock.gen \in Gens /\ lock.kind \in Kinds
                         /\ lock.to \in {"disconnected", "lost", "failed"}
                         /\ (lock.by # Window => lock.by \in Gens)
  BY <1>1 DEF IInv, LockIsSound, TypeOK
<1>2. CASE Logs
  <2>1. GoesOn(Whole, AfterLog) /\ log' = log \cup {<<lock.by, lock.kind>>}
        /\ UNCHANGED <<live, latest, status, letting, window>>
    BY <1>2, LockStepsAre DEF Logs
  <2>2. ~Free /\ lock.by # Window
    BY <2>1 DEF GoesOn, IInv, LockIsSound
  <2> QED BY <1>0, <1>1, <2>1, <2>2 DEF ConnectionIsTyped, letting, window
<1>3. CASE SetsStatus
  <2>1. ~Free /\ live' = 0 /\ status' = lock.to /\ UNCHANGED <<latest, log, letting, window>>
    BY <1>3, LockStepsAre DEF SetsStatus, GoesOn
  <2>2. 0 \in 0..MaxGens
    OBVIOUS
  <2> QED BY <1>0, <1>1, <2>1, <2>2 DEF ConnectionIsTyped, letting, window
<1>4. CASE Pushes \/ Wakes \/ Cancels
  <2>1. lock.gen \in Gens
    BY <1>1, <1>4, LockStepsAre DEF GoesOn, LetsGo
  <2>2. UNCHANGED <<live, latest, status, log, window>>
    BY <1>4 DEF Pushes, Wakes, Cancels
  <2>3. /\ cancelled' \in {cancelled, cancelled \cup {lock.gen}}
        /\ woken' \in {woken, woken \cup {lock.gen}}
        /\ graceful' \in {graceful, graceful \cup {lock.gen}}
        /\ stopping' \in {stopping, stopping \cup {lock.gen}}
    BY <1>4 DEF Pushes, Wakes, Cancels
  <2> QED BY <1>0, <2>1, <2>2, <2>3 DEF ConnectionIsTyped, window
<1>5. CASE Takes
  BY <1>0, <1>5 DEF Takes, ConnectionIsTyped, letting
<1>6. CASE Spawn
  <2>1. latest' = latest + 1 /\ ui' = "greet" /\ UNCHANGED <<live, status, log, letting, launch>>
        /\ latest < MaxGens
    BY <1>6 DEF Spawn, At, IInv, WindowFits, Between
  <2>2. latest' \in 0..MaxGens
    BY <1>0, <2>1 DEF ConnectionIsTyped
  <2> QED BY <1>0, <2>1, <2>2 DEF ConnectionIsTyped, letting
<1>7. CASE Greet \/ Publish \/ Kill
  <2>1. /\ live' \in {live, latest} /\ UNCHANGED <<latest, log, cancelled, woken, graceful>>
        /\ status' \in {status, "connected"} /\ stopping' \in {stopping, {}}
        /\ launch' \in {launch, "opening"} /\ ui' \in {"publish", "idle", "closed"}
    BY <1>7 DEF Greet, Publish, Kill, At, letting, connection
  <2> QED BY <1>0, <2>1 DEF ConnectionIsTyped
<1>8. CASE OnlyLaunch /\ (Launch \/ StopIsOver \/ Launched)
  <2>1. launch' \in {"waiting", "ready", "no"} /\ UNCHANGED <<connection, letting, ui>>
    BY <1>8 DEF OnlyLaunch, Launch, StopIsOver, Launched
  <2> QED BY <1>0, <2>1 DEF ConnectionIsTyped, connection, letting
<1>9. CASE Carries \/ UNCHANGED vars
  BY <1>0, <1>9 DEF Carries, vars, ConnectionIsTyped, connection, letting, window
<1>10. ASSUME NEW g \in Gens, Works(g) PROVE ConnectionIsTyped'
  <2>1. /\ UNCHANGED <<live, latest, status, cancelled, woken, graceful, launch, ui>>
        /\ log' \subseteq log \cup {<<g, "stopped">>} /\ stopping' \subseteq stopping
    BY <1>10 DEF Works, window
  <2> QED BY <1>0, <2>1 DEF ConnectionIsTyped, Kinds
<1> QED BY <1>2, <1>3, <1>4, <1>5, <1>6, <1>7, <1>8, <1>9, <1>10, StepsAre

TransportIsTyped ==
  /\ kept \in [Gens -> Nat] /\ made \in [Gens -> Nat] /\ frames \in [Gens -> Nat]
  /\ agent \in [Gens -> {"none", "running", "gone"}]
  /\ eof \subseteq Gens /\ over \subseteq Gens
  /\ diags \in [Gens -> Seq(Kinds)]

LEMMA CountsAreTyped ==
  ASSUME NEW f \in [Gens -> Nat], NEW g \in Gens, NEW n \in Nat
  PROVE  [f EXCEPT ![g] = n] \in [Gens -> Nat]
  OBVIOUS

LEMMA TransportTypes == IInv /\ [Next]_vars => TransportIsTyped'
<1> SUFFICES ASSUME IInv, [Next]_vars PROVE TransportIsTyped'
  OBVIOUS
<1> USE Numbers
<1>0. TypeOK /\ TransportIsTyped
  BY DEF IInv, TypeOK, TransportIsTyped
<1>1. CASE \/ Logs \/ SetsStatus \/ Pushes \/ Cancels \/ Takes \/ Greet \/ Publish
           \/ OnlyLaunch \/ UNCHANGED vars
  <2>1. UNCHANGED <<kept, transport>>
    BY <1>1 DEF Logs, SetsStatus, Pushes, Cancels, Takes, Greet, Publish, OnlyLaunch, vars, reading
  <2> QED BY <1>0, <2>1 DEF TransportIsTyped, transport
<1>2. CASE Wakes \/ Kill
  <2>1. /\ UNCHANGED <<kept, made, frames, eof, diags, over>>
        /\ \E gens : agent' = Killed(gens)
    BY <1>2 DEF Wakes, Kill, reading
  <2>2. agent' \in [Gens -> {"none", "running", "gone"}]
    BY <1>0, <2>1 DEF TransportIsTyped, Killed
  <2> QED BY <1>0, <2>1, <2>2 DEF TransportIsTyped
<1>3. CASE Spawn
  <2>1. /\ latest' = latest + 1 /\ UNCHANGED <<kept, made, frames>> /\ latest < MaxGens
        /\ \/ agent' = [agent EXCEPT ![latest'] = "running"] /\ UNCHANGED <<diags, eof, over>>
           \/ /\ agent' = [agent EXCEPT ![latest'] = "gone"]
              /\ diags' = [diags EXCEPT ![latest'] = <<"spawn">>]
              /\ eof' = eof \cup {latest'} /\ over' = over \cup {latest'}
    BY <1>3 DEF Spawn, At, IInv, WindowFits, Between, reading
  <2>2. latest' \in Gens
    BY <1>0, <2>1 DEF TypeOK, Gens
  <2>3. <<"spawn">> \in Seq(Kinds)
    BY DEF Kinds
  <2>4. agent' \in [Gens -> {"none", "running", "gone"}] /\ eof' \subseteq Gens /\ over' \subseteq Gens
    BY <1>0, <2>1, <2>2 DEF TransportIsTyped
  <2>5. diags' \in [Gens -> Seq(Kinds)]
    BY <1>0, <2>1, <2>3 DEF TransportIsTyped
  <2> QED BY <1>0, <2>1, <2>4, <2>5 DEF TransportIsTyped
<1>4. ASSUME NEW g \in Gens, Carries, Sends(g) \/ Dies(g) \/ Ends(g) \/ Finishes(g)
      PROVE  TransportIsTyped'
  <2>1. kept' = kept
    BY <1>4 DEF Carries, reading
  <2>2. made' \in [Gens -> Nat] /\ frames' \in [Gens -> Nat]
    <3>1. \/ UNCHANGED <<made, frames>>
          \/ /\ made' = [made EXCEPT ![g] = @ + 1]
             /\ frames' = [frames EXCEPT ![g] = @ + 1]
      BY <1>4 DEF Sends, Dies, Ends, Finishes
    <3>2. made[g] + 1 \in Nat /\ frames[g] + 1 \in Nat
      BY <1>0 DEF TransportIsTyped
    <3>3. CASE UNCHANGED <<made, frames>>
      BY <1>0, <3>3 DEF TransportIsTyped
    <3>4. CASE made' = [made EXCEPT ![g] = @ + 1] /\ frames' = [frames EXCEPT ![g] = @ + 1]
      BY <1>0, <3>2, <3>4, CountsAreTyped DEF TransportIsTyped
    <3> QED BY <3>1, <3>3, <3>4
  <2>3. agent' \in [Gens -> {"none", "running", "gone"}]
    BY <1>0, <1>4 DEF Sends, Dies, Ends, Finishes, TransportIsTyped
  <2>4. eof' \subseteq Gens /\ over' \subseteq Gens
    BY <1>0, <1>4 DEF Sends, Dies, Ends, Finishes, TransportIsTyped
  <2>5. UNCHANGED diags \/ \E word \in Kinds : diags' = [diags EXCEPT ![g] = Append(@, word)]
    BY <1>4 DEF Sends, Dies, Ends, Finishes, Kinds
  <2>6. diags' \in [Gens -> Seq(Kinds)]
    BY <1>0, <2>5, SaidMore DEF TransportIsTyped
  <2> QED BY <1>0, <2>1, <2>2, <2>3, <2>4, <2>6 DEF TransportIsTyped
<1>5. ASSUME NEW g \in Gens, Works(g), ReaderSteps(g) \/ Panic(g) PROVE TransportIsTyped'
  <2>1. UNCHANGED <<agent, made, eof, over>>
    BY <1>5 DEF Works
  <2>2. UNCHANGED diags \/ (diags[g] # <<>> /\ diags' = [diags EXCEPT ![g] = Tail(@)])
    BY <1>5 DEF ReaderSteps, Panic, Pull, Record, ReceiveEnds, Hear, HearsLast, TellsExit,
                Leaves, After, Dropped, Stopped, Caught, transport
  <2>3. diags' \in [Gens -> Seq(Kinds)]
    BY <1>0, <2>2, TailIsTyped DEF TransportIsTyped
  <2>4. \/ UNCHANGED <<kept, frames>>
        \/ frames[g] > 0 /\ frames' = [frames EXCEPT ![g] = @ - 1] /\ UNCHANGED kept
        \/ kept' = [kept EXCEPT ![g] = @ + 1] /\ UNCHANGED frames
    BY <1>5 DEF ReaderSteps, Panic, Pull, Record, ReceiveEnds, Hear, HearsLast, TellsExit,
                Leaves, After, Dropped, Stopped, Caught, transport, reading
  <2>5. kept' \in [Gens -> Nat] /\ frames' \in [Gens -> Nat]
    <3>1. frames[g] \in Nat /\ kept[g] \in Nat
      BY <1>0 DEF TransportIsTyped
    <3>2. /\ kept[g] + 1 \in Nat
          /\ frames[g] > 0 => frames[g] - 1 \in Nat
      BY <3>1
    <3>3. CASE UNCHANGED <<kept, frames>>
      BY <1>0, <3>3 DEF TransportIsTyped
    <3>4. CASE frames[g] > 0 /\ frames' = [frames EXCEPT ![g] = @ - 1] /\ UNCHANGED kept
      BY <1>0, <3>2, <3>4, CountsAreTyped DEF TransportIsTyped
    <3>5. CASE kept' = [kept EXCEPT ![g] = @ + 1] /\ UNCHANGED frames
      BY <1>0, <3>2, <3>5, CountsAreTyped DEF TransportIsTyped
    <3> QED BY <2>4, <3>3, <3>4, <3>5
  <2> QED BY <1>0, <2>1, <2>3, <2>5 DEF TransportIsTyped
<1> QED BY <1>1, <1>2, <1>3, <1>4, <1>5, StepsAre

ReaderIsShaped ==
  reader \in [Gens -> [at : {"none", "drain", "after", "stopping", "panicked", "done"},
                       receiving : BOOLEAN, lines : BOOLEAN, exit : BOOLEAN,
                       hand : BOOLEAN, released : BOOLEAN]]

LEMMA ReaderTypes == IInv /\ [Next]_vars => ReaderIsShaped'
<1> SUFFICES ASSUME IInv, [Next]_vars PROVE ReaderIsShaped'
  OBVIOUS
<1>0. ReaderIsShaped /\ TypeOK
  BY DEF IInv, TypeOK, ReaderIsShaped
<1> DEFINE shapes == [at : {"none", "drain", "after", "stopping", "panicked", "done"},
                      receiving : BOOLEAN, lines : BOOLEAN, exit : BOOLEAN,
                      hand : BOOLEAN, released : BOOLEAN]
<1>1. CASE \/ Logs \/ SetsStatus \/ Pushes \/ Wakes \/ Cancels \/ Takes \/ Spawn \/ Greet \/ Kill
           \/ OnlyLaunch \/ Carries \/ UNCHANGED vars
  <2>1. reader' = reader
    BY <1>1 DEF Logs, SetsStatus, Pushes, Wakes, Cancels, Takes, Spawn, Greet, Kill, OnlyLaunch,
                Carries, vars, reading
  <2> QED BY <1>0, <2>1 DEF ReaderIsShaped
<1>2. CASE Publish
  <2>1. reader' = [reader EXCEPT ![latest] = Fresh]
    BY <1>2 DEF Publish
  <2>2. Fresh \in shapes
    BY DEF Fresh, Unborn
  <2> QED BY <1>0, <2>1, <2>2 DEF ReaderIsShaped
<1>3. ASSUME NEW g \in Gens, ReaderSteps(g) \/ Panic(g) PROVE ReaderIsShaped'
  <2>1. PICK r : r = reader[g]
    OBVIOUS
  <2>2. r \in shapes
    BY <1>0, <2>1 DEF ReaderIsShaped
  <2>3. /\ [r EXCEPT !.hand = TRUE] \in shapes /\ [r EXCEPT !.hand = FALSE] \in shapes
        /\ [r EXCEPT !.hand = FALSE, !.receiving = FALSE] \in shapes
        /\ [r EXCEPT !.receiving = FALSE] \in shapes /\ [r EXCEPT !.exit = TRUE] \in shapes
        /\ [r EXCEPT !.lines = FALSE] \in shapes
        /\ [r EXCEPT !.at = "after", !.released = TRUE] \in shapes
    BY <2>2
  <2>4. /\ [r EXCEPT !.at = "after"] \in shapes /\ [r EXCEPT !.at = "stopping"] \in shapes
        /\ [r EXCEPT !.at = "done"] \in shapes /\ [r EXCEPT !.at = "panicked"] \in shapes
    BY <2>2
  <2>5. CASE Pull(g) \/ Record(g) \/ ReceiveEnds(g)
    <3>1. \/ Set(g, [r EXCEPT !.hand = TRUE])
          \/ Set(g, [r EXCEPT !.hand = FALSE])
          \/ Set(g, [r EXCEPT !.hand = FALSE, !.receiving = FALSE])
          \/ Set(g, [r EXCEPT !.receiving = FALSE])
      BY <2>1, <2>5 DEF Pull, Record, ReceiveEnds
    <3>2. \E s \in shapes : Set(g, s)
      BY <2>3, <3>1
    <3> QED BY <1>0, <3>2 DEF Set, ReaderIsShaped
  <2>6. CASE Hear(g) \/ HearsLast(g) \/ Dropped(g)
    <3>1. reader' = reader \/ Set(g, [r EXCEPT !.exit = TRUE]) \/ Set(g, [r EXCEPT !.lines = FALSE])
      BY <2>1, <2>6 DEF Hear, HearsLast, Dropped, reading
    <3>2. reader' = reader \/ \E s \in shapes : Set(g, s)
      BY <2>3, <3>1
    <3> QED BY <1>0, <3>2 DEF Set, ReaderIsShaped
  <2>7. CASE TellsExit(g) \/ Leaves(g) \/ After(g) \/ Stopped(g) \/ Panic(g) \/ Caught(g)
    <3>1. \/ Set(g, [r EXCEPT !.at = "after", !.released = TRUE])
          \/ Set(g, [r EXCEPT !.at = "after"]) \/ Set(g, [r EXCEPT !.at = "stopping"])
          \/ Set(g, [r EXCEPT !.at = "done"]) \/ Set(g, [r EXCEPT !.at = "panicked"])
      BY <2>1, <2>7 DEF TellsExit, Leaves, After, Stopped, Panic, Caught
    <3>2. CASE Set(g, [r EXCEPT !.at = "after", !.released = TRUE]) \/ Set(g, [r EXCEPT !.at = "after"])
      <4>1. CASE Set(g, [r EXCEPT !.at = "after", !.released = TRUE])
        BY <1>0, <2>3, <4>1 DEF Set, ReaderIsShaped
      <4>2. CASE Set(g, [r EXCEPT !.at = "after"])
        BY <1>0, <2>4, <4>2 DEF Set, ReaderIsShaped
      <4> QED BY <3>2, <4>1, <4>2
    <3>3. CASE \/ Set(g, [r EXCEPT !.at = "stopping"]) \/ Set(g, [r EXCEPT !.at = "done"])
               \/ Set(g, [r EXCEPT !.at = "panicked"])
      <4>1. \E s \in shapes : Set(g, s)
        BY <2>4, <3>3
      <4> QED BY <1>0, <4>1 DEF Set, ReaderIsShaped
    <3> QED BY <3>1, <3>2, <3>3
  <2> QED BY <1>3, <2>5, <2>6, <2>7 DEF ReaderSteps
<1> QED BY <1>1, <1>2, <1>3, StepsAre

LEMMA TypesKeep == IInv /\ [Next]_vars => TypeOK'
  BY LockTypes, ConnectionTypes, TransportTypes, ReaderTypes
     DEF TypeOK, LockIsTyped, ConnectionIsTyped, TransportIsTyped, ReaderIsShaped

(***************************************************************************)
(* The theorems.                                                           *)
(***************************************************************************)
LEMMA InitIInv == Init => IInv
<1> SUFFICES ASSUME Init PROVE IInv
  OBVIOUS
<1> USE Numbers
<1>1. Free /\ lock = Unlocked /\ live = 0 /\ latest = 0 /\ ui = "idle" /\ launch = "no"
  BY DEF Init, Free, Unlocked
<1>2. \A g \in Gens : /\ ~Published(g) /\ reader[g] = Unborn /\ agent[g] = "none"
                      /\ kept[g] = 0 /\ made[g] = 0 /\ frames[g] = 0 /\ diags[g] = <<>>
  BY DEF Init, Published, Unborn
<1>3. \A g \in Gens, kind \in Kinds : ~Said(g, kind)
  BY <1>2 DEF Said
<1>4. LockIsTyped
  <2>1. <<>> \in Seq({"log", "status", "push", "wake", "cancel"})
    OBVIOUS
  <2>2. 0 \in 0..Window /\ 0 \in 0..MaxGens
    OBVIOUS
  <2> QED BY <1>1, <2>1, <2>2 DEF LockIsTyped, Unlocked, Kinds
<1>5. ReaderIsShaped
  <2>1. Unborn \in [at : {"none", "drain", "after", "stopping", "panicked", "done"},
                    receiving : BOOLEAN, lines : BOOLEAN, exit : BOOLEAN,
                    hand : BOOLEAN, released : BOOLEAN]
    BY DEF Unborn
  <2> QED BY <2>1 DEF Init, ReaderIsShaped
<1>6. ConnectionIsTyped
  <2>1. 0 \in 0..MaxGens
    OBVIOUS
  <2> QED BY <2>1 DEF Init, ConnectionIsTyped
<1>7. TransportIsTyped
  BY DEF Init, TransportIsTyped
<1>8. TypeOK
  BY <1>4, <1>5, <1>6, <1>7
     DEF TypeOK, LockIsTyped, ConnectionIsTyped, TransportIsTyped, ReaderIsShaped
<1>9. LockIsSound
  BY <1>1 DEF LockIsSound
<1>10. WindowFits
  <2>1. \A g \in Gens : ~(g <= 0)
    BY DEF Gens
  <2> QED BY <1>1, <1>2, <2>1 DEF WindowFits, Between, Init
<1>11. LettingFits
  BY <1>1, <1>2 DEF LettingFits, Init
<1>12. AgentsFit
  <2>1. \A g \in Gens : g > 0
    BY DEF Gens
  <2> QED BY <1>1, <1>2, <2>1 DEF AgentsFit, Init
<1>13. ReadersFit
  <2>1. ~Unborn.released /\ ~Unborn.exit /\ Unborn.at = "none"
    BY DEF Unborn
  <2> QED BY <1>2, <1>3, <2>1 DEF ReadersFit, Kinds
<1>14. TailFits
  <2>1. \A g \in Gens : ~Told(g) /\ InHand(g) = 0
    BY <1>1, <1>2 DEF Told, InHand, Init, Unborn, Free
  <2> QED BY <1>2, <2>1 DEF TailFits
<1>15. StatusFits
  BY <1>1 DEF StatusFits, Init
<1> QED BY <1>8, <1>9, <1>10, <1>11, <1>12, <1>13, <1>14, <1>15 DEF IInv

LEMMA NextKeeps == IInv /\ [Next]_vars => IInv'
  BY TypesKeep, LockKeeps, WindowKeeps, LettingKeeps, AgentsKeep, ReadersKeep, TailKeeps, StatusKeeps
     DEF IInv

LEMMA Inductive == Spec => []IInv
  BY InitIInv, NextKeeps, PTL DEF Spec

\* Once the window is closed no agent it started runs, whoever was being let go
\* when it was (mod.rs `disconnect`).
THEOREM NobodyIsOrphaned == Spec => []ClosedKillsAll
<1>1. IInv => ClosedKillsAll
  <2> SUFFICES ASSUME IInv, ui = "closed", NEW g \in Gens PROVE agent[g] # "running"
    BY DEF ClosedKillsAll
  <2>1. Free /\ live = 0 /\ stopping = {} /\ ui \notin Between
    BY DEF IInv, WindowFits, Between
  <2> QED BY <2>1, Numbers DEF IInv, AgentsFit
<1> QED BY <1>1, Inductive, PTL

\* Whoever's call fails reads a status that says why, an exit is told with the
\* whole tail recorded, and every step is within its type (reader.rs `observe`,
\* `drain`).
THEOREM ExplainedEnd == Spec => []EndIsExplained
<1>1. IInv => StatusBeforeWaking
  BY DEF IInv, StatusFits, StatusBeforeWaking
<1>2. IInv => TailBeforeExit
  BY DEF IInv, TailFits, Told, TailBeforeExit
<1>3. IInv => EndIsExplained
  BY <1>1, <1>2 DEF IInv, EndIsExplained
<1> QED BY <1>3, Inductive, PTL

\* The status says lost or failed only with the reason already in the log, and of
\* the connection it was true of (reader.rs `observe`).
THEOREM EvidenceIsFirst == Spec => EvidenceBeforeStatus
<1>1. ASSUME IInv, [Next]_vars, status' # status
      PROVE  /\ status' = "lost" => \E kind \in {"exited", "failed"} : <<live, kind>> \in log
             /\ status' = "failed" => <<live, "spawn">> \in log
  <2>1. CASE SetsStatus
    <3>1. GoesOn(AfterLog, AfterStatus) /\ status' = lock.to
      BY <1>1, <2>1, LockStepsAre DEF SetsStatus
    <3>2. live = lock.gen /\ lock.left # Whole /\ ~Free
      BY <1>1, <3>1, RestsDiffer DEF GoesOn, IInv, LockIsSound
    <3>3. lock.kind \in Kinds
      BY <1>1 DEF IInv, TypeOK
    <3> QED BY <1>1, <3>1, <3>2, <3>3 DEF IInv, LockIsSound, Kinds
  <2>2. CASE Greet
    BY <2>2 DEF Greet
  <2>3. CASE \/ Logs \/ Pushes \/ Wakes \/ Cancels \/ Takes \/ Spawn \/ Publish \/ Kill
             \/ OnlyLaunch \/ Carries \/ UNCHANGED vars
    BY <1>1, <2>3 DEF Logs, Pushes, Wakes, Cancels, Takes, Spawn, Publish, Kill, OnlyLaunch,
                      Carries, vars, connection
  <2>4. ASSUME NEW g \in Gens, Works(g) PROVE FALSE
    BY <1>1, <2>4 DEF Works
  <2> QED BY <1>1, <2>1, <2>2, <2>3, <2>4, StepsAre
<1>2. IInv /\ [Next]_vars =>
        [status' # status =>
           /\ status' = "lost" => \E kind \in {"exited", "failed"} : <<live, kind>> \in log
           /\ status' = "failed" => <<live, "spawn">> \in log]_vars
  BY <1>1
<1> QED BY <1>2, Inductive, PTL DEF Spec, EvidenceBeforeStatus

\* Nothing of an agent let go lands in the stores of the next: only the reader of
\* the connection held records a frame or a terminal diagnostic (reader.rs
\* `while_connected`, `observe`).
THEOREM OnlyOwnersRecord == Spec => OnlyTheLiveRecords
<1> DEFINE Records(g) == kept'[g] # kept[g] \/ (\E kind \in Kinds \ {"stopped"} : <<g, kind>> \in log' \ log)
<1>1. ASSUME IInv, [Next]_vars, NEW g \in Gens, Records(g)
      PROVE  live = g
  <2>1. CASE Logs
    <3>1. GoesOn(Whole, AfterLog) /\ log' = log \cup {<<lock.by, lock.kind>>} /\ kept' = kept
      BY <1>1, <2>1, LockStepsAre DEF Logs, reading
    <3>2. lock.by = g
      BY <1>1, <3>1
    <3>3. lock.left = Whole /\ ~Free
      BY <3>1 DEF GoesOn
    <3>4. live = lock.gen
      BY <1>1, <3>3 DEF IInv, LockIsSound
    <3>5. lock.by = lock.gen
      BY <1>1, <3>2, <3>3, Numbers DEF IInv, LockIsSound
    <3> QED BY <3>2, <3>4, <3>5
  <2>2. CASE \/ SetsStatus \/ Pushes \/ Wakes \/ Cancels \/ Takes \/ Spawn \/ Greet \/ Publish \/ Kill
             \/ OnlyLaunch \/ Carries \/ UNCHANGED vars
    <3>1. log' = log /\ kept' = kept
      BY <2>2 DEF SetsStatus, Pushes, Wakes, Cancels, Takes, Spawn, Greet, Publish, Kill, OnlyLaunch,
                  Carries, vars, connection, reading
    <3> QED BY <1>1, <3>1
  <2>3. ASSUME NEW h \in Gens, Works(h), ReaderSteps(h) \/ Panic(h) PROVE live = g
    <3>1. kept'[g] # kept[g]
      BY <1>1, <2>3 DEF Works
    <3>2. g = h
      BY <2>3, <3>1 DEF Works
    <3>3. Record(g) /\ Owns(g)
      BY <2>3, <3>1, <3>2 DEF ReaderSteps, Panic, Pull, Record, ReceiveEnds, Hear, HearsLast,
                    TellsExit, Leaves, After, Dropped, Stopped, Caught, reading
    <3> QED BY <1>1, <2>3, <3>2, <3>3, OwnerIsLive DEF Record, Works
  <2> QED BY <1>1, <2>1, <2>2, <2>3, StepsAre
<1>2. IInv /\ [Next]_vars => [\A g \in Gens : Records(g) => live = g]_vars
  BY <1>1
<1>3. Spec => [][\A g \in Gens : Records(g) => live = g]_vars
  BY <1>2, Inductive, PTL DEF Spec
<1> QED BY <1>3 DEF OnlyTheLiveRecords

(***************************************************************************)
(* Where no agent is launched over another, one runs at a time: nobody     *)
(* waits to be launched while one is connected or asked to stop.           *)
(***************************************************************************)
OneRuns ==
  /\ launch \in {"waiting", "ready"} => live = 0 /\ lock.by # Window
  /\ launch = "ready" => stopping = {}
  /\ \A g \in Gens : agent[g] = "running" => g = latest

LEMMA OneRunsKeeps == ~OverLive /\ IInv /\ OneRuns /\ [Next]_vars => OneRuns'
<1> SUFFICES ASSUME ~OverLive, IInv, OneRuns, [Next]_vars PROVE OneRuns'
  OBVIOUS
<1> USE Numbers, RestsDiffer
<1>1. CASE Logs \/ SetsStatus \/ Pushes \/ Wakes
  <2>1. /\ ~Free /\ lock'.by = lock.by /\ UNCHANGED <<latest, window>> /\ live' \in {live, 0}
    BY <1>1, LockStepsAre, GoingOn DEF Logs, SetsStatus, Pushes, Wakes
  <2>2. stopping' = stopping \/ lock.by = Window
    BY <1>1, <2>1 DEF Logs, SetsStatus, Pushes, Wakes, letting, IInv, LockIsSound
  <2>3. \A g \in Gens : agent'[g] = "running" => agent[g] = "running"
    BY <1>1 DEF Logs, SetsStatus, Pushes, Wakes, transport, Killed
  <2> QED BY <2>1, <2>2, <2>3 DEF OneRuns, window
<1>2. CASE Cancels
  <2>1. lock'.by = 0 /\ UNCHANGED <<live, latest, window, stopping, agent>>
    BY <1>2, LockStepsAre DEF Cancels, LetsGo, Unlocked, transport
  <2> QED BY <2>1 DEF OneRuns, window
<1>3. CASE Takes
  <2>1. /\ UNCHANGED <<live, latest, launch, stopping, agent>>
        /\ (live = 0 /\ lock' = lock) \/ live # 0
    BY <1>3 DEF Takes, letting, transport, Starts
  <2> QED BY <2>1 DEF OneRuns
<1>4. CASE Spawn
  <2>1. /\ ui = "spawn" /\ lock.by # Window /\ latest' = latest + 1
        /\ UNCHANGED <<live, lock, stopping, launch>>
    BY <1>4 DEF Spawn, At, letting
  <2>2. Free /\ live = 0 /\ launch = "ready" /\ latest < MaxGens /\ latest \in Nat
    BY <2>1, AwayIsFree, SMTT(30) DEF IInv, WindowFits, Between, TypeOK
  <2>3. \A g \in Gens : agent[g] # "running"
    BY <2>1, <2>2 DEF OneRuns, IInv, AgentsFit, Between
  <2>4. \A g \in Gens \ {latest'} : agent'[g] = agent[g]
    BY <1>4, <2>1, <2>2 DEF Spawn, IInv, TypeOK
  <2> QED BY <2>1, <2>2, <2>3, <2>4 DEF OneRuns
<1>5. CASE Greet \/ Publish
  <2>1. UNCHANGED <<latest, lock, stopping, agent>>
        /\ (UNCHANGED <<live, launch>> \/ launch' = "opening")
    BY <1>5 DEF Greet, Publish, letting, transport
  <2> QED BY <2>1 DEF OneRuns
<1>6. CASE Kill
  <2>1. UNCHANGED <<live, latest, lock, launch>> /\ stopping' = {} /\ agent' = Killed(ToKill)
    BY <1>6 DEF Kill, connection
  <2>2. \A g \in Gens : agent'[g] = "running" => agent[g] = "running"
    BY <2>1 DEF Killed
  <2> QED BY <2>1, <2>2 DEF OneRuns
<1>7. CASE OnlyLaunch /\ (Launch \/ StopIsOver \/ Launched)
  <2>1. UNCHANGED <<live, latest, lock, stopping, agent>>
    BY <1>7 DEF OnlyLaunch, connection, letting, transport
  <2>2. \/ launch' = "waiting" /\ live = 0 /\ lock.by # Window
        \/ launch = "waiting" /\ launch' = "ready" /\ stopping = {}
        \/ launch' = "no"
    BY <1>7 DEF Launch, StopIsOver, Launched, At, WaitsForStop
  <2> QED BY <2>1, <2>2 DEF OneRuns
<1>8. ASSUME NEW g \in Gens, Carries, Sends(g) \/ Dies(g) \/ Ends(g) \/ Finishes(g)
      PROVE  OneRuns'
  <2>1. UNCHANGED <<live, latest, lock, stopping, launch>>
    BY <1>8 DEF Carries, connection, letting, window
  <2>2. agent' = agent \/ agent' = [agent EXCEPT ![g] = "gone"]
    BY <1>8 DEF Sends, Dies, Ends, Finishes
  <2>3. \A h \in Gens : agent'[h] = "running" => agent[h] = "running"
    BY <2>2 DEF IInv, TypeOK
  <2> QED BY <2>1, <2>3 DEF OneRuns
<1>9. ASSUME NEW g \in Gens, Works(g) PROVE OneRuns'
  <2>1. UNCHANGED <<live, latest, launch, agent>> /\ stopping' \subseteq stopping
    BY <1>9 DEF Works, window
  <2>2. lock' = lock \/ lock'.by = g
    BY <1>9 DEF Works, Tells
  <2> QED BY <2>1, <2>2 DEF OneRuns
<1>10. CASE UNCHANGED vars
  BY <1>10 DEF vars, connection, letting, window, transport, OneRuns
<1> QED BY <1>1, <1>2, <1>3, <1>4, <1>5, <1>6, <1>7, <1>8, <1>9, <1>10, StepsAre

\* Where no agent is launched over a connected one, an agent is gone before the
\* next one starts, for the launch waits until nobody is still stopping (mod.rs
\* `stopped`).
THEOREM OneAtATime ==
  ASSUME ~OverLive
  PROVE  Spec => []OneAgentAtATime
<1>1. Init => OneRuns
  BY DEF Init, OneRuns
<1>2. IInv /\ OneRuns => OneAgentAtATime
  BY DEF OneRuns, OneAgentAtATime
<1>3. IInv /\ OneRuns /\ [Next]_vars => OneRuns'
  BY OneRunsKeeps
<1> QED BY <1>1, <1>2, <1>3, Inductive, PTL DEF Spec

(***************************************************************************)
(* Where handling a frame does not panic, whoever is stopping is read: a   *)
(* reader leaves unwoken only to tell the exit itself.                     *)
(***************************************************************************)
SaysWhy(g) == reader[g].exit \/ Said(g, "exited") \/ Said(g, "spawn")
ReaderStays(g) ==
  /\ reader[g].at # "panicked"
  /\ Published(g) /\ g \notin woken /\ lock.by # g => reader[g].at = "drain" /\ reader[g].lines
  /\ g \in over /\ g \notin woken /\ lock.by # g => SaysWhy(g)
  /\ g \in stopping => reader[g].at \in {"drain", "after", "stopping"}
AllStay == \A g \in Gens : ReaderStays(g)

\* Whose reader, agent and stop are not touched stays as it was.
LEMMA OthersStay ==
  ASSUME IInv, NEW g \in Gens, ReaderStays(g), reader'[g] = reader[g], diags'[g] = diags[g],
         woken \subseteq woken', lock.by = g => lock'.by = g \/ g \in woken',
         g \in over' => g \in over \/ g \in woken', g \in stopping' => g \in stopping
  PROVE  ReaderStays(g)'
<1>1. (Published(g)' <=> Published(g)) /\ (SaysWhy(g)' <=> SaysWhy(g))
  BY DEF Published, SaysWhy, Said
<1> QED BY <1>1 DEF ReaderStays

LEMMA SaidGoesOn ==
  ASSUME TypeOK, NEW g \in Gens, NEW kind, Said(g, kind),
         \/ diags[g] # <<>> /\ diags' = [diags EXCEPT ![g] = Tail(@)] /\ Head(diags[g]) # kind
         \/ \E word \in Kinds : diags' = [diags EXCEPT ![g] = Append(@, word)]
  PROVE  Said(g, kind)'
<1>1. diags[g] \in Seq(Kinds) /\ diags \in [Gens -> Seq(Kinds)]
  BY DEF TypeOK
<1>2. PICK s \in Seq(Kinds) : s = diags[g]
  BY <1>1
<1>3. PICK i \in DOMAIN s : s[i] = kind
  BY <1>2 DEF Said
<1>4. DOMAIN s = 1..Len(s) /\ Len(s) \in Nat
  BY <1>2
<1>5. CASE diags[g] # <<>> /\ diags' = [diags EXCEPT ![g] = Tail(@)] /\ Head(diags[g]) # kind
  <2>1. s # <<>> /\ Head(s) = s[1] /\ Len(Tail(s)) = Len(s) - 1 /\ DOMAIN Tail(s) = 1..Len(Tail(s))
        /\ \A k \in 1..Len(Tail(s)) : Tail(s)[k] = s[k + 1]
    BY <1>2, <1>5
  <2>2. i # 1 /\ i - 1 \in DOMAIN Tail(s) /\ Tail(s)[i - 1] = kind
    BY <1>2, <1>3, <1>4, <1>5, <2>1
  <2>3. diags'[g] = Tail(s)
    BY <1>1, <1>2, <1>5
  <2> QED BY <2>2, <2>3 DEF Said
<1>6. ASSUME NEW word \in Kinds, diags' = [diags EXCEPT ![g] = Append(@, word)]
      PROVE  Said(g, kind)'
  <2>1. i \in DOMAIN Append(s, word) /\ Append(s, word)[i] = s[i]
    BY <1>2, <1>3, <1>4
  <2>2. diags'[g] = Append(s, word)
    BY <1>1, <1>2, <1>6
  <2> QED BY <1>3, <2>1, <2>2 DEF Said
<1> QED BY <1>5, <1>6

\* What a reader does about its own stop.
LEMMA OwnStop ==
  ASSUME ~Panics, IInv, AllStay, NEW g \in Gens, ReaderSteps(g) \/ Panic(g), Works(g)
  PROVE  ReaderStays(g)'
<1>1. TypeOK /\ ReaderStays(g) /\ Published(g) /\ Published(g)' /\ lock.by # g
  BY DEF IInv, AllStay, Works, ReaderSteps, Panic, Pull, Record, ReceiveEnds, Hear, HearsLast, TellsExit,
         Leaves, After, Dropped, Stopped, Caught, Draining, Reader
<1>2. /\ UNCHANGED <<woken, over>> /\ stopping' \subseteq stopping
      /\ lock' = lock \/ lock'.by = g
  BY DEF Works, Tells
<1>3. \A r : Set(g, r) => reader'[g] = r
  BY <1>1 DEF Set, TypeOK
<1>4. PICK r : r = reader[g]
  OBVIOUS
<1>5. r \in [at : {"none", "drain", "after", "stopping", "panicked", "done"},
             receiving : BOOLEAN, lines : BOOLEAN, exit : BOOLEAN,
             hand : BOOLEAN, released : BOOLEAN]
  BY <1>1, <1>4, ReaderIsTyped
<1>6. g \in cancelled => g \in woken
  BY DEF IInv, LettingFits
<1>7. ASSUME reader'[g].at = r.at, reader'[g].lines = r.lines, SaysWhy(g) => SaysWhy(g)'
      PROVE  ReaderStays(g)'
  BY <1>1, <1>2, <1>4, <1>7 DEF ReaderStays
<1>8. CASE Pull(g) \/ Record(g) \/ ReceiveEnds(g)
  <2>1. /\ diags' = diags
        /\ \/ reader'[g] = [r EXCEPT !.hand = TRUE]
           \/ reader'[g] = [r EXCEPT !.hand = FALSE]
           \/ reader'[g] = [r EXCEPT !.hand = FALSE, !.receiving = FALSE]
           \/ reader'[g] = [r EXCEPT !.receiving = FALSE]
    BY <1>3, <1>4, <1>8 DEF Pull, Record, ReceiveEnds, transport
  <2>2. reader'[g].at = r.at /\ reader'[g].lines = r.lines /\ reader'[g].exit = r.exit
    BY <1>5, <2>1
  <2> QED BY <1>4, <1>7, <2>1, <2>2 DEF SaysWhy, Said
<1>9. CASE Hear(g)
  <2>1. diags[g] # <<>> /\ diags' = [diags EXCEPT ![g] = Tail(@)] /\ Free
    BY <1>9 DEF Hear
  <2>2. CASE Head(diags[g]) = "exited"
    <3>1. reader'[g] = [r EXCEPT !.exit = TRUE]
      BY <1>3, <1>4, <1>9, <2>2 DEF Hear, Holds
    <3>2. reader'[g].at = r.at /\ reader'[g].lines = r.lines /\ reader'[g].exit
      BY <1>5, <3>1
    <3> QED BY <1>7, <3>2 DEF SaysWhy
  <2>3. CASE Head(diags[g]) # "exited"
    <3>1. reader' = reader /\ Observe(g, Head(diags[g]))
      BY <1>9, <2>3 DEF Hear, Holds
    <3>2. lock'.by = g \/ g \in woken
      BY <1>6, <3>1 DEF Observe, Owns
    <3> QED BY <1>1, <1>2, <3>1, <3>2, Numbers DEF ReaderStays
  <2> QED BY <2>2, <2>3
<1>10. CASE HearsLast(g)
  <2>1. /\ reader'[g] = [r EXCEPT !.lines = FALSE] /\ ~r.exit /\ diags[g] = <<>> /\ g \in over
    BY <1>3, <1>4, <1>10 DEF HearsLast
  <2>2. ~SaysWhy(g)
    BY <1>4, <2>1 DEF SaysWhy, Said
  <2>3. g \in woken
    BY <1>1, <2>1, <2>2 DEF ReaderStays
  <2>4. reader'[g].at = r.at
    BY <1>5, <2>1
  <2> QED BY <1>1, <1>2, <1>4, <2>3, <2>4 DEF ReaderStays
<1>11. CASE Dropped(g)
  <2>1. reader' = reader /\ r.at = "stopping"
    BY <1>4, <1>11 DEF Dropped, Reader, reading
  <2>2. g \in woken
    BY <1>1, <1>4, <2>1 DEF ReaderStays
  <2> QED BY <1>1, <1>2, <2>1, <2>2 DEF ReaderStays
<1>12. CASE TellsExit(g)
  <2>1. reader'[g] = [r EXCEPT !.at = "after"] /\ r.at = "drain" /\ Observe(g, "exited")
    BY <1>3, <1>4, <1>12 DEF TellsExit, Reader
  <2>2. lock'.by = g \/ g \in woken
    BY <1>6, <2>1 DEF Observe, Owns
  <2>3. reader'[g].at = "after"
    BY <1>5, <2>1
  <2> QED BY <1>1, <1>2, <2>2, <2>3 DEF ReaderStays
<1>13. CASE Leaves(g)
  <2>1. /\ reader'[g] = [r EXCEPT !.at = "after", !.released = TRUE] \/ reader'[g] = [r EXCEPT !.at = "after"]
        /\ g \in cancelled \/ ~r.lines
    BY <1>3, <1>4, <1>13 DEF Leaves
  <2>2. g \in woken
    BY <1>1, <1>4, <1>6, <2>1 DEF ReaderStays
  <2>3. reader'[g].at = "after"
    BY <1>5, <2>1
  <2> QED BY <1>1, <1>2, <2>2, <2>3 DEF ReaderStays
<1>14. CASE After(g) \/ Stopped(g)
  <2>1. r.at \in {"after", "stopping"}
    BY <1>4, <1>14 DEF After, Stopped, Reader
  <2>2. g \in woken
    BY <1>1, <1>4, <2>1 DEF ReaderStays
  <2>3. \/ reader'[g] = [r EXCEPT !.at = "stopping"]
        \/ reader'[g] = [r EXCEPT !.at = "done"] /\ stopping' = stopping \ {g}
    BY <1>3, <1>4, <1>14 DEF After, Stopped, Afterwards
  <2>4. reader'[g].at \in {"stopping", "done"} /\ (reader'[g].at = "done" => g \notin stopping')
    BY <1>5, <2>3
  <2> QED BY <1>1, <1>2, <2>2, <2>4 DEF ReaderStays
<1>15. ~Panic(g) /\ ~Caught(g)
  BY <1>1 DEF Panic, Caught, Reader, ReaderStays
<1> QED BY <1>8, <1>9, <1>10, <1>11, <1>12, <1>13, <1>14, <1>15 DEF ReaderSteps

LEMMA AllStayKeeps == ~Panics /\ IInv /\ AllStay /\ [Next]_vars => AllStay'
<1> SUFFICES ASSUME ~Panics, IInv, AllStay, [Next]_vars, NEW h \in Gens PROVE ReaderStays(h)'
  BY DEF AllStay
<1> USE Numbers, RestsDiffer
<1>0. TypeOK /\ ReaderStays(h)
  BY DEF IInv, AllStay
<1>1. CASE Logs \/ SetsStatus \/ Wakes
  <2>1. /\ UNCHANGED <<reader, diags, over, stopping>> /\ lock'.by = lock.by /\ woken \subseteq woken'
    BY <1>1, LockStepsAre, GoingOn DEF Logs, SetsStatus, Wakes, letting, reading, transport
  <2> QED BY <1>0, <2>1, OthersStay
<1>2. CASE Pushes
  <2>1. /\ GoesOn(AfterStatus, AfterPush) /\ UNCHANGED <<reader, diags, over, woken>>
        /\ lock'.by = lock.by
        /\ stopping' = stopping \/ (lock.polite /\ stopping' = stopping \cup {lock.gen})
    BY <1>2, LockStepsAre, GoingOn DEF Pushes, reading, transport
  <2>2. CASE h \in stopping' => h \in stopping
    BY <1>0, <2>1, <2>2, OthersStay
  <2>3. CASE h \in stopping' /\ h \notin stopping
    <3>1. h = lock.gen /\ lock.polite /\ ~Free /\ lock.left = AfterStatus
      BY <2>1, <2>3 DEF GoesOn
    <3>2. lock.by # h
      BY <3>1 DEF IInv, LockIsSound
    <3>3. Published(h)
      BY <3>1, HolderIsLast
    <3>4. h \notin woken
      BY <3>1 DEF IInv, LettingFits
    <3>5. reader[h].at = "drain"
      BY <1>0, <3>2, <3>3, <3>4 DEF ReaderStays
    <3>6. (Published(h)' <=> Published(h)) /\ (SaysWhy(h)' <=> SaysWhy(h))
      BY <2>1 DEF Published, SaysWhy, Said
    <3> QED BY <1>0, <2>1, <3>5, <3>6 DEF ReaderStays
  <2> QED BY <2>2, <2>3
<1>3. CASE Cancels
  <2>1. LetsGo /\ UNCHANGED <<reader, diags, over, stopping, woken>>
    BY <1>3, LockStepsAre DEF Cancels, reading, transport
  <2>2. lock.by = h => h \in woken
    <3>1. SUFFICES ASSUME lock.by = h PROVE h \in woken
      OBVIOUS
    <3>2. ~Free /\ lock.left = AfterWake /\ lock.gen = h
      BY <2>1, <3>1 DEF LetsGo, IInv, LockIsSound
    <3> QED BY <3>2 DEF IInv, LettingFits
  <2> QED BY <1>0, <2>1, <2>2, OthersStay
<1>4. CASE Takes \/ Greet \/ Kill \/ OnlyLaunch \/ UNCHANGED vars
  <2>1. /\ UNCHANGED <<reader, diags, over, woken>> /\ stopping' \subseteq stopping
        /\ lock' = lock \/ Free
    BY <1>4 DEF Takes, Greet, Kill, OnlyLaunch, vars, connection, letting, reading, transport
  <2>2. lock.by = h => lock'.by = h
    BY <2>1 DEF Free
  <2> QED BY <1>0, <2>1, <2>2, OthersStay
<1>5. CASE Spawn
  <2>1. /\ ui = "spawn" /\ lock.by # Window /\ latest' = latest + 1
        /\ UNCHANGED <<reader, lock, woken, stopping>>
        /\ \/ UNCHANGED <<diags, over>>
           \/ diags' = [diags EXCEPT ![latest'] = <<"spawn">>] /\ over' = over \cup {latest'}
    BY <1>5 DEF Spawn, At, letting, reading
  <2>2. CASE diags'[h] = diags[h] /\ (h \in over' => h \in over)
    BY <1>0, <2>1, <2>2, OthersStay
  <2>3. CASE h = latest' /\ diags' = [diags EXCEPT ![latest'] = <<"spawn">>]
    <3>1. diags'[h] = <<"spawn">>
      BY <1>0, <2>3 DEF TypeOK
    <3>2. SaysWhy(h)'
      BY <3>1 DEF SaysWhy, Said
    <3>3. Published(h)' <=> Published(h)
      BY <2>1 DEF Published
    <3> QED BY <1>0, <2>1, <3>2, <3>3 DEF ReaderStays
  <2>4. CASE h # latest' /\ diags' = [diags EXCEPT ![latest'] = <<"spawn">>]
    <3>1. diags'[h] = diags[h] /\ (h \in over' => h \in over)
      BY <1>0, <2>1, <2>4 DEF TypeOK
    <3> QED BY <2>2, <3>1
  <2> QED BY <2>1, <2>2, <2>3, <2>4
<1>6. CASE Publish
  <2>1. /\ ui = "publish" /\ lock.by # Window /\ reader' = [reader EXCEPT ![latest] = Fresh]
        /\ UNCHANGED <<diags, over, woken, stopping, lock>>
    BY <1>6 DEF Publish, At, letting, transport
  <2>2. CASE reader'[h] = reader[h]
    BY <1>0, <2>1, <2>2, OthersStay
  <2>3. CASE reader'[h] # reader[h]
    <3>1. reader'[h] = Fresh /\ h = latest
      BY <1>0, <2>1, <2>3 DEF TypeOK
    <3>2. ~Published(h)
      BY <2>1, <3>1 DEF IInv, WindowFits, Between
    <3>3. ~reader[h].exit
      BY <3>2 DEF IInv, ReadersFit, Unborn
    <3>4. SaysWhy(h) => SaysWhy(h)'
      BY <2>1, <3>3 DEF SaysWhy, Said
    <3>5. Fresh.at = "drain" /\ Fresh.lines
      BY DEF Fresh, Unborn
    <3> QED BY <1>0, <2>1, <3>1, <3>4, <3>5 DEF ReaderStays
  <2> QED BY <2>2, <2>3
<1>7. ASSUME NEW g \in Gens, Carries, Sends(g) \/ Dies(g) \/ Ends(g) \/ Finishes(g)
      PROVE  ReaderStays(h)'
  <2>1. UNCHANGED <<reader, woken, stopping, lock>>
    BY <1>7 DEF Carries, connection, letting, reading
  <2>2. (Published(h)' <=> Published(h))
    BY <2>1 DEF Published
  <2>3. CASE UNCHANGED <<diags, over>>
    BY <1>0, <2>1, <2>3, OthersStay
  <2>4. CASE g # h
    <3>1. UNCHANGED diags \/ \E word \in Kinds : diags' = [diags EXCEPT ![g] = Append(@, word)]
      BY <1>7 DEF Sends, Dies, Ends, Finishes, Kinds
    <3>2. diags'[h] = diags[h] /\ (h \in over' => h \in over)
      BY <1>0, <1>7, <2>4, <3>1 DEF TypeOK, Sends, Dies, Ends, Finishes
    <3> QED BY <1>0, <2>1, <3>2, OthersStay
  <2>5. CASE g = h /\ Ends(h)
    <3>1. over' = over /\ (UNCHANGED diags \/ \E word \in Kinds : diags' = [diags EXCEPT ![h] = Append(@, word)])
      BY <2>5 DEF Ends, Kinds
    <3>2. SaysWhy(h) => SaysWhy(h)'
      <4>1. CASE UNCHANGED diags
        BY <2>1, <4>1 DEF SaysWhy, Said
      <4>2. CASE \E word \in Kinds : diags' = [diags EXCEPT ![h] = Append(@, word)]
        BY <1>0, <2>1, <4>2, SaidGoesOn DEF SaysWhy
      <4> QED BY <3>1, <4>1, <4>2
    <3> QED BY <1>0, <2>1, <2>2, <3>1, <3>2 DEF ReaderStays
  <2>6. CASE g = h /\ Finishes(h)
    <3>1. CASE h \in woken
      BY <1>0, <2>1, <2>2, <3>1 DEF ReaderStays
    <3>2. CASE h \notin woken
      <4>1. diags' = [diags EXCEPT ![h] = Append(@, "exited")]
        BY <2>6, <3>2 DEF Finishes
      <4>2. SaysWhy(h)'
        <5>1. diags[h] \in Seq(Kinds) /\ diags'[h] = Append(diags[h], "exited")
          BY <1>0, <4>1 DEF TypeOK
        <5>2. PICK s \in Seq(Kinds) : s = diags[h]
          BY <5>1
        <5>3. Len(s) + 1 \in DOMAIN Append(s, "exited") /\ Append(s, "exited")[Len(s) + 1] = "exited"
          BY <5>2
        <5> QED BY <5>1, <5>2, <5>3 DEF SaysWhy, Said
      <4> QED BY <1>0, <2>1, <2>2, <4>2 DEF ReaderStays
    <3> QED BY <3>1, <3>2
  <2>7. Sends(g) \/ Dies(g) => UNCHANGED <<diags, over>>
    BY DEF Sends, Dies
  <2> QED BY <1>7, <2>3, <2>4, <2>5, <2>6, <2>7
<1>8. ASSUME NEW g \in Gens, Works(g), ReaderSteps(g) \/ Panic(g) PROVE ReaderStays(h)'
  <2>1. CASE h = g
    BY <1>8, <2>1, OwnStop
  <2>2. CASE h # g
    <3>1. /\ reader'[h] = reader[h] /\ diags'[h] = diags[h] /\ UNCHANGED <<woken, over>>
          /\ stopping' \subseteq stopping
      BY <1>8, <2>2 DEF Works
    <3>2. lock.by = h => lock'.by = h
      BY <1>8 DEF Works, Tells, Free
    <3> QED BY <1>0, <3>1, <3>2, OthersStay
  <2> QED BY <2>1, <2>2
<1> QED BY <1>1, <1>2, <1>3, <1>4, <1>5, <1>6, <1>7, <1>8, StepsAre

\* Where handling a frame does not panic, whoever is asked to stop has a reader
\* that will see it over, whatever the agent and the release were doing at once
\* (reader.rs `read`); with a panic it need not, which the run stop_panic shows.
THEOREM EveryStopIsRead ==
  ASSUME ~Panics
  PROVE  Spec => []StopsAreRead
<1>1. Init => AllStay
  BY DEF Init, AllStay, ReaderStays, Published, Unborn
<1>2. IInv /\ AllStay => StopsAreRead
  BY DEF AllStay, ReaderStays, StopsAreRead, IInv, TypeOK
<1>3. IInv /\ AllStay /\ [Next]_vars => AllStay'
  BY AllStayKeeps
<1> QED BY <1>1, <1>2, <1>3, Inductive, PTL DEF Spec
=============================================================================
