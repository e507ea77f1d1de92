----------------------------- MODULE AppProofs ------------------------------
(***************************************************************************)
(* What stands around the inspector, proved for every value of the         *)
(* constants: its calls over the connections it has one after the other    *)
(* (D, Facade), the window's launches, exports and quitting (W, Window),   *)
(* the calls it counts in flight (K, Work), the account of what was        *)
(* claimed (A, Account), the controls that remember a press (C, Controls), *)
(* and the files kept between launches (F, Kept).  The letters are MCApp's.*)
(* The six share no state: a name that two of them use stands for the one  *)
(* variable, or constant, of whichever a theorem is about.                 *)
(***************************************************************************)
EXTENDS Naturals, Sequences, FiniteSets, FiniteSetTheorems, WellFoundedInduction, TLAPS

CONSTANTS
  Choices, Drafts, Families, Asks, Stalls, MaxConnections, MaxCalls, MaxChoices, MaxRows,
  MaxLaunches, MaxFrames, MaxActs, Methods, Options, MaxSwitches, Claimable, MaxAgents, Values,
  MaxArmings, MaxStates, MaxOffered, Invocations, Capacity, MaxEdits, MaxStarts

VARIABLES
  made, live, draft, chosen, choices, given, offers, agent, claim, policy, session, listing, auth,
  turn, settings, driven, rows, call, registered, starting, carried, answered, running, stopping,
  recorded, dropped, shown, launches, task, launching, remembered, watched, opened, opening, work,
  snapshot, saved, acts, quit, asking, forced, connected, switches, flight, begun, failed, dialog,
  agents, described, claims, calls, said, supplied, only, armed, arming, timers, ended, offered,
  current, stated, epoch, selected, sent, walked, up, starts, loaded, held, file, staged, holder,
  unsaved, queue, edits, asked, promised, aside

D == INSTANCE Facade
W == INSTANCE Window
K == INSTANCE Work
A == INSTANCE Account
C == INSTANCE Controls
F == INSTANCE Kept

(***************************************************************************)
(* A component counts with the operators of its own instance, which are    *)
(* those of FiniteSets.                                                    *)
(***************************************************************************)
LEMMA SizesAreSizes ==
  \A S : /\ D!Cardinality(S) = Cardinality(S) /\ D!IsFiniteSet(S) = IsFiniteSet(S)
         /\ W!Cardinality(S) = Cardinality(S)
         /\ K!Cardinality(S) = Cardinality(S)
         /\ A!Cardinality(S) = Cardinality(S)
<1>1. \A S : D!Cardinality(S) = Cardinality(S)
  BY Zenon DEF D!Cardinality, Cardinality
<1>2. \A S : D!IsFiniteSet(S) = IsFiniteSet(S)
  BY Zenon DEF D!IsFiniteSet, IsFiniteSet
<1>3. \A S : W!Cardinality(S) = Cardinality(S)
  BY Zenon DEF W!Cardinality, Cardinality
<1>4. \A S : K!Cardinality(S) = Cardinality(S)
  BY Zenon DEF K!Cardinality, Cardinality
<1>5. \A S : A!Cardinality(S) = Cardinality(S)
  BY Zenon DEF A!Cardinality, Cardinality
<1> QED BY <1>1, <1>2, <1>3, <1>4, <1>5

-----------------------------------------------------------------------------
(***************************************************************************)
(* Facade: the inspector's calls over the connections it has one after the *)
(* other (inspector/mod.rs, client/driving.rs, driven.rs). A call is of    *)
(* the connection it was asked over, and what it leaves behind when it     *)
(* answers late is told of that agent or of none. The invariant adds that  *)
(* nothing is of a connection still to come, and that a caller still on    *)
(* its way out carries only what the agent it will reach takes: that is    *)
(* checked when a call begins, and what it carries is sent when it leaves. *)
(***************************************************************************)
Doing == {"new", "load", "resume", "list", "close", "delete", "login", "logout", "set", "prompt"}
FacadeBounds ==
  /\ MaxConnections \in Nat /\ MaxCalls \in Nat /\ MaxChoices \in Nat /\ MaxRows \in Nat
  /\ Families \subseteq SUBSET D!Capability /\ Asks \subseteq Doing

(***************************************************************************)
(* The invariant.                                                          *)
(***************************************************************************)
Conns == 0..MaxConnections
CallsAre ==
  [op : {"none"} \cup Doing, conn : Conns, drives : SUBSET D!Capability,
   at : {"none", "leaving", "waiting", "woken", "refreshing", "done"},
   got : {"none", "ok", "refused", "auth", "gone", "page"}, on : 0..MaxCalls, switching : BOOLEAN]
Startings ==
  [at : {"none", "waiting", "ok", "failed", "opening"}, conn : Conns, draft : Drafts \cup {"none"},
   call : 0..MaxCalls]
Outcomes ==
  [how : {"unasked", "answered", "refused"}, of : Conns, by : {"none", "release"} \cup Doing]
CallsTyped ==
  /\ call \in [D!Calls -> CallsAre] /\ registered \subseteq D!Calls /\ starting \in Startings
  /\ carried \in BOOLEAN
PeersTyped ==
  /\ made \in Conns /\ live \in {0, made}
  /\ draft \in Drafts /\ chosen \in Choices /\ given \in Choices /\ choices \in 0..MaxChoices
  /\ offers \in SUBSET D!Capability /\ agent \in [of : Conns, caps : SUBSET D!Capability]
StoresTyped ==
  /\ policy \in [is : {"ask", "allow"}, of : Conns, in : 0..MaxCalls]
  /\ session \in 0..MaxCalls /\ listing \in Conns /\ settings \in Conns
  /\ auth \in [how : {"unasked", "required", "authenticated", "refused"}, of : Conns]
  /\ turn \in [how : {"idle", "running", "failed"}, of : Conns]
  /\ driven \in [D!Capability -> Outcomes]
  /\ IsFiniteSet(rows) /\ Cardinality(rows) <= MaxRows
\* The calls, the two ends and the stores are of their types.
FacadeTyped == CallsTyped /\ PeersTyped /\ StoresTyped

\* Nothing is of a connection still to come.
NothingEarly ==
  /\ listing <= made /\ auth.of <= made /\ policy.of <= made
  /\ \A c \in D!Calls : call[c].conn <= made
\* The start in progress is of the latest connection, whose agent is described as it
\* will describe itself or not at all.
StartIsTheLatest ==
  /\ starting.at \in {"waiting", "ok", "failed"} => starting.conn = made
  /\ agent.caps \subseteq offers
\* A caller that still leaves carries only what the agent it will ask takes.
LeaversCarry ==
  \A c \in D!Calls : call[c].at = "leaving" =>
    /\ call[c].conn # 0
    /\ call[c].conn = made => call[c].drives \cap {"http", "sse"} \subseteq offers
\* With no session live, no row is of one.
RowsAreOfSessions == session = 0 => \A r \in rows : r.session = 0

\* What the run checks, beside the types.
Told == /\ D!RecordIsThisAgents /\ D!StoresAreThisAgents /\ D!PolicyIsThisAgents
        /\ D!LeftRowsAreGone /\ D!OnlyTheAdvertised
DInv == FacadeTyped /\ NothingEarly /\ StartIsTheLatest /\ LeaversCarry /\ RowsAreOfSessions /\ Told

(***************************************************************************)
(* The record, and what stands for nothing yet.                            *)
(***************************************************************************)
\* What is recorded of the connection there is, or of none, keeps the record.
LEMMA RecordedOfThis ==
  ASSUME StoresTyped, D!RecordIsThisAgents, NEW caps, NEW how \in {"unasked", "answered", "refused"},
         NEW k \in Conns, NEW op \in {"none", "release"} \cup Doing, k \in {0, made} \/ op = "new",
         UNCHANGED made, driven' = D!Recorded(caps, how, k, op)
  PROVE  driven' \in [D!Capability -> Outcomes] /\ D!RecordIsThisAgents'
<1> DEFINE new == D!Recorded(caps, how, k, op)
<1>1. /\ new \in [D!Capability -> Outcomes]
      /\ \A a \in D!Capability : new[a] = driven[a] \/ (new[a].of = k /\ new[a].by = op)
  <2>1. new = [a \in D!Capability |-> IF a \in caps THEN [how |-> how, of |-> k, by |-> op] ELSE driven[a]]
    BY DEF D!Recorded
  <2>2. [how |-> how, of |-> k, by |-> op] \in Outcomes
    BY DEF Outcomes
  <2>3. \A a \in D!Capability : driven[a] \in Outcomes
    BY DEF StoresTyped
  <2> QED BY <2>1, <2>2, <2>3
<1> QED BY <1>1 DEF D!RecordIsThisAgents

\* What stands for nothing yet is of its type.
LEMMA Blanks ==
  ASSUME FacadeBounds
  PROVE  /\ 0 \in Conns /\ 0 \in 0..MaxCalls
         /\ D!NoCall \in CallsAre
         /\ D!NoLogin \in [how : {"unasked", "required", "authenticated", "refused"}, of : Conns]
         /\ D!Unasked \in Outcomes /\ D!Asking \in [is : {"ask", "allow"}, of : Conns, in : 0..MaxCalls]
         /\ D!Idle \in [how : {"idle", "running", "failed"}, of : Conns]
         /\ D!NotStarting \in Startings
  BY DEF FacadeBounds, Conns, D!NoCall, CallsAre, D!NoLogin, D!Unasked, Outcomes, D!Asking, D!Idle,
      D!NotStarting, Startings

\* The invariant holds of an inspector just made.
LEMMA InitDInv == ASSUME FacadeBounds, D!Init PROVE DInv
<1>1. FacadeTyped
  <2>1. CallsTyped
    BY Blanks DEF D!Init, CallsTyped
  <2>2. PeersTyped
    BY Blanks DEF D!Init, PeersTyped, FacadeBounds
  <2>3. IsFiniteSet(rows) /\ Cardinality(rows) = 0
    BY FS_EmptySet DEF D!Init
  <2>4. StoresTyped
    BY Blanks, <2>3 DEF D!Init, StoresTyped, FacadeBounds
  <2> QED BY <2>1, <2>2, <2>4 DEF FacadeTyped
<1>2. NothingEarly /\ StartIsTheLatest /\ LeaversCarry /\ RowsAreOfSessions
  BY DEF D!Init, NothingEarly, StartIsTheLatest, LeaversCarry, RowsAreOfSessions, D!NoLogin,
      D!Asking, D!NoCall, D!NotStarting
<1>3. Told
  BY DEF D!Init, Told, D!RecordIsThisAgents, D!StoresAreThisAgents, D!PolicyIsThisAgents,
      D!LeftRowsAreGone, D!OnlyTheAdvertised, D!Unasked, D!Idle, D!Asking
<1> QED BY <1>1, <1>2, <1>3 DEF DInv

(***************************************************************************)
(* Each step.                                                              *)
(***************************************************************************)
\* A call torn down keeps whose it is and what it carries, and was not leaving.
LEMMA TornIs ==
  ASSUME CallsTyped
  PROVE  /\ D!Torn \in [D!Calls -> CallsAre]
         /\ \A c \in D!Calls : /\ D!Torn[c].conn = call[c].conn
                               /\ D!Torn[c].at = "leaving" => D!Torn[c] = call[c]
<1>1. \A c \in D!Calls : call[c] \in CallsAre
  BY DEF CallsTyped
<1>2. ASSUME NEW c \in D!Calls
      PROVE  /\ [call[c] EXCEPT !.got = "gone", !.at = "woken"] \in CallsAre
             /\ [call[c] EXCEPT !.got = "gone", !.at = "woken"].conn = call[c].conn
             /\ [call[c] EXCEPT !.got = "gone", !.at = "woken"].at = "woken"
  BY <1>1 DEF CallsAre
<1> QED BY <1>1, <1>2 DEF D!Torn

\* A connection let go of: its calls are torn down, its stores blank or failed (`release`).
LEMMA ReleaseKeeps == ASSUME FacadeBounds, DInv, D!Release PROVE DInv'
<1>1. CallsTyped /\ PeersTyped /\ StoresTyped /\ Told
  BY DEF DInv, FacadeTyped
<1>2. /\ call' = D!Torn /\ registered' \subseteq registered /\ live # 0 /\ live = made /\ live' = 0
      /\ UNCHANGED <<made, D!window, D!peers, agent, claim, session, listing, auth, rows, carried>>
  BY <1>1 DEF D!Release, PeersTyped
<1>3. driven' \in [D!Capability -> Outcomes] /\ D!RecordIsThisAgents'
  <2>1. driven' = D!Recorded(UNION {call[c].drives : c \in D!OwedBy(live)}, "refused", live, "release")
    BY DEF D!Release, D!RefusedAtRelease
  <2> QED BY <1>1, <1>2, <2>1, RecordedOfThis DEF PeersTyped, Told
<1>4. /\ starting' \in Startings
      /\ \/ starting' = starting
         \/ starting'.at = "failed" /\ starting.at = "waiting" /\ starting'.conn = starting.conn
  BY <1>1 DEF D!Release, CallsTyped, Startings
<1>5. CallsTyped'
  BY <1>1, <1>2, <1>4, TornIs DEF CallsTyped
<1>6. PeersTyped'
  BY <1>1, <1>2 DEF PeersTyped, D!window, D!peers
<1>7. /\ policy' = D!Asking /\ turn' \in {turn, [how |-> "failed", of |-> live]} /\ settings' \in {settings, live}
  BY DEF D!Release
<1>8. StoresTyped'
  <2>1. live \in Conns /\ policy' \in [is : {"ask", "allow"}, of : Conns, in : 0..MaxCalls]
    BY <1>1, <1>2, <1>7, Blanks DEF PeersTyped
  <2>2. turn' \in [how : {"idle", "running", "failed"}, of : Conns] /\ settings' \in Conns
    BY <1>1, <1>7, <2>1 DEF StoresTyped
  <2> QED BY <1>1, <1>2, <1>3, <2>1, <2>2 DEF StoresTyped
<1>9. NothingEarly'
  <2>1. listing' <= made' /\ auth'.of <= made'
    BY <1>2 DEF DInv, NothingEarly
  <2>2. policy'.of <= made'
    BY <1>1, <1>2, <1>7 DEF D!Asking, FacadeBounds, PeersTyped, Conns
  <2>3. \A c \in D!Calls : D!Torn[c].conn = call[c].conn
    BY ONLY <1>1, TornIs
  <2>4. \A c \in D!Calls : call'[c].conn <= made'
    BY ONLY DInv, <1>2, <2>3 DEF DInv, NothingEarly
  <2> QED BY <2>1, <2>2, <2>4 DEF NothingEarly
<1>10. StartIsTheLatest' /\ RowsAreOfSessions'
  BY <1>2, <1>4 DEF DInv, StartIsTheLatest, RowsAreOfSessions, D!window, D!peers
<1>11. LeaversCarry'
  <2> SUFFICES ASSUME NEW c \in D!Calls, call'[c].at = "leaving"
               PROVE  /\ call'[c].conn # 0
                      /\ call'[c].conn = made' => call'[c].drives \cap {"http", "sse"} \subseteq offers'
    BY DEF LeaversCarry
  <2>1. D!Torn[c].at = "leaving" => D!Torn[c] = call[c]
    BY ONLY <1>1, TornIs, c \in D!Calls
  <2>2. call'[c] = call[c] /\ made' = made /\ offers' = offers
    BY <1>2, <2>1 DEF D!peers
  <2> QED BY <2>2 DEF DInv, LeaversCarry
<1>12. Told'
  BY <1>1, <1>2, <1>3, <1>7 DEF Told, D!StoresAreThisAgents, D!PolicyIsThisAgents, D!LeftRowsAreGone,
     D!OnlyTheAdvertised, D!Asking, D!Serves, D!window, D!peers
<1> QED BY <1>5, <1>6, <1>8, <1>9, <1>10, <1>11, <1>12 DEF DInv, FacadeTyped

\* A start: a connection is made, and nothing the one before left is read as its own.
LEMMA StartKeeps == ASSUME FacadeBounds, DInv, D!Start PROVE DInv'
<1>1. CallsTyped /\ PeersTyped /\ StoresTyped /\ Told
  BY DEF DInv, FacadeTyped
<1>2. /\ made' = made + 1 /\ live' = made' /\ made' \in Conns /\ made \in Conns /\ made \in Nat
      /\ given' = chosen /\ offers' \in Families
      /\ carried' = FALSE /\ agent' = [of |-> 0, caps |-> {}] /\ policy' = D!Asking /\ session' = 0
      /\ listing' = 0 /\ auth' = D!NoLogin /\ turn' = D!Idle /\ settings' = 0
      /\ driven' = [a \in D!Capability |-> D!Unasked] /\ claim' = D!Claimed /\ UNCHANGED D!window
      /\ rows' = IF session # 0 THEN {} ELSE rows
  BY <1>1 DEF D!Start, D!Connect, D!PolicyTaken, D!Emptied, D!Leaving, PeersTyped, Conns, FacadeBounds
<1>3. call' \in {call, D!Torn} /\ registered' \subseteq registered
  BY DEF D!Start, D!Connect
<1>4. starting' \in Startings /\ starting'.at = "waiting" /\ starting'.conn = made'
  BY <1>1, <1>2, Blanks DEF D!Start, Startings, D!NotStarting, PeersTyped
<1>5. CallsTyped'
  BY <1>1, <1>2, <1>3, <1>4, TornIs DEF CallsTyped
<1>6. PeersTyped'
  BY <1>1, <1>2 DEF PeersTyped, D!window, FacadeBounds, Conns
<1>7. IsFiniteSet(rows') /\ Cardinality(rows') <= MaxRows
  BY <1>1, <1>2, FS_EmptySet DEF StoresTyped, FacadeBounds
<1>8. StoresTyped'
  BY <1>1, <1>2, <1>7, Blanks DEF StoresTyped
<1>9. NothingEarly' /\ StartIsTheLatest'
  <2>1. StartIsTheLatest' /\ listing' <= made' /\ auth'.of <= made' /\ policy'.of <= made'
    BY <1>2, <1>4 DEF StartIsTheLatest, D!Asking, D!NoLogin
  <2>2. ASSUME NEW c \in D!Calls PROVE call'[c].conn = call[c].conn
    <3>1. CASE call' = call
      BY <3>1
    <3>2. CASE call' = D!Torn
      BY <1>1, <3>2, TornIs
    <3> QED BY <1>3, <3>1, <3>2
  <2>3. ASSUME NEW c \in D!Calls PROVE call[c].conn <= made /\ call[c].conn \in Nat
    BY <1>1 DEF DInv, NothingEarly, CallsTyped, CallsAre, Conns
  <2>4. \A c \in D!Calls : call'[c].conn <= made'
    BY <1>2, <2>2, <2>3
  <2> QED BY <2>1, <2>4 DEF NothingEarly
<1>10. LeaversCarry'
  <2> SUFFICES ASSUME NEW c \in D!Calls, call'[c].at = "leaving"
               PROVE  call'[c].conn # 0 /\ call'[c].conn # made'
    BY DEF LeaversCarry
  <2>1. call'[c] = call[c]
    <3>1. CASE call' = call
      BY <3>1
    <3>2. CASE call' = D!Torn
      BY <1>1, <3>2, TornIs
    <3> QED BY <1>3, <3>1, <3>2
  <2>2. call[c].conn <= made /\ call[c].conn # 0 /\ call[c].conn \in Nat
    BY <1>1, <2>1 DEF DInv, NothingEarly, LeaversCarry, CallsTyped, CallsAre, Conns
  <2> QED BY <1>2, <2>1, <2>2
<1>11. RowsAreOfSessions'
  BY <1>2 DEF DInv, RowsAreOfSessions
<1>12. Told'
  <2>1. \A m \in DOMAIN D!ServiceOf : D!ServiceOf[m] \notin D!Always
    BY DEF D!ServiceOf, D!Always
  <2> QED BY <1>1, <1>2, <1>11, <2>1 DEF Told, D!RecordIsThisAgents, D!StoresAreThisAgents,
      D!PolicyIsThisAgents, D!LeftRowsAreGone, D!OnlyTheAdvertised, D!Asking, D!Idle, D!Unasked,
      D!Serves, D!Claimed, RowsAreOfSessions, DInv
<1> QED BY <1>5, <1>6, <1>8, <1>9, <1>10, <1>11, <1>12 DEF DInv, FacadeTyped

\* The steps that touch neither calls nor connections: choosing, greeting, a row said.
LEMMA SmallKeep == ASSUME FacadeBounds, DInv, D!Chooses \/ D!Greeted \/ D!Says PROVE DInv'
<1>1. CallsTyped /\ PeersTyped /\ StoresTyped /\ Told
  BY DEF DInv, FacadeTyped
<1>2. CASE D!Chooses
  <2>1. policy' = policy \/ (policy'.is = "allow" /\ policy'.of = made)
    BY <1>2 DEF D!Chooses
  <2>2. PeersTyped'
    BY <1>1, <1>2 DEF PeersTyped, D!Chooses, D!peers, FacadeBounds
  <2>3. StoresTyped'
    <3>1. policy' \in [is : {"ask", "allow"}, of : Conns, in : 0..MaxCalls]
      BY <1>1, <1>2 DEF PeersTyped, StoresTyped, D!Chooses
    <3> QED BY <1>1, <1>2, <3>1 DEF StoresTyped, D!Chooses
  <2>4. CallsTyped'
    BY <1>1, <1>2 DEF CallsTyped, D!Chooses
  <2>5. NothingEarly'
    BY <1>1, <1>2, <2>1 DEF D!Chooses, DInv, NothingEarly, PeersTyped, Conns, FacadeBounds
  <2>6. StartIsTheLatest' /\ LeaversCarry' /\ RowsAreOfSessions'
    BY <1>2 DEF D!Chooses, DInv, StartIsTheLatest, LeaversCarry, RowsAreOfSessions, D!peers
  <2>7. Told'
    BY <1>1, <1>2, <2>1 DEF D!Chooses, Told, D!RecordIsThisAgents, D!StoresAreThisAgents,
        D!PolicyIsThisAgents, D!LeftRowsAreGone, D!OnlyTheAdvertised, D!Serves, D!peers
  <2> QED BY <2>2, <2>3, <2>4, <2>5, <2>6, <2>7 DEF DInv, FacadeTyped
<1>3. CASE D!Greeted
  <2>1. /\ UNCHANGED <<made, live, D!window, D!peers, D!stores, call, registered, carried>>
        /\ starting' \in Startings /\ starting.at = "waiting" /\ starting'.conn = starting.conn
    BY <1>1, <1>3 DEF D!Greeted, CallsTyped, Startings
  <2>2. FacadeTyped'
    BY <1>1, <2>1 DEF FacadeTyped, CallsTyped, PeersTyped, StoresTyped, D!window, D!peers, D!stores
  <2>3. NothingEarly' /\ StartIsTheLatest' /\ LeaversCarry' /\ RowsAreOfSessions'
    BY <2>1 DEF DInv, NothingEarly, StartIsTheLatest, LeaversCarry, RowsAreOfSessions, D!peers, D!stores
  <2>4. Told'
    BY <1>1, <2>1 DEF Told, D!RecordIsThisAgents, D!StoresAreThisAgents, D!PolicyIsThisAgents,
       D!LeftRowsAreGone, D!OnlyTheAdvertised, D!Serves, D!peers, D!stores
  <2> QED BY <2>2, <2>3, <2>4 DEF DInv
<1>4. CASE D!Says
  <2>1. /\ UNCHANGED <<made, live, D!window, D!peers, agent, claim, policy, session, listing, auth, turn,
                      settings, driven, call, registered, starting, carried>>
        /\ live = made /\ rows' = rows \cup {[conn |-> live, session |-> session]}
        /\ Cardinality(rows) < MaxRows
    BY <1>1, <1>4, SizesAreSizes DEF D!Says, PeersTyped
  <2>2. IsFiniteSet(rows') /\ Cardinality(rows') <= MaxRows
    <3>1. \/ Cardinality(rows') = Cardinality(rows)
          \/ Cardinality(rows') = Cardinality(rows) + 1
      BY <1>1, <2>1, FS_AddElement DEF StoresTyped
    <3>2. IsFiniteSet(rows') /\ Cardinality(rows) \in Nat
      BY <1>1, <2>1, FS_AddElement, FS_CardinalityType DEF StoresTyped
    <3> QED BY <1>1, <2>1, <3>1, <3>2 DEF StoresTyped, FacadeBounds
  <2>3. FacadeTyped'
    BY <1>1, <2>1, <2>2 DEF FacadeTyped, CallsTyped, PeersTyped, StoresTyped, D!window, D!peers
  <2>4. NothingEarly' /\ StartIsTheLatest' /\ LeaversCarry' /\ RowsAreOfSessions'
    BY <2>1 DEF DInv, NothingEarly, StartIsTheLatest, LeaversCarry, RowsAreOfSessions, D!peers
  <2>5. Told'
    BY <1>1, <2>1 DEF Told, D!RecordIsThisAgents, D!StoresAreThisAgents, D!PolicyIsThisAgents,
       D!LeftRowsAreGone, D!OnlyTheAdvertised, D!Serves, D!peers
  <2> QED BY <2>3, <2>4, <2>5 DEF DInv
<1> QED BY <1>2, <1>3, <1>4

\* One call becomes another; the others stay.
LEMMA CallBecomes ==
  ASSUME CallsTyped, NEW c \in D!Calls, NEW r \in CallsAre, call' = [call EXCEPT ![c] = r]
  PROVE  call' \in [D!Calls -> CallsAre] /\ call'[c] = r /\ \A d \in D!Calls \ {c} : call'[d] = call[d]
  BY DEF CallsTyped

\* What it must be for nothing to be early, and for who leaves to carry what is taken.
LEMMA CallFits ==
  ASSUME NothingEarly, LeaversCarry, CallsTyped, NEW c \in D!Calls, NEW r \in CallsAre,
         call' = [call EXCEPT ![c] = r], UNCHANGED <<made, offers>>, r.conn <= made,
         r.at = "leaving" => /\ r.conn # 0
                             /\ r.conn = made => r.drives \cap {"http", "sse"} \subseteq offers,
         listing' <= made, auth'.of <= made, policy'.of <= made
  PROVE  NothingEarly' /\ LeaversCarry'
  BY CallBecomes DEF NothingEarly, LeaversCarry

\* What a draft's remote servers need is a capability.
LEMMA RemoteIs ==
  ASSUME NEW d
  PROVE  D!Remote(d) \in SUBSET D!Capability /\ D!Remote(d) \subseteq {"http", "sse"}
  BY DEF D!Remote, D!Capability

\* The agent described itself: from here on calls are driven by what it claimed.
LEMMA InitializedKeeps == ASSUME FacadeBounds, DInv, D!Initialized PROVE DInv'
<1>1. CallsTyped /\ PeersTyped /\ StoresTyped /\ Told
  BY DEF DInv, FacadeTyped
<1>2. /\ UNCHANGED <<made, live, D!window, D!peers, claim, policy, session, listing, auth, turn, settings,
                    driven, rows>>
      /\ starting.conn = made /\ starting.at \in {"ok", "failed"}
      /\ agent' \in {agent, [of |-> made, caps |-> offers]}
  BY DEF D!Initialized, DInv, StartIsTheLatest
<1>3. /\ starting' \in Startings /\ starting'.at \notin {"waiting", "ok", "failed"}
      /\ \/ UNCHANGED <<call, registered, carried>>
         \/ \E n \in D!Calls, r \in CallsAre :
              /\ call' = [call EXCEPT ![n] = r] /\ r.conn = made /\ r.at = "waiting"
              /\ registered' \subseteq D!Calls /\ carried' \in BOOLEAN
              /\ carried' => offers \cap {"http", "sse"} # {}
  <2>1. CASE starting' = D!NotStarting /\ UNCHANGED <<call, registered, carried>>
    BY <2>1, Blanks DEF D!NotStarting
  <2>2. CASE /\ live # 0 /\ D!Defines(starting.draft, offers)
             /\ \E n \in D!Calls :
                  /\ starting' = [D!NotStarting EXCEPT !.at = "opening", !.call = n]
                  /\ call' = [call EXCEPT ![n] = [D!NoCall EXCEPT !.op = "new", !.conn = live,
                                       !.at = "waiting", !.drives = D!Remote(starting.draft)]]
             /\ registered' = {n \in D!Calls : call'[n].at = "waiting" /\ call'[n].drives # {}}
             /\ carried' = (D!Remote(starting.draft) # {})
    <3>1. PICK n \in D!Calls :
            /\ starting' = [D!NotStarting EXCEPT !.at = "opening", !.call = n]
            /\ call' = [call EXCEPT ![n] = [D!NoCall EXCEPT !.op = "new", !.conn = live,
                                       !.at = "waiting", !.drives = D!Remote(starting.draft)]]
      BY <2>2
    <3>2. PICK r : r = [D!NoCall EXCEPT !.op = "new", !.conn = live, !.at = "waiting",
                                      !.drives = D!Remote(starting.draft)]
      OBVIOUS
    <3>3. live = made /\ live \in Conns /\ n \in 0..MaxCalls
      BY <1>1, <2>2 DEF PeersTyped, D!Calls, FacadeBounds
    <3>4. r \in CallsAre /\ r.conn = made /\ r.at = "waiting"
      BY <3>2, <3>3, RemoteIs, Blanks DEF D!NoCall, CallsAre, Doing
    <3>5. starting' \in Startings /\ starting'.at = "opening"
      BY <3>1, <3>3, Blanks DEF D!NotStarting, Startings
    <3>6. D!Remote(starting.draft) # {} => offers \cap {"http", "sse"} # {}
      BY <2>2, RemoteIs DEF D!Defines
    <3> QED BY <2>2, <3>1, <3>2, <3>4, <3>5, <3>6
  <2> QED BY <2>1, <2>2 DEF D!Initialized
<1>4. /\ call' \in [D!Calls -> CallsAre] /\ registered' \subseteq D!Calls /\ carried' \in BOOLEAN
      /\ carried' => offers \cap {"http", "sse"} # {}
      /\ NothingEarly' /\ LeaversCarry'
  <2>1. CASE UNCHANGED <<call, registered, carried>>
    BY <1>1, <1>2, <2>1 DEF CallsTyped, Told, D!OnlyTheAdvertised, DInv, NothingEarly,
        LeaversCarry, D!peers
  <2>2. ASSUME NEW n \in D!Calls, NEW r \in CallsAre, call' = [call EXCEPT ![n] = r], r.conn = made,
               r.at = "waiting"
        PROVE  call' \in [D!Calls -> CallsAre] /\ NothingEarly' /\ LeaversCarry'
    <3>1. call' \in [D!Calls -> CallsAre]
      BY <1>1, <2>2, CallBecomes
    <3>2. /\ r.conn <= made /\ listing' <= made /\ auth'.of <= made /\ policy'.of <= made
          /\ UNCHANGED <<made, offers>>
      BY <1>1, <1>2, <2>2 DEF DInv, NothingEarly, PeersTyped, Conns, D!peers, FacadeBounds
    <3> QED BY <1>1, <2>2, <3>1, <3>2, CallFits DEF DInv
  <2> QED BY <1>3, <2>1, <2>2
<1>5. agent' \in [of : Conns, caps : SUBSET D!Capability] /\ agent'.caps \subseteq offers /\ agent'.of \in {0, made}
  BY <1>1, <1>2 DEF PeersTyped, DInv, StartIsTheLatest, Told, D!StoresAreThisAgents
<1>6. FacadeTyped'
  BY <1>1, <1>2, <1>3, <1>4, <1>5 DEF FacadeTyped, CallsTyped, PeersTyped, StoresTyped, D!window,
      D!peers
<1>7. StartIsTheLatest' /\ RowsAreOfSessions'
  BY <1>2, <1>3, <1>5 DEF DInv, StartIsTheLatest, RowsAreOfSessions, D!peers
<1>8. Told'
  BY <1>1, <1>2, <1>4, <1>5 DEF Told, D!RecordIsThisAgents, D!StoresAreThisAgents, D!PolicyIsThisAgents,
     D!LeftRowsAreGone, D!OnlyTheAdvertised, D!Serves, D!peers
<1> QED BY <1>4, <1>6, <1>7, <1>8 DEF DInv

\* What a call of the window may drive, and what of it is carried over HTTP or SSE.
LEMMA DrivesAre ==
  ASSUME NEW op \in Doing, NEW roots \in BOOLEAN
  PROVE  /\ D!Drives(op, roots) \in SUBSET D!Capability
         /\ op \in D!Opens => D!Drives(op, roots) \cap {"http", "sse"} \subseteq D!Remote(draft)
         /\ op \notin D!Opens => D!Drives(op, roots) \cap {"http", "sse"} = {}
<1>1. D!GateOf(op) \subseteq D!Capability /\ D!GateOf(op) \cap {"http", "sse"} = {}
  BY DEF D!GateOf, D!Capability
<1>2. "additionalDirectories" \in D!Capability
  BY DEF D!Capability
<1> QED BY <1>1, <1>2, RemoteIs DEF D!Drives

\* A call begun, by its caller or on opening: it is of the connection there is.
LEMMA BeginsKeeps ==
  ASSUME FacadeBounds, DInv, NEW c \in D!Calls, NEW op \in Doing, NEW roots \in BOOLEAN, live # 0,
         op \in D!Opens => D!Defines(draft, D!Advertised), D!Begins(c, op, roots), UNCHANGED <<D!window, starting>>
  PROVE  DInv'
<1>1. CallsTyped /\ PeersTyped /\ StoresTyped /\ Told
  BY DEF DInv, FacadeTyped
<1>2. /\ UNCHANGED <<made, live, D!window, D!peers, agent, claim, session, listing, auth, settings, driven,
                    starting>>
      /\ live = made /\ made \in Nat /\ made \in Conns /\ session \in 0..MaxCalls
  BY <1>1 DEF D!Begins, PeersTyped, StoresTyped, Conns, FacadeBounds
<1>3. PICK r : r = [D!NoCall EXCEPT !.op = op, !.conn = live, !.drives = D!Drives(op, roots),
                                  !.at = IF D!Left(op) /\ Stalls THEN "leaving" ELSE "waiting",
                                  !.on = session, !.switching = D!Left(op)]
  OBVIOUS
<1>4. r \in CallsAre /\ r.conn = made /\ r.drives = D!Drives(op, roots)
  <2>1. D!Left(op) \in BOOLEAN
    BY DEF D!Left
  <2> QED BY <1>2, <1>3, <2>1, DrivesAre DEF D!NoCall, CallsAre
<1>5. r.drives \cap {"http", "sse"} \subseteq offers
  BY <1>4, DrivesAre, RemoteIs DEF D!Defines, D!Advertised, DInv, StartIsTheLatest
<1>6. /\ call' = [call EXCEPT ![c] = r] /\ registered' \in {registered, registered \cup {c}}
      /\ carried' = (carried \/ (op \in D!Opens /\ D!Remote(draft) # {} /\ ~(D!Left(op) /\ Stalls)))
      /\ policy' \in {policy, D!Asking} /\ turn' \in {turn, D!Idle, [how |-> "running", of |-> live]}
      /\ rows' \in {rows, {}}
  BY <1>3 DEF D!Begins
<1>7. CallsTyped'
  BY <1>1, <1>2, <1>4, <1>6, CallBecomes DEF CallsTyped
<1>8. PeersTyped'
  BY <1>1, <1>2 DEF PeersTyped, D!window, D!peers
<1>9. StoresTyped'
  <2>1. policy' \in [is : {"ask", "allow"}, of : Conns, in : 0..MaxCalls]
    BY <1>1, <1>6, Blanks DEF StoresTyped
  <2>2. turn' \in [how : {"idle", "running", "failed"}, of : Conns]
    BY <1>1, <1>2, <1>6, Blanks DEF StoresTyped
  <2>3. IsFiniteSet(rows') /\ Cardinality(rows') <= MaxRows
    <3>1. IsFiniteSet(rows) /\ Cardinality(rows) <= MaxRows
      BY <1>1 DEF StoresTyped
    <3>2. Cardinality({}) = 0
      BY FS_EmptySet
    <3>3. IsFiniteSet({}) /\ Cardinality({}) <= MaxRows
      BY <3>2, FS_EmptySet DEF FacadeBounds
    <3> QED BY <1>6, <3>1, <3>3
  <2> QED BY <1>1, <1>2, <2>1, <2>2, <2>3 DEF StoresTyped
<1>10. policy'.of <= made
  BY <1>2, <1>6 DEF DInv, NothingEarly, D!Asking
<1>11. NothingEarly' /\ LeaversCarry'
  <2>1. /\ r.conn <= made /\ listing' <= made /\ auth'.of <= made /\ policy'.of <= made
        /\ UNCHANGED <<made, offers>> /\ r.conn # 0
    BY <1>2, <1>4, <1>10 DEF DInv, NothingEarly, D!peers
  <2> QED BY <1>1, <1>4, <1>5, <1>6, <2>1, CallFits DEF DInv
<1>12. StartIsTheLatest' /\ RowsAreOfSessions'
  BY <1>2, <1>6 DEF DInv, StartIsTheLatest, RowsAreOfSessions, D!peers
<1>13. Told'
  <2>1. D!OnlyTheAdvertised'
    <3>1. op \in D!Opens /\ D!Remote(draft) # {} => offers \cap {"http", "sse"} # {}
      BY RemoteIs DEF D!Defines, D!Advertised, DInv, StartIsTheLatest
    <3> QED BY <1>1, <1>2, <1>6, <3>1 DEF Told, D!OnlyTheAdvertised, D!peers
  <2> QED BY <1>1, <1>2, <1>6, <2>1 DEF Told, D!RecordIsThisAgents, D!StoresAreThisAgents,
     D!PolicyIsThisAgents, D!LeftRowsAreGone, D!Asking, D!Idle, D!Serves, D!peers
<1> QED BY <1>7, <1>8, <1>9, <1>11, <1>12, <1>13 DEF DInv, FacadeTyped

\* What keeps the call it does not make keeps the rest of what is told of it.
LEMMA NobodyThereKeeps ==
  ASSUME FacadeBounds, DInv, NEW op \in Doing, NEW roots \in BOOLEAN, D!NobodyThere(op, roots),
         UNCHANGED <<D!window, starting>>
  PROVE  DInv'
<1>1. CallsTyped /\ PeersTyped /\ StoresTyped /\ Told
  BY DEF DInv, FacadeTyped
<1>2. /\ UNCHANGED <<made, live, D!window, D!peers, agent, claim, policy, session, listing, rows, call,
                    registered, starting, carried>>
      /\ driven' = D!Recorded(D!Drives(op, roots), "refused", 0, op)
      /\ auth' \in {auth, [how |-> "refused", of |-> 0]} /\ turn' \in {turn, [how |-> "failed", of |-> 0]}
      /\ settings' \in {settings, 0} /\ 0 \in Conns /\ 0 <= made
  BY <1>1, Blanks DEF D!NobodyThere, PeersTyped, Conns, FacadeBounds
<1>3. driven' \in [D!Capability -> Outcomes] /\ D!RecordIsThisAgents'
  BY <1>1, <1>2, RecordedOfThis DEF Told
<1>4. FacadeTyped'
  BY <1>1, <1>2, <1>3 DEF FacadeTyped, CallsTyped, PeersTyped, StoresTyped, D!window, D!peers
<1>5. NothingEarly' /\ StartIsTheLatest' /\ LeaversCarry' /\ RowsAreOfSessions'
  BY <1>2 DEF DInv, NothingEarly, StartIsTheLatest, LeaversCarry, RowsAreOfSessions, D!peers
<1>6. Told'
  BY <1>1, <1>2, <1>3 DEF Told, D!StoresAreThisAgents, D!PolicyIsThisAgents, D!LeftRowsAreGone,
     D!OnlyTheAdvertised, D!Serves, D!peers
<1> QED BY <1>4, <1>5, <1>6 DEF DInv

\* A call the user asks for.
LEMMA AskKeeps ==
  ASSUME FacadeBounds, DInv, NEW c \in D!Calls, NEW op \in Asks, NEW roots \in BOOLEAN, D!Ask(c, op, roots)
  PROVE  DInv'
<1>1. op \in Doing
  BY DEF FacadeBounds
<1> QED BY <1>1, BeginsKeeps, NobodyThereKeeps DEF D!Ask

\* A caller leaves for the connection it was asked over, or finds it gone.
LEMMA GoesKeeps == ASSUME FacadeBounds, DInv, NEW c \in D!Calls, D!Goes(c) PROVE DInv'
<1>1. CallsTyped /\ PeersTyped /\ StoresTyped /\ Told
  BY DEF DInv, FacadeTyped
<1>2. /\ UNCHANGED <<made, live, D!window, D!peers, agent, claim, policy, session, listing, auth, turn,
                    settings, rows, starting>>
      /\ call[c].at = "leaving" /\ call[c] \in CallsAre /\ call[c].conn # 0 /\ call[c].conn <= made
      /\ call[c].conn \in Conns /\ live \in {0, made}
      /\ call[c].op \in {"none"} \cup Doing /\ call[c].drives \in SUBSET D!Capability
  BY <1>1 DEF D!Goes, CallsTyped, PeersTyped, DInv, NothingEarly, LeaversCarry, CallsAre
<1>3. \E r \in CallsAre : /\ call' = [call EXCEPT ![c] = r] /\ r.conn = call[c].conn /\ r.at # "leaving"
                          /\ registered' \subseteq registered \cup {c}
  <2>1. CASE call[c].conn = live
    <3>1. PICK r : r = [call[c] EXCEPT !.at = "waiting"]
      OBVIOUS
    <3>2. r \in CallsAre /\ r.conn = call[c].conn /\ r.at = "waiting"
      BY <1>2, <3>1 DEF CallsAre
    <3> QED BY <2>1, <3>1, <3>2 DEF D!Goes
  <2>2. CASE call[c].conn # live
    <3>1. PICK r : r = [call[c] EXCEPT !.at = "woken", !.got = "gone"]
      OBVIOUS
    <3>2. r \in CallsAre /\ r.conn = call[c].conn /\ r.at = "woken"
      BY <1>2, <3>1 DEF CallsAre
    <3> QED BY <1>1, <2>2, <3>1, <3>2 DEF D!Goes, CallsTyped
  <2> QED BY <2>1, <2>2
<1>4. /\ driven' \in [D!Capability -> Outcomes] /\ D!RecordIsThisAgents'
      /\ carried' \in BOOLEAN /\ D!OnlyTheAdvertised'
  <2>1. CASE call[c].conn = live
    <3>1. /\ driven' = driven /\ carried' = (carried \/ call[c].drives \cap {"http", "sse"} # {})
          /\ call[c].conn = made
      BY <1>2, <2>1 DEF D!Goes
    <3>2. call[c].drives \cap {"http", "sse"} \subseteq offers
      BY <1>2, <3>1 DEF DInv, LeaversCarry
    <3> QED BY <1>1, <1>2, <3>1, <3>2 DEF Told, D!RecordIsThisAgents, D!OnlyTheAdvertised,
        StoresTyped, D!peers
  <2>2. CASE call[c].conn # live
    <3>1. /\ carried' = carried
          /\ \/ driven' = driven
             \/ /\ driven' = D!Recorded(call[c].drives, "refused", call[c].conn, call[c].op)
                /\ call[c].op = "new"
      BY <2>2 DEF D!Goes, D!RegistersFirst
    <3>2. driven' \in [D!Capability -> Outcomes] /\ D!RecordIsThisAgents'
      <4>1. CASE driven' = driven
        BY <1>1, <1>2, <4>1 DEF Told, D!RecordIsThisAgents, StoresTyped
      <4>2. CASE driven' = D!Recorded(call[c].drives, "refused", call[c].conn, call[c].op)
                 /\ call[c].op = "new"
        BY <1>1, <1>2, <4>2, RecordedOfThis DEF Told
      <4> QED BY <3>1, <4>1, <4>2
    <3> QED BY <1>1, <1>2, <3>1, <3>2 DEF Told, D!OnlyTheAdvertised, CallsTyped, D!peers
  <2> QED BY <2>1, <2>2
<1>5. PICK r \in CallsAre : /\ call' = [call EXCEPT ![c] = r] /\ r.conn = call[c].conn
                            /\ r.at # "leaving" /\ registered' \subseteq registered \cup {c}
  BY <1>3
<1>6. FacadeTyped'
  <2>1. CallsTyped'
    BY <1>1, <1>2, <1>4, <1>5, CallBecomes DEF CallsTyped
  <2> QED BY <1>1, <1>2, <1>4, <2>1 DEF FacadeTyped, PeersTyped, StoresTyped, D!window, D!peers
<1>7. NothingEarly' /\ LeaversCarry'
  <2>1. /\ r.conn <= made /\ listing' <= made /\ auth'.of <= made /\ policy'.of <= made
        /\ UNCHANGED <<made, offers>>
    BY <1>2, <1>5 DEF DInv, NothingEarly, D!peers
  <2> QED BY <1>1, <1>5, <2>1, CallFits DEF DInv
<1>8. StartIsTheLatest' /\ RowsAreOfSessions'
  BY <1>2 DEF DInv, StartIsTheLatest, RowsAreOfSessions, D!peers
<1>9. Told'
  BY <1>1, <1>2, <1>4 DEF Told, D!StoresAreThisAgents, D!PolicyIsThisAgents, D!LeftRowsAreGone,
      D!Serves, D!peers
<1> QED BY <1>6, <1>7, <1>8, <1>9 DEF DInv

\* A step of the stores that makes one call another and records at most one outcome.
LEMMA AnswerKeeps ==
  ASSUME FacadeBounds, DInv, NEW c \in D!Calls, NEW how \in {"ok", "refused", "auth"}, D!Answer(c, how)
  PROVE  DInv'
<1>1. CallsTyped /\ PeersTyped /\ StoresTyped /\ Told
  BY DEF DInv, FacadeTyped
<1>2. /\ UNCHANGED <<made, live, D!window, D!peers, agent, claim, policy, session, listing, rows, starting,
                    carried>>
      /\ live = made /\ made \in Conns /\ call[c] \in CallsAre /\ call[c].conn = made
      /\ registered' \subseteq registered /\ auth' \in {auth, [how |-> "required", of |-> made]}
      /\ settings' \in {settings, made} /\ turn' \in {turn, D!Idle}
  BY <1>1 DEF D!Answer, CallsTyped, PeersTyped
<1>3. PICK got : got = IF call[c].at = "refreshing" THEN "page" ELSE how
  OBVIOUS
<1>4. PICK r : r = [call[c] EXCEPT !.got = got, !.at = "woken"]
  OBVIOUS
<1>5. r \in CallsAre /\ r.conn = made /\ r.at = "woken" /\ call' = [call EXCEPT ![c] = r]
  <2>1. got \in {"ok", "refused", "auth", "page"}
    BY <1>3
  <2>2. call' = [call EXCEPT ![c] = r]
    BY <1>3, <1>4 DEF D!Answer
  <2> QED BY <1>2, <1>4, <2>1, <2>2 DEF CallsAre
<1>6. driven' \in [D!Capability -> Outcomes] /\ D!RecordIsThisAgents'
  <2>1. CASE c \notin registered
    BY <1>1, <1>2, <2>1 DEF D!Answer, Told, D!RecordIsThisAgents, StoresTyped
  <2>2. CASE c \in registered
    <3>1. PICK told \in {"unasked", "answered", "refused"} :
            driven' = D!Recorded(call[c].drives, told, made, call[c].op)
      BY <1>2, <2>2 DEF D!Answer
    <3>2. call[c].op \in {"none", "release"} \cup Doing /\ call[c].drives \in SUBSET D!Capability
      BY <1>2 DEF CallsAre
    <3> QED BY <1>1, <1>2, <3>1, <3>2, RecordedOfThis DEF Told
  <2> QED BY <2>1, <2>2
<1>7. FacadeTyped'
  <2>1. CallsTyped'
    BY <1>1, <1>2, <1>5, CallBecomes DEF CallsTyped
  <2>2. StoresTyped'
    BY <1>1, <1>2, <1>6, Blanks DEF StoresTyped
  <2> QED BY <1>1, <1>2, <2>1, <2>2 DEF FacadeTyped, PeersTyped, D!window, D!peers
<1>8. NothingEarly' /\ LeaversCarry'
  <2>1. /\ r.conn <= made /\ listing' <= made /\ auth'.of <= made /\ policy'.of <= made
        /\ UNCHANGED <<made, offers>>
    BY <1>2, <1>5 DEF DInv, NothingEarly, D!peers, Conns, FacadeBounds
  <2> QED BY <1>1, <1>5, <2>1, CallFits DEF DInv
<1>9. StartIsTheLatest' /\ RowsAreOfSessions'
  BY <1>2 DEF DInv, StartIsTheLatest, RowsAreOfSessions, D!peers
<1>10. Told'
  BY <1>1, <1>2, <1>6 DEF Told, D!StoresAreThisAgents, D!PolicyIsThisAgents, D!LeftRowsAreGone,
     D!OnlyTheAdvertised, D!Idle, D!Serves, D!peers
<1> QED BY <1>7, <1>8, <1>9, <1>10 DEF DInv

\* A woken caller's step: its call is over, or asks for the listing again, and of the
\* stores it writes only what came back to it.
LEMMA CallersKeep ==
  ASSUME FacadeBounds, DInv, NEW c \in D!Calls, D!Opened(c) \/ D!Ended(c) \/ D!Returns(c)
  PROVE  DInv'
<1>1. CallsTyped /\ PeersTyped /\ StoresTyped /\ Told
  BY DEF DInv, FacadeTyped
<1>2. /\ UNCHANGED <<made, live, D!window, D!peers, agent, claim, driven, registered, carried>>
      /\ call[c] \in CallsAre /\ call[c].conn <= made /\ call[c].conn \in Conns /\ c \in 1..MaxCalls
      /\ starting' \in {starting, D!NotStarting}
  BY <1>1 DEF D!Opened, D!Ended, D!Returns, CallsTyped, CallsAre, DInv, NothingEarly, D!Calls
<1>3. \E r \in CallsAre : /\ call' = [call EXCEPT ![c] = r] /\ r.conn = call[c].conn /\ r.at # "leaving"
  <2>1. PICK over : over = D!Over(c)
    OBVIOUS
  <2>2. over \in CallsAre /\ over.conn = call[c].conn /\ over.at = "done"
    BY <1>2, <2>1, Blanks DEF D!Over, D!NoCall, CallsAre
  <2>3. PICK again : again = [call[c] EXCEPT !.at = "refreshing"]
    OBVIOUS
  <2>4. again \in CallsAre /\ again.conn = call[c].conn /\ again.at = "refreshing"
    BY <1>2, <2>3 DEF CallsAre
  <2>5. CASE call' = [call EXCEPT ![c] = over]
    BY <2>2, <2>5
  <2>6. CASE call' = [call EXCEPT ![c] = again]
    BY <2>4, <2>6
  <2>7. D!Opened(c) \/ D!Returns(c) => call' = [call EXCEPT ![c] = over]
    BY <2>1 DEF D!Opened, D!Returns, D!Returned
  <2>8. D!Ended(c) => \/ call' = [call EXCEPT ![c] = over]
                      \/ call' = [call EXCEPT ![c] = again]
    BY <1>1, <2>1, <2>3 DEF D!Ended, CallsTyped
  <2> QED BY <2>5, <2>6, <2>7, <2>8
<1>4. PICK r \in CallsAre : /\ call' = [call EXCEPT ![c] = r] /\ r.conn = call[c].conn
                            /\ r.at # "leaving"
  BY <1>3
<1>5. /\ policy' \in {policy, D!Asking} /\ turn' \in {turn, D!Idle} /\ settings' \in {settings, 0}
      /\ listing' \in {listing, call[c].conn} /\ session' \in 0..MaxCalls
      /\ \/ UNCHANGED <<session, rows>>
         \/ session' = c /\ rows' \in {rows, {}}
         \/ session' = 0 /\ rows' = {}
  <2>1. session \in 0..MaxCalls /\ c \in 0..MaxCalls /\ 0 \in 0..MaxCalls
    BY <1>1, <1>2 DEF StoresTyped, FacadeBounds
  <2>2. CASE D!Opened(c)
    BY <2>1, <2>2 DEF D!Opened
  <2>3. CASE D!Ended(c)
    BY <2>1, <2>3 DEF D!Ended
  <2>4. CASE D!Returns(c)
    BY <2>1, <2>4 DEF D!Returns
  <2> QED BY <2>2, <2>3, <2>4
<1>6. \/ auth' \in {auth, D!NoLogin}
      \/ auth' \in {[how |-> "authenticated", of |-> call[c].conn], [how |-> "refused", of |-> call[c].conn]}
  BY DEF D!Opened, D!Ended, D!Returns
<1>7. /\ auth' \in [how : {"unasked", "required", "authenticated", "refused"}, of : Conns]
      /\ auth'.of <= made
  BY <1>1, <1>2, <1>6, Blanks DEF StoresTyped, DInv, NothingEarly, D!NoLogin, FacadeBounds,
      PeersTyped, Conns
<1>8. FacadeTyped'
  <2>1. CallsTyped'
    BY <1>1, <1>2, <1>4, CallBecomes, Blanks DEF CallsTyped
  <2>2. IsFiniteSet(rows) /\ Cardinality(rows) <= MaxRows
    BY <1>1 DEF StoresTyped
  <2>3. IsFiniteSet({}) /\ Cardinality({}) <= MaxRows
    <3>1. Cardinality({}) = 0
      BY FS_EmptySet
    <3> QED BY <3>1, FS_EmptySet DEF FacadeBounds
  <2>4. IsFiniteSet(rows') /\ Cardinality(rows') <= MaxRows
    BY <1>5, <2>2, <2>3
  <2>5. StoresTyped'
    BY <1>1, <1>2, <1>5, <1>7, <2>4, Blanks DEF StoresTyped
  <2> QED BY <1>1, <1>2, <2>1, <2>5 DEF FacadeTyped, PeersTyped, D!window, D!peers
<1>9. NothingEarly' /\ LeaversCarry'
  <2>1. /\ r.conn <= made /\ listing' <= made /\ auth'.of <= made /\ policy'.of <= made
        /\ UNCHANGED <<made, offers>>
    BY <1>2, <1>4, <1>5, <1>7, <1>1 DEF DInv, NothingEarly, D!peers, D!Asking, PeersTyped, Conns,
        FacadeBounds
  <2> QED BY <1>1, <1>4, <2>1, CallFits DEF DInv
<1>10. StartIsTheLatest' /\ RowsAreOfSessions'
  BY <1>2, <1>5 DEF DInv, StartIsTheLatest, RowsAreOfSessions, D!peers, D!NotStarting
<1>11. Told'
  BY <1>1, <1>2, <1>5 DEF Told, D!RecordIsThisAgents, D!StoresAreThisAgents, D!PolicyIsThisAgents,
     D!LeftRowsAreGone, D!OnlyTheAdvertised, D!Idle, D!Asking, D!Serves, D!peers
<1> QED BY <1>8, <1>9, <1>10, <1>11 DEF DInv

\* A step that changes nothing keeps the invariant.
LEMMA StutterKeepsD == ASSUME DInv, UNCHANGED D!vars PROVE DInv'
<1>1. UNCHANGED <<made, live, D!window, D!peers, D!stores, call, registered, starting, carried>>
  BY DEF D!vars
<1>2. FacadeTyped'
  BY <1>1 DEF DInv, FacadeTyped, CallsTyped, PeersTyped, StoresTyped, D!window, D!peers, D!stores
<1>3. NothingEarly' /\ StartIsTheLatest' /\ LeaversCarry' /\ RowsAreOfSessions'
  BY <1>1 DEF DInv, NothingEarly, StartIsTheLatest, LeaversCarry, RowsAreOfSessions, D!peers, D!stores
<1>4. Told'
  BY <1>1 DEF DInv, Told, D!RecordIsThisAgents, D!StoresAreThisAgents, D!PolicyIsThisAgents,
     D!LeftRowsAreGone, D!OnlyTheAdvertised, D!Serves, D!peers, D!stores
<1> QED BY <1>2, <1>3, <1>4 DEF DInv

\* Every step keeps the invariant, one lemma for each handler.
LEMMA NextKeepsD == ASSUME FacadeBounds, DInv, [D!Next]_(D!vars) PROVE DInv'
<1>1. CASE D!Next
  BY <1>1, ReleaseKeeps, StartKeeps, SmallKeep, InitializedKeeps, AnswerKeeps, GoesKeeps, AskKeeps,
     CallersKeep DEF D!Next, D!Reader, D!Caller
<1> QED BY <1>1, StutterKeepsD

\* What the invariant says is what a run checks, and its types.
LEMMA DInvTells == ASSUME FacadeBounds, DInv PROVE D!CallsTellTheirAgent
<1>1. CallsTyped /\ PeersTyped /\ StoresTyped /\ Told /\ NothingEarly
  BY DEF DInv, FacadeTyped
<1>2. made \in Nat /\ {settings, turn.of, agent.of} \subseteq {0, made}
  BY <1>1 DEF PeersTyped, Conns, FacadeBounds, Told, D!StoresAreThisAgents
<1>3. agent.of \in 0..made /\ {listing, turn.of, settings, policy.of, auth.of} \subseteq 0..made
  BY <1>1, <1>2 DEF NothingEarly, StoresTyped, Conns, FacadeBounds
<1>4. \A c \in D!Calls : call[c].at \in {"none", "leaving", "waiting", "woken", "refreshing", "done"}
  BY <1>1 DEF CallsTyped, CallsAre
<1>5. \A a \in D!Capability : driven[a].how \in {"unasked", "answered", "refused"}
  BY <1>1 DEF StoresTyped, Outcomes
<1>6. /\ starting.at \in {"none", "waiting", "ok", "failed", "opening"}
      /\ policy.is \in {"ask", "allow"} /\ turn.how \in {"idle", "running", "failed"}
      /\ agent.caps \in SUBSET D!Capability
  BY <1>1 DEF CallsTyped, PeersTyped, StoresTyped, Startings
<1>7. D!TypeOK
  <2>1. /\ Cardinality(rows) <= MaxRows
        /\ draft \in Drafts /\ chosen \in Choices /\ given \in Choices /\ choices \in 0..MaxChoices
        /\ made \in 0..MaxConnections /\ live \in {0, made}
        /\ session \in 0..MaxCalls /\ offers \subseteq D!Capability /\ registered \subseteq D!Calls
    BY <1>1 DEF CallsTyped, PeersTyped, StoresTyped, Conns
  <2>2. D!Cardinality(rows) <= MaxRows
    BY <2>1, SizesAreSizes
  <2> QED BY ONLY <1>3, <1>4, <1>5, <1>6, <2>1, <2>2 DEF D!TypeOK
<1> QED BY <1>1, <1>7 DEF D!CallsTellTheirAgent, Told

\* Over every reconnect, what is stored, recorded or shown is of the agent there is or of
\* none: a late answer is told of the agent it was asked of, save for a `session/new` refused
\* while it was still leaving, which records it (inspector/mod.rs, driven.rs).
THEOREM CallsTellTheirAgentHolds == ASSUME FacadeBounds PROVE D!Spec => []D!CallsTellTheirAgent
<1>1. D!Init => DInv
  BY InitDInv
<1>2. DInv /\ [D!Next]_(D!vars) => DInv'
  BY NextKeepsD
<1>3. DInv => D!CallsTellTheirAgent
  BY DInvTells
<1> QED BY <1>1, <1>2, <1>3, PTL DEF D!Spec

-----------------------------------------------------------------------------
(***************************************************************************)
(* Window: launches, exports and quitting (app/launch.rs, export.rs,       *)
(* app/quit.rs, shell.rs). What may be quit without asking must be in a    *)
(* file; an export that is under way has not written its frames yet, so    *)
(* the invariant follows the snapshot it took (SavingIs): what it will     *)
(* count as exported is in the snapshot, in a file before it, or was let   *)
(* go of.                                                                  *)
(***************************************************************************)
WindowBounds == MaxLaunches \in Nat /\ MaxFrames \in Nat /\ MaxActs \in Nat

LaunchStages == {"none", "waits", "path", "starts", "opens", "records", "done"}
InFlightStages == {"waits", "path", "starts", "opens"}
WindowTyped ==
  /\ shown \in [connected : BOOLEAN, recorded : Nat, dropped : Nat]
  /\ work \in [pending : BOOLEAN, taking : Nat, exported : Nat]
  /\ task \in [W!Agents -> LaunchStages]
\* While an export is under way, what will count as exported is in its snapshot, in a
\* file before it, or let go of.
SavingIs ==
  work.pending => \A f \in W!Frames : f <= work.taking /\ f > dropped => f \in snapshot \cup saved
\* No two launches are in flight, and the window says when one is.
OneAtATime ==
  /\ \A a, b \in W!Agents : task[a] \in InFlightStages /\ task[b] \in InFlightStages => a = b
  /\ launching <=> \E a \in W!Agents : task[a] \in InFlightStages

WInv == W!TypeOK /\ WindowTyped /\ W!ExportedIsSaved /\ SavingIs /\ W!NobodyOutlives /\ OneAtATime

\* A window just opened: nothing launched, recorded or exported.
LEMMA InitWInv == ASSUME WindowBounds, W!Init PROVE WInv
<1>1. W!TypeOK
  <2>1. /\ dropped \in 0..recorded /\ recorded \in 0..MaxFrames
        /\ live \in 0..MaxLaunches /\ launches \in 0..MaxLaunches
    BY DEF WindowBounds, W!Init
  <2>2. acts \in [{"open", "export", "clear"} -> 0..MaxActs]
    BY DEF WindowBounds, W!Init
  <2>3. \A a \in W!Agents : task[a] = "none"
    BY DEF W!Init
  <2> QED BY <2>1, <2>2, <2>3 DEF W!Init, W!TypeOK
<1>2. WindowTyped
  BY DEF W!Init, WindowTyped, LaunchStages
<1>3. W!ExportedIsSaved /\ SavingIs /\ W!NobodyOutlives
  BY DEF W!Init, W!ExportedIsSaved, SavingIs, W!NobodyOutlives, W!Frames
<1>4. OneAtATime
  BY DEF W!Init, OneAtATime, InFlightStages
<1> QED BY <1>1, <1>2, <1>3, <1>4 DEF WInv

\* What the agents do, and the core that records it.
LEMMA WindowCoreKeeps ==
  ASSUME WindowBounds, WInv, W!Speaks \/ W!Describes \/ W!Observed \/ (\E a \in W!Agents : W!Ends(a))
  PROVE  WInv'
<1> USE DEF WInv, WindowBounds, W!core, W!launch, W!viewing, W!exporting, W!quitting, W!Open
<1>1. /\ UNCHANGED <<dropped, shown, W!launch, W!viewing, W!exporting, acts, W!quitting>> /\ quit # "closed"
      /\ recorded' \in {recorded, recorded + 1} /\ recorded' <= MaxFrames
      /\ live' \in 0..MaxLaunches /\ answered' \in BOOLEAN /\ running' \subseteq W!Agents
      /\ stopping' \subseteq running'
  <2>1. CASE W!Speaks
    BY <2>1 DEF W!Speaks, W!TypeOK
  <2>2. CASE W!Describes
    BY <2>2 DEF W!Describes, W!TypeOK
  <2>3. CASE W!Observed
    BY <2>3 DEF W!Observed, W!TypeOK
  <2>4. CASE \E a \in W!Agents : W!Ends(a)
    BY <2>4 DEF W!Ends, W!TypeOK
  <2> QED BY <2>1, <2>2, <2>3, <2>4
<1>2. W!TypeOK'
  BY <1>1 DEF W!TypeOK, WindowTyped
<1>3. (WindowTyped /\ W!ExportedIsSaved /\ SavingIs /\ OneAtATime)'
  BY <1>1 DEF WindowTyped, W!ExportedIsSaved, SavingIs, OneAtATime
<1> QED BY <1>1, <1>2, <1>3 DEF W!NobodyOutlives

\* What the window learns and shows, which the handlers after it read.
LEMMA SignalsKeep ==
  ASSUME WindowBounds, WInv, W!StatusShown \/ W!FramesShown \/ W!StopSeen \/ W!Choose \/ W!ReadDone \/ W!CloseView
  PROVE  WInv'
<1> USE DEF WInv, WindowBounds, W!core, W!launch, W!exporting, W!quitting, W!viewing
<1>1. /\ UNCHANGED <<W!core, launches, task, launching, remembered, W!exporting, W!quitting>>
      /\ shown' \in [connected : BOOLEAN, recorded : Nat, dropped : Nat]
      /\ shown'.recorded \in 0..recorded /\ shown'.dropped \in 0..shown'.recorded
      /\ opened' \in BOOLEAN /\ opening' \in BOOLEAN /\ watched' \in BOOLEAN
      /\ acts' \in [{"open", "export", "clear"} -> 0..MaxActs]
  <2>1. CASE W!StatusShown
    BY <2>1 DEF W!StatusShown, W!TypeOK, WindowTyped
  <2>2. CASE W!FramesShown
    <3>1. /\ recorded \in Nat /\ dropped \in Nat /\ dropped <= recorded
          /\ shown \in [connected : BOOLEAN, recorded : Nat, dropped : Nat]
      BY DEF W!TypeOK, WindowTyped
    <3>2. shown' = [shown EXCEPT !.recorded = recorded, !.dropped = dropped]
      BY <2>2 DEF W!FramesShown
    <3>3. /\ shown' \in [connected : BOOLEAN, recorded : Nat, dropped : Nat]
          /\ shown'.recorded = recorded /\ shown'.dropped = dropped
      BY ONLY <3>1, <3>2
    <3>4. shown'.recorded \in 0..recorded /\ shown'.dropped \in 0..shown'.recorded
      BY <3>1, <3>3
    <3> QED BY <2>2, <3>3, <3>4 DEF W!FramesShown, W!TypeOK
  <2>3. CASE W!StopSeen \/ W!ReadDone \/ W!CloseView
    BY <2>3 DEF W!StopSeen, W!ReadDone, W!CloseView, W!TypeOK, WindowTyped
  <2>4. CASE W!Choose
    BY <2>4 DEF W!Choose, W!Does, W!TypeOK, WindowTyped
  <2> QED BY <2>1, <2>2, <2>3, <2>4
<1>2. W!TypeOK'
  BY <1>1 DEF W!TypeOK, WindowTyped
<1> QED BY <1>1, <1>2 DEF WindowTyped, W!ExportedIsSaved, SavingIs, OneAtATime, W!NobodyOutlives

\* A launch pressed: the one launch there is begins.
LEMMA WindowLaunchKeeps == ASSUME WindowBounds, WInv, W!Launch PROVE WInv'
<1> USE DEF WInv, WindowBounds, W!core, W!viewing, W!exporting, W!quitting
<1>1. /\ UNCHANGED <<W!core, shown, remembered, watched, W!viewing, W!exporting, acts, W!quitting>>
      /\ launches' = launches + 1 /\ launches' \in 0..MaxLaunches /\ launches' \in W!Agents /\ launching'
      /\ task' = [task EXCEPT ![launches'] = "waits"] /\ ~launching
  BY DEF W!Launch, W!Gate, W!TypeOK, W!Agents
<1>2. W!TypeOK' /\ WindowTyped'
  BY <1>1 DEF W!TypeOK, WindowTyped, LaunchStages
<1>3. OneAtATime'
  BY <1>1 DEF OneAtATime, WindowTyped, InFlightStages
<1> QED BY <1>1, <1>2, <1>3 DEF W!ExportedIsSaved, SavingIs, W!NobodyOutlives

\* A task of a launch goes on to another stage: of those in flight to one in flight, or
\* the launch is over.
LEMMA TaskKeeps == ASSUME WindowBounds, WInv, NEW a \in W!Agents, W!Task(a) PROVE WInv'
<1> USE DEF WInv, WindowBounds, W!core, W!viewing, W!exporting, W!quitting
<1>1. /\ UNCHANGED <<recorded, dropped, shown, launches, watched, W!viewing, W!exporting, acts, W!quitting>>
      /\ quit # "closed"
      /\ live' \in 0..MaxLaunches /\ answered' \in BOOLEAN /\ running' \subseteq W!Agents
      /\ stopping' \subseteq running' /\ remembered' \subseteq W!Agents
  <2>1. CASE W!Starts(a)
    <3>1. /\ UNCHANGED <<recorded, dropped, shown, launches, watched, W!viewing, W!exporting, acts, W!quitting,
                        remembered>>
          /\ quit # "closed" /\ live' = a /\ answered' = FALSE /\ running' \in {running, running \cup {a}}
          /\ stopping' = stopping \cup ({live} \cap running)
      BY <2>1 DEF W!Starts, W!Goes, W!Open
    <3>2. live' \in 0..MaxLaunches
      BY <3>1 DEF W!Agents
    <3> QED BY <3>1, <3>2 DEF W!TypeOK
  <2>2. CASE W!Waited(a) \/ W!PathKnown(a) \/ W!Started(a) \/ W!Recorded(a)
    BY <2>2 DEF W!Waited, W!PathKnown, W!Started, W!Recorded, W!Goes, W!Open, W!TypeOK
  <2> QED BY <2>1, <2>2 DEF W!Task
<1>2. \E to \in LaunchStages : /\ task' = [task EXCEPT ![a] = to]
        /\ \/ task[a] \in InFlightStages /\ to \in InFlightStages /\ launching' = launching
           \/ task[a] \in InFlightStages /\ to \notin InFlightStages /\ launching' = FALSE
           \/ task[a] \notin InFlightStages /\ to \notin InFlightStages /\ launching' = launching
  <2>1. CASE W!Waited(a)
    BY <2>1 DEF W!Waited, W!Goes, LaunchStages, InFlightStages
  <2>2. CASE W!PathKnown(a)
    BY <2>2 DEF W!PathKnown, W!Goes, LaunchStages, InFlightStages
  <2>3. CASE W!Starts(a)
    BY <2>3 DEF W!Starts, W!Goes, LaunchStages, InFlightStages
  <2>4. CASE W!Started(a)
    BY <2>4 DEF W!Started, W!Goes, LaunchStages, InFlightStages
  <2>5. CASE W!Recorded(a)
    BY <2>5 DEF W!Recorded, W!Goes, LaunchStages, InFlightStages
  <2> QED BY <2>1, <2>2, <2>3, <2>4, <2>5 DEF W!Task
<1>3. PICK to \in LaunchStages : /\ task' = [task EXCEPT ![a] = to]
        /\ \/ task[a] \in InFlightStages /\ to \in InFlightStages /\ launching' = launching
           \/ task[a] \in InFlightStages /\ to \notin InFlightStages /\ launching' = FALSE
           \/ task[a] \notin InFlightStages /\ to \notin InFlightStages /\ launching' = launching
  BY <1>2
<1>4. W!TypeOK' /\ WindowTyped'
  <2>1. task' \in [W!Agents -> LaunchStages] /\ launching' \in BOOLEAN
    BY <1>3 DEF W!TypeOK, WindowTyped
  <2> QED BY <1>1, <2>1 DEF W!TypeOK, WindowTyped, LaunchStages
<1>5. OneAtATime'
  BY <1>3 DEF OneAtATime, WindowTyped
<1> QED BY <1>1, <1>4, <1>5 DEF W!ExportedIsSaved, SavingIs, W!NobodyOutlives

\* An export begun or ended, and a trace cleared under it.
LEMMA ExportKeeps ==
  ASSUME WindowBounds, WInv, W!Export \/ W!Clear \/ (\E well \in BOOLEAN : W!Exported(well)) PROVE WInv'
<1> USE DEF WInv, WindowBounds, W!core, W!launch, W!viewing, W!exporting, W!quitting
<1>1. UNCHANGED <<live, answered, running, stopping, recorded, shown, W!launch, W!viewing, quit, forced>>
  BY DEF W!Export, W!Clear, W!Exported
<1>2. CASE W!Export
  <2>1. /\ work' = [work EXCEPT !.pending = TRUE, !.taking = W!Taking] /\ W!Taking \in 0..recorded
        /\ acts' \in [{"open", "export", "clear"} -> 0..MaxActs]
        /\ snapshot' \subseteq W!Frames /\ asking' = FALSE /\ UNCHANGED <<dropped, saved>>
    <3>1. acts' \in [{"open", "export", "clear"} -> 0..MaxActs]
      BY <1>2 DEF W!Export, W!Does, W!TypeOK
    <3>2. W!Taking \in 0..recorded
      BY DEF W!Taking, W!TypeOK
    <3> QED BY <1>2, <3>1, <3>2 DEF W!Export, W!Held
  <2>2. W!TypeOK' /\ WindowTyped' /\ work'.taking = W!Taking /\ work'.exported = work.exported
    <3>1. work \in [pending : BOOLEAN, taking : Nat, exported : Nat] /\ W!Taking \in Nat
      BY <2>1 DEF WindowTyped, W!TypeOK
    <3>2. /\ work' \in [pending : BOOLEAN, taking : Nat, exported : Nat]
          /\ work'.taking = W!Taking /\ work'.exported = work.exported
      BY ONLY <2>1, <3>1
    <3>3. WindowTyped'
      BY <1>1, <2>1, <3>2 DEF WindowTyped
    <3>4. W!TypeOK'
      BY <1>1, <2>1, <3>2 DEF W!TypeOK
    <3> QED BY <3>2, <3>3, <3>4
  <2>3. W!ExportedIsSaved'
    BY <2>1, <2>2 DEF W!ExportedIsSaved
  <2>4. SavingIs'
    <3>1. CASE opened
      BY <2>1, <2>2, <3>1 DEF SavingIs, W!Taking, W!ExportedIsSaved
    <3>2. CASE ~opened
      <4>1. snapshot' = W!Held /\ W!Taking = shown.recorded /\ shown.recorded <= recorded
        BY <1>2, <3>2 DEF W!Export, W!Taking, W!TypeOK
      <4> QED BY <2>1, <2>2, <4>1 DEF SavingIs, W!Held, W!Frames, W!TypeOK, WindowTyped
    <3> QED BY <3>1, <3>2
  <2> QED BY <1>1, <2>1, <2>2, <2>3, <2>4 DEF W!NobodyOutlives, OneAtATime
<1>3. CASE W!Clear
  <2>1. /\ dropped' = recorded /\ UNCHANGED <<W!exporting, asking>> /\ dropped <= dropped' /\ dropped \in Nat
        /\ recorded \in Nat /\ acts' \in [{"open", "export", "clear"} -> 0..MaxActs]
    BY <1>3 DEF W!Clear, W!Does, W!TypeOK
  <2>2. W!TypeOK' /\ WindowTyped'
    BY <1>1, <2>1 DEF W!TypeOK, WindowTyped
  <2>3. W!ExportedIsSaved' /\ SavingIs'
    BY <2>1 DEF W!ExportedIsSaved, SavingIs, W!Frames
  <2> QED BY <1>1, <2>2, <2>3 DEF W!NobodyOutlives, OneAtATime
<1>4. CASE \E well \in BOOLEAN : W!Exported(well)
  <2>1. PICK well \in BOOLEAN : W!Exported(well)
    BY <1>4
  <2>2. /\ work' \in [pending : BOOLEAN, taking : Nat, exported : Nat] /\ ~work'.pending
        /\ work'.taking = work.taking /\ UNCHANGED <<dropped, acts, asking>> /\ snapshot' = {}
        /\ work'.exported \in {work.exported, work.taking}
        /\ work'.exported = work.exported \/ well
        /\ saved' = IF well THEN saved \cup snapshot ELSE saved
    BY <2>1 DEF W!Exported, WindowTyped
  <2>3. W!TypeOK' /\ WindowTyped'
    BY <1>1, <2>2 DEF W!TypeOK, WindowTyped
  <2>4. W!ExportedIsSaved'
    BY <2>1, <2>2 DEF W!ExportedIsSaved, SavingIs, W!Exported
  <2> QED BY <1>1, <2>2, <2>3, <2>4 DEF W!NobodyOutlives, OneAtATime, SavingIs
<1> QED BY <1>2, <1>3, <1>4

\* Leaving, asked or forced: frames are let go of only when they were asked about.
LEMMA QuitKeeps ==
  ASSUME WindowBounds, WInv, W!Disconnect \/ W!OnQuit \/ W!Anyway \/ W!Stay \/ W!QuitDone \/ W!CloseRequested
  PROVE  WInv'
<1> USE DEF WInv, WindowBounds, W!core, W!launch, W!viewing, W!exporting, W!quitting
<1>1. /\ UNCHANGED <<answered, recorded, dropped, shown, launches, task, launching, remembered, W!viewing,
                    W!exporting, acts>>
      /\ live' \in {live, 0} /\ running' \subseteq running /\ stopping' \subseteq running'
      /\ watched' \in BOOLEAN /\ asking' \in BOOLEAN /\ forced' \in BOOLEAN
      /\ quit' \in {"no", "grace", "closed"} /\ (quit' = "closed" => running' = {})
  <2>1. CASE W!Disconnect
    BY <2>1 DEF W!Disconnect, W!LetGo, W!Watch, W!TypeOK, W!Open
  <2>2. CASE W!OnQuit
    BY <2>2 DEF W!OnQuit, W!QuitNow, W!LetGo, W!Watch, W!TypeOK, W!Open
  <2>3. CASE W!Anyway
    BY <2>3 DEF W!Anyway, W!QuitNow, W!LetGo, W!Watch, W!TypeOK, W!Open
  <2>4. CASE W!Stay
    BY <2>4 DEF W!Stay, W!TypeOK, W!Open
  <2>5. CASE W!QuitDone
    BY <2>5 DEF W!QuitDone, W!AtClose, W!KillAll, W!TypeOK
  <2>6. CASE W!CloseRequested
    BY <2>6 DEF W!CloseRequested, W!KillAll, W!TypeOK, W!Open
  <2> QED BY <2>1, <2>2, <2>3, <2>4, <2>5, <2>6
<1>2. W!TypeOK'
  BY <1>1 DEF W!TypeOK, WindowTyped
<1> QED BY <1>1, <1>2 DEF WindowTyped, W!ExportedIsSaved, SavingIs, OneAtATime, W!NobodyOutlives

\* Every step keeps the invariant.
LEMMA NextKeepsW == ASSUME WindowBounds, WInv, [W!Next]_(W!vars) PROVE WInv'
<1>1. CASE W!Next
  BY <1>1, WindowCoreKeeps, SignalsKeep, WindowLaunchKeeps, TaskKeeps, ExportKeeps, QuitKeeps DEF W!Next
<1>2. CASE UNCHANGED W!vars
  BY <1>2 DEF WInv, W!TypeOK, WindowTyped, W!ExportedIsSaved, SavingIs, OneAtATime,
      W!NobodyOutlives, W!vars, W!core, W!launch, W!viewing, W!exporting, W!quitting
<1> QED BY <1>1, <1>2

\* One launch in flight, from any two being the same.
LEMMA WInvTells == ASSUME WindowBounds, WInv PROVE W!QuitLosesNothing
<1> DEFINE there == {a \in W!Agents : task[a] \in InFlightStages}
<1>1. Cardinality(there) <= 1
  <2>1. CASE there = {}
    BY <2>1, FS_EmptySet
  <2>2. CASE there # {}
    <3>1. PICK a \in W!Agents : a \in there
      BY <2>2
    <3>2. \A b \in there : b = a
      BY <3>1 DEF WInv, OneAtATime
    <3>3. there = {a}
      BY <3>1, <3>2
    <3>4. Cardinality(there) = 1
      BY <3>3, FS_Singleton
    <3> QED BY <3>4
  <2> QED BY <2>1, <2>2
<1>2. W!OneLaunch
  BY <1>1, SizesAreSizes DEF W!OneLaunch, WInv, OneAtATime, InFlightStages
<1> QED BY <1>2 DEF WInv, W!QuitLosesNothing

\* The window never closes on an agent that runs, what it counts as exported is in a file or
\* was let go of, and one launch is in flight at a time (quit.rs, export.rs, launch.rs).
THEOREM QuitLosesNothingHolds == ASSUME WindowBounds PROVE W!Spec => []W!QuitLosesNothing
<1>1. W!Init => WInv
  BY InitWInv
<1>2. WInv /\ [W!Next]_(W!vars) => WInv'
  BY NextKeepsW
<1>3. WInv => W!QuitLosesNothing
  BY WInvTells
<1> QED BY <1>1, <1>2, <1>3, PTL DEF W!Spec

-----------------------------------------------------------------------------
(***************************************************************************)
(* Work: what the window counts as in flight (app/claims.rs,               *)
(* app/settings.rs, app/stores.rs). Counters are set back by a launch or a *)
(* switch while calls of before are still out, so the invariant counts by  *)
(* generation: a counter is the number of calls in flight of its own       *)
(* generation, none is of a generation to come, and at most one option is  *)
(* being set.                                                              *)
(***************************************************************************)
WorkBounds ==
  /\ MaxCalls \in Nat /\ MaxLaunches \in Nat /\ MaxSwitches \in Nat /\ K!NoOption \notin Options

\* What is in flight was begun, and is of a session that was live.
FlightIs ==
  /\ IsFiniteSet(flight) /\ begun \in 0..MaxCalls /\ Cardinality(flight) <= begun
  /\ flight \subseteq [id : Nat, call : K!Calls, gen : Nat, switch : Nat]
  /\ \A c \in flight : c.id \in 1..begun /\ c.switch <= switches
\* The counters begin again with each launch, and are of it.
CountersAre ==
  /\ connected \in BOOLEAN /\ switches \in 0..MaxSwitches
  /\ shown \in [connected : BOOLEAN, switches : 0..MaxSwitches] /\ shown.switches <= switches
  /\ launches \in 0..MaxLaunches /\ failed \in K!Lifecycle \cup {<<>>} /\ dialog \in BOOLEAN
  /\ auth \in [gen : Nat, pending : [K!Logins -> Nat]] /\ auth.gen = launches
  /\ listing \in [gen : Nat, pending : Nat] /\ listing.gen = launches
  /\ settings \in [gen : Nat, modes : Nat, option : Options \cup {K!NoOption}, options : Nat]
\* Nothing in flight is of a generation to come.
NothingAhead ==
  \A c \in flight : /\ c.call \in K!Logins => c.gen <= auth.gen
                    /\ c.call = K!Listing => c.gen <= listing.gen
                    /\ c.call \in K!Setters => c.gen <= settings.gen
\* A counter is what is in flight of its kind and its generation.
Counted ==
  \A g \in Nat :
    /\ g = auth.gen => \A l \in K!Logins : auth.pending[l] = Cardinality(K!InFlight(l, g))
    /\ g = listing.gen => listing.pending = Cardinality(K!InFlight(K!Listing, g))
    /\ g = settings.gen => settings.modes = Cardinality(K!InFlight(<<"set_mode">>, g))
\* One option at a time is being set, and it is the one the window names.
OneOption ==
  /\ settings.option = K!NoOption => settings.options = 0
  /\ settings.option # K!NoOption => settings.options = 1
  /\ \A c \in flight : \A o \in Options : c.call = <<"set_option", o>> /\ c.gen = settings.gen =>
       settings.option = o
  /\ \A c, d \in flight : \A o \in Options :
       c.call = <<"set_option", o>> /\ d.call = <<"set_option", o>>
       /\ c.gen = settings.gen /\ d.gen = settings.gen => c = d
  /\ settings.option # K!NoOption =>
       \E c \in flight : c.call = <<"set_option", settings.option>> /\ c.gen = settings.gen

KInv == FlightIs /\ CountersAre /\ NothingAhead /\ Counted /\ OneOption /\ K!ChangesAreOfTheLive

\* The kinds of call are told apart.
LEMMA Kinds ==
  /\ \A l \in K!Logins : l \notin K!Setters /\ l \notin K!Lifecycle /\ l # K!Listing
  /\ \A s \in K!Setters : s \notin K!Lifecycle /\ s # K!Listing
  /\ K!Listing \notin K!Lifecycle
  /\ \A o \in Options : /\ <<"set_option", o>> \in K!Setters /\ <<"set_option", o>> # <<"set_mode">>
                        /\ \A p \in Options : <<"set_option", o>> = <<"set_option", p>> => o = p
  /\ <<"set_mode">> \in K!Setters
<1>1. \A l \in K!Logins : l[1] \in {"authenticate", "logout"}
  BY DEF K!Logins
<1>2. \A s \in K!Setters : s[1] \in {"set_mode", "set_option"}
  BY DEF K!Setters
<1>3. \A l \in K!Lifecycle : l[1] \in {"session/new", "restore", "session/close", "session/delete"}
  BY DEF K!Lifecycle
<1>4. K!Listing[1] = "session/list"
  BY DEF K!Listing
<1>5. \A o \in Options : <<"set_option", o>>[1] = "set_option" /\ <<"set_option", o>>[2] = o
  OBVIOUS
<1>6. <<"set_mode">>[1] = "set_mode"
  OBVIOUS
<1>7. \A o \in Options : <<"set_option", o>> \in K!Setters
  BY DEF K!Setters
<1>8. <<"set_mode">> \in K!Setters
  BY DEF K!Setters
<1> QED BY <1>1, <1>2, <1>3, <1>4, <1>5, <1>6, <1>7, <1>8

\* A window just opened counts nothing.
LEMMA InitKInv == ASSUME WorkBounds, K!Init PROVE KInv
<1>1. /\ flight = {} /\ begun = 0 /\ connected = FALSE /\ switches = 0 /\ launches = 0
      /\ shown = [connected |-> FALSE, switches |-> 0]
      /\ auth = [gen |-> 0, pending |-> K!NoLogins] /\ listing = [gen |-> 0, pending |-> 0]
      /\ settings = [gen |-> 0, modes |-> 0, option |-> K!NoOption, options |-> 0]
      /\ failed = <<>> /\ dialog = FALSE
  BY DEF K!Init
<1>2. IsFiniteSet(flight) /\ Cardinality(flight) = 0
  BY <1>1, FS_EmptySet
<1>3. FlightIs
  BY <1>1, <1>2 DEF FlightIs, WorkBounds
<1>4. CountersAre
  <2>1. K!NoLogins \in [K!Logins -> Nat]
    BY DEF K!NoLogins
  <2>2. /\ shown \in [connected : BOOLEAN, switches : 0..MaxSwitches] /\ shown.switches = 0
        /\ auth \in [gen : Nat, pending : [K!Logins -> Nat]] /\ auth.gen = 0
        /\ listing \in [gen : Nat, pending : Nat] /\ listing.gen = 0
    BY <1>1, <2>1 DEF WorkBounds
  <2>3. settings \in [gen : Nat, modes : Nat, option : Options \cup {K!NoOption}, options : Nat]
    BY <1>1
  <2>4. 0 \in 0..MaxSwitches /\ 0 \in 0..MaxLaunches /\ shown.switches <= switches
    BY <1>1, <2>2 DEF WorkBounds
  <2> QED BY <1>1, <2>2, <2>3, <2>4 DEF CountersAre
<1>5. \A k, g : K!InFlight(k, g) = {}
  BY <1>1 DEF K!InFlight
<1>6. Counted
  BY <1>1, <1>5, FS_EmptySet DEF Counted, K!NoLogins
<1>7. NothingAhead /\ OneOption /\ K!ChangesAreOfTheLive
  BY <1>1 DEF NothingAhead, OneOption, K!ChangesAreOfTheLive
<1> QED BY <1>3, <1>4, <1>6, <1>7 DEF KInv

(***************************************************************************)
(* What is in flight.                                                      *)
(***************************************************************************)
\* A call sent is one more of its kind and generation, and of no other.
LEMMA SendCounts ==
  ASSUME WorkBounds, FlightIs, NEW kind \in K!Calls, NEW g \in Nat, K!Send(kind, g), switches \in Nat
  PROVE  /\ FlightIs'
         /\ Cardinality(K!InFlight(kind, g)') = Cardinality(K!InFlight(kind, g)) + 1
         /\ \A k, h : <<k, h>> # <<kind, g>> => K!InFlight(k, h)' = K!InFlight(k, h)
<1> DEFINE new == [id |-> begun + 1, call |-> kind, gen |-> g, switch |-> switches]
<1>1. begun \in Nat /\ begun' = begun + 1 /\ begun' \in 0..MaxCalls /\ UNCHANGED <<K!core, shown, launches>>
  BY DEF K!Send, FlightIs, WorkBounds
<1>2. flight' = flight \cup {new} /\ new \notin flight /\ UNCHANGED switches
  BY <1>1 DEF K!Send, FlightIs, K!core
<1>3. /\ new \in [id : Nat, call : K!Calls, gen : Nat, switch : Nat] /\ new.id = begun' /\ new.switch = switches
      /\ new.call = kind /\ new.gen = g
  BY <1>1
<1> HIDE DEF new
<1>4. IsFiniteSet(flight') /\ Cardinality(flight') = Cardinality(flight) + 1 /\ Cardinality(flight) \in Nat
  BY <1>2, FS_AddElement, FS_CardinalityType DEF FlightIs
<1>5. FlightIs'
  <2>1. Cardinality(flight') <= begun'
    BY <1>1, <1>4 DEF FlightIs
  <2>2. \A c \in flight' : c.id \in 1..begun' /\ c.switch <= switches'
    BY <1>1, <1>2, <1>3 DEF FlightIs
  <2> QED BY <1>1, <1>2, <1>3, <1>4, <2>1, <2>2 DEF FlightIs
<1>6. Cardinality(K!InFlight(kind, g)') = Cardinality(K!InFlight(kind, g)) + 1
  <2>1. K!InFlight(kind, g)' = K!InFlight(kind, g) \cup {new} /\ new \notin K!InFlight(kind, g)
    BY <1>2, <1>3 DEF K!InFlight
  <2>2. IsFiniteSet(K!InFlight(kind, g))
    BY FS_Subset DEF K!InFlight, FlightIs
  <2> QED BY <2>1, <2>2, FS_AddElement
<1>7. ASSUME NEW k, NEW h, <<k, h>> # <<kind, g>>
      PROVE  K!InFlight(k, h)' = K!InFlight(k, h)
  BY <1>2, <1>3, <1>7 DEF K!InFlight
<1> QED BY <1>5, <1>6, <1>7

\* A call that is over is one less of its kind and generation, and of no other.
LEMMA OverCounts ==
  ASSUME FlightIs, NEW c \in flight, K!Over(c), switches' >= switches, switches \in Nat, switches' \in Nat
  PROVE  /\ FlightIs'
         /\ Cardinality(K!InFlight(c.call, c.gen)') = Cardinality(K!InFlight(c.call, c.gen)) - 1
         /\ Cardinality(K!InFlight(c.call, c.gen)) > 0
         /\ \A k, h : <<k, h>> # <<c.call, c.gen>> => K!InFlight(k, h)' = K!InFlight(k, h)
<1>1. flight' = flight \ {c} /\ UNCHANGED <<connected, shown, launches, begun>>
  BY DEF K!Over
<1>2. IsFiniteSet(flight') /\ Cardinality(flight') <= Cardinality(flight)
  BY <1>1, FS_Subset DEF FlightIs
<1>3. FlightIs'
  <2>1. Cardinality(flight') \in Nat /\ Cardinality(flight) \in Nat
    BY <1>2, FS_CardinalityType DEF FlightIs
  <2>2. \A d \in flight' : d.id \in 1..begun' /\ d.switch <= switches'
    BY <1>1 DEF FlightIs
  <2> QED BY <1>1, <1>2, <2>1, <2>2 DEF FlightIs
<1>4. /\ Cardinality(K!InFlight(c.call, c.gen)') = Cardinality(K!InFlight(c.call, c.gen)) - 1
      /\ Cardinality(K!InFlight(c.call, c.gen)) > 0
  <2>1. K!InFlight(c.call, c.gen)' = K!InFlight(c.call, c.gen) \ {c} /\ c \in K!InFlight(c.call, c.gen)
    BY <1>1 DEF K!InFlight
  <2>2. IsFiniteSet(K!InFlight(c.call, c.gen))
    BY FS_Subset DEF K!InFlight, FlightIs
  <2>3. Cardinality(K!InFlight(c.call, c.gen)) \in Nat /\ Cardinality(K!InFlight(c.call, c.gen)) # 0
    BY <2>1, <2>2, FS_CardinalityType, FS_EmptySet
  <2> QED BY <2>1, <2>2, <2>3, FS_RemoveElement
<1>5. ASSUME NEW k, NEW h, <<k, h>> # <<c.call, c.gen>>
      PROVE  K!InFlight(k, h)' = K!InFlight(k, h)
  BY <1>1, <1>5 DEF K!InFlight
<1> QED BY <1>3, <1>4, <1>5

(***************************************************************************)
(* The steps.                                                              *)
(***************************************************************************)
\* A generation nothing was sent in yet has nothing in flight.
LEMMA NoneAhead ==
  ASSUME NothingAhead, NEW k, NEW g \in Nat, FlightIs, CountersAre,
         \/ k \in K!Logins /\ g > auth.gen
         \/ k = K!Listing /\ g > listing.gen
         \/ k \in K!Setters /\ g > settings.gen
  PROVE  Cardinality(K!InFlight(k, g)) = 0
<1>1. K!InFlight(k, g) = {}
  <2> SUFFICES ASSUME NEW c \in flight, c.call = k, c.gen = g PROVE FALSE
    BY DEF K!InFlight
  <2>1. g \in Nat /\ auth.gen \in Nat /\ listing.gen \in Nat /\ settings.gen \in Nat
    BY DEF CountersAre
  <2> QED BY <2>1 DEF NothingAhead
<1> QED BY <1>1, FS_EmptySet

\* A launch: counters of logins and listings begin again, and no call out is of them.
LEMMA WorkLaunchKeeps == ASSUME WorkBounds, KInv, K!Launch PROVE KInv'
<1> USE DEF KInv, K!core
<1>1. /\ UNCHANGED <<connected, switches, shown, flight, begun, settings, dialog>>
      /\ launches' = launches + 1 /\ launches' \in 0..MaxLaunches /\ failed' = <<>>
      /\ auth' = [gen |-> auth.gen + 1, pending |-> K!NoLogins] /\ auth.gen \in Nat
      /\ listing' = [gen |-> listing.gen + 1, pending |-> 0] /\ listing.gen \in Nat
      /\ launches \in Nat
  BY DEF K!Launch, CountersAre, WorkBounds
<1>2. K!NoLogins \in [K!Logins -> Nat] /\ \A l \in K!Logins : K!NoLogins[l] = 0
  BY DEF K!NoLogins
<1>3. CountersAre'
  BY <1>1, <1>2 DEF CountersAre
<1>4. FlightIs' /\ NothingAhead'
  BY <1>1 DEF FlightIs, NothingAhead
<1>5. Counted'
  <2> SUFFICES ASSUME NEW g \in Nat
               PROVE  /\ g = auth'.gen => \A l \in K!Logins : auth'.pending[l] = Cardinality(K!InFlight(l, g)')
                      /\ g = listing'.gen => listing'.pending = Cardinality(K!InFlight(K!Listing, g)')
                      /\ g = settings'.gen => settings'.modes = Cardinality(K!InFlight(<<"set_mode">>, g)')
    BY DEF Counted
  <2>1. \A k : K!InFlight(k, g)' = K!InFlight(k, g)
    BY <1>1 DEF K!InFlight
  <2>2. ASSUME g = auth'.gen, NEW l \in K!Logins
        PROVE  auth'.pending[l] = Cardinality(K!InFlight(l, g)')
    <3>1. g > auth.gen
      BY <1>1, <2>2
    <3> QED BY <1>1, <1>2, <2>1, <2>2, <3>1, NoneAhead
  <2>3. ASSUME g = listing'.gen
        PROVE  listing'.pending = Cardinality(K!InFlight(K!Listing, g)')
    <3>1. g > listing.gen
      BY <1>1, <2>3
    <3> QED BY <1>1, <2>1, <3>1, NoneAhead
  <2> QED BY <1>1, <2>1, <2>2, <2>3 DEF Counted
<1>6. OneOption' /\ K!ChangesAreOfTheLive'
  BY <1>1 DEF OneOption, K!ChangesAreOfTheLive
<1> QED BY <1>3, <1>4, <1>5, <1>6

\* What the watchers reset has nothing in flight, and so nothing that is of a session
\* left behind.
LEMMA ResetKeeps ==
  ASSUME WorkBounds, KInv, K!ResetSettings, NEW s, shown' = s,
         s \in [connected : BOOLEAN, switches : 0..MaxSwitches], s.switches <= switches,
         UNCHANGED <<K!core, launches, flight, begun, auth, listing, failed, dialog>>
  PROVE  KInv'
<1> USE DEF KInv, K!core
<1>1. /\ settings' = [gen |-> settings.gen + 1, modes |-> 0, option |-> K!NoOption, options |-> 0]
      /\ settings.gen \in Nat /\ settings'.gen > settings.gen /\ settings'.gen \in Nat
  BY DEF K!ResetSettings, CountersAre
<1>2. CountersAre' /\ FlightIs'
  BY <1>1 DEF CountersAre, FlightIs
<1>3. NothingAhead'
  BY <1>1 DEF NothingAhead, FlightIs
<1>4. \A c \in flight : c.call \in K!Setters => c.gen # settings'.gen
  BY <1>1 DEF NothingAhead, FlightIs
<1>5. Counted'
  <2> SUFFICES ASSUME NEW g \in Nat
               PROVE  /\ g = auth'.gen => \A l \in K!Logins : auth'.pending[l] = Cardinality(K!InFlight(l, g)')
                      /\ g = listing'.gen => listing'.pending = Cardinality(K!InFlight(K!Listing, g)')
                      /\ g = settings'.gen => settings'.modes = Cardinality(K!InFlight(<<"set_mode">>, g)')
    BY DEF Counted
  <2>1. \A k : K!InFlight(k, g)' = K!InFlight(k, g)
    BY DEF K!InFlight
  <2>2. ASSUME g = settings'.gen
        PROVE  settings'.modes = Cardinality(K!InFlight(<<"set_mode">>, g)')
    <3>1. g > settings.gen /\ settings'.modes = 0
      BY <1>1, <2>2
    <3> QED BY <2>1, <3>1, NoneAhead, Kinds
  <2> QED BY <2>1, <2>2 DEF Counted
<1>6. OneOption'
  <2>1. /\ settings'.option = K!NoOption /\ settings'.options = 0
        /\ \A c \in flight', o \in Options : c.call = <<"set_option", o>> => c.gen # settings'.gen
    BY <1>1, <1>4, Kinds
  <2> QED BY <2>1 DEF OneOption
<1>7. K!ChangesAreOfTheLive'
  BY <1>4 DEF K!ChangesAreOfTheLive
<1> QED BY <1>2, <1>3, <1>5, <1>6, <1>7

\* The core, the dialog and the watcher of the status that found an agent there.
LEMMA OthersKeep ==
  ASSUME WorkBounds, KInv, UNCHANGED <<launches, flight, begun, auth, listing, settings, failed>>,
         connected' \in BOOLEAN, dialog' \in BOOLEAN,
         switches' \in 0..MaxSwitches, shown' \in [connected : BOOLEAN, switches : 0..MaxSwitches],
         shown'.switches = shown.switches, switches' = switches \/ switches' = switches + 1
  PROVE  KInv'
<1> USE DEF KInv
<1>1. switches \in Nat /\ switches' >= switches /\ shown.switches <= switches
  BY DEF CountersAre, WorkBounds
<1>2. CountersAre'
  BY <1>1 DEF CountersAre, WorkBounds
<1>3. FlightIs'
  BY <1>1 DEF FlightIs, WorkBounds
<1>4. Counted'
  <2>1. \A k, g : K!InFlight(k, g)' = K!InFlight(k, g)
    BY DEF K!InFlight
  <2> QED BY <2>1 DEF Counted
<1>5. NothingAhead' /\ OneOption'
  BY DEF NothingAhead, OneOption
<1>6. K!ChangesAreOfTheLive'
  BY <1>1 DEF K!ChangesAreOfTheLive, CountersAre
<1> QED BY <1>2, <1>3, <1>4, <1>5, <1>6

\* Connecting, losing the agent, the watchers and the dialog.
LEMMA WorkCoreKeeps ==
  ASSUME WorkBounds, KInv, K!Connect \/ K!Lose \/ K!StatusWatcher \/ K!SessionWatcher \/ K!OpenDialog
  PROVE  KInv'
<1>1. /\ shown \in [connected : BOOLEAN, switches : 0..MaxSwitches] /\ shown.switches <= switches
      /\ switches \in 0..MaxSwitches /\ connected \in BOOLEAN /\ dialog \in BOOLEAN
  BY DEF KInv, CountersAre
<1>2. CASE K!Connect \/ K!Lose \/ K!OpenDialog
  <2>1. /\ connected' \in BOOLEAN /\ dialog' \in BOOLEAN /\ switches' \in 0..MaxSwitches
        /\ switches' = switches \/ switches' = switches + 1
        /\ UNCHANGED <<shown, launches, flight, begun, auth, listing, settings, failed>>
    <3>1. CASE K!Connect
      <4>1. switches' = switches + 1 /\ switches' \in 0..MaxSwitches /\ connected' = TRUE
        BY <1>1, <3>1 DEF K!Connect, WorkBounds
      <4> QED BY <1>1, <3>1, <4>1 DEF K!Connect
    <3>2. CASE K!Lose \/ K!OpenDialog
      BY <1>1, <3>2 DEF K!Lose, K!OpenDialog, K!core
    <3> QED BY <1>2, <3>1, <3>2
  <2> QED BY <1>1, <2>1, OthersKeep
<1>3. CASE K!StatusWatcher
  <2>1. PICK s : s = [shown EXCEPT !.connected = connected]
    OBVIOUS
  <2>2. /\ s \in [connected : BOOLEAN, switches : 0..MaxSwitches] /\ s.switches = shown.switches
        /\ s.switches <= switches /\ shown' = s
        /\ UNCHANGED <<K!core, launches, flight, begun, auth, listing, failed, dialog>>
        /\ UNCHANGED settings \/ K!ResetSettings
    BY <1>1, <1>3, <2>1 DEF K!StatusWatcher
  <2>3. CASE K!ResetSettings
    BY <2>2, <2>3, ResetKeeps
  <2>4. CASE UNCHANGED settings
    BY <1>1, <2>2, <2>4, OthersKeep DEF K!core
  <2> QED BY <2>2, <2>3, <2>4
<1>4. CASE K!SessionWatcher
  <2>1. PICK s : s = [shown EXCEPT !.switches = switches]
    OBVIOUS
  <2>2. /\ s \in [connected : BOOLEAN, switches : 0..MaxSwitches] /\ s.switches <= switches /\ shown' = s
        /\ UNCHANGED <<K!core, launches, flight, begun, auth, listing, failed, dialog>> /\ K!ResetSettings
    BY <1>1, <1>4, <2>1 DEF K!SessionWatcher, WorkBounds
  <2> QED BY <2>2, ResetKeeps
<1> QED BY <1>2, <1>3, <1>4

\* What a call sent under the present generation of its kind leaves true, whatever is
\* counted of it.
LEMMA SentFits ==
  ASSUME WorkBounds, KInv, NEW kind \in K!Calls, NEW g \in Nat, K!Send(kind, g),
         auth'.gen = auth.gen, listing'.gen = listing.gen, settings'.gen = settings.gen,
         kind \in K!Logins => g = auth.gen, kind = K!Listing => g = listing.gen,
         kind \in K!Setters => g = settings.gen
  PROVE  /\ FlightIs' /\ NothingAhead' /\ K!ChangesAreOfTheLive'
         /\ UNCHANGED <<K!core, shown, launches>>
         /\ settings'.option = settings.option /\ settings'.options = settings.options
            /\ (\A o \in Options : kind # <<"set_option", o>>) => OneOption'
<1> USE DEF KInv
<1>1. UNCHANGED <<K!core, shown, launches>> /\ switches \in Nat
  BY DEF K!Send, CountersAre, WorkBounds
<1>2. \E new : flight' = flight \cup {new} /\ new.call = kind /\ new.gen = g /\ new.switch = switches
  <2>1. PICK new : new = [id |-> begun + 1, call |-> kind, gen |-> g, switch |-> switches]
    OBVIOUS
  <2>2. new.call = kind /\ new.gen = g /\ new.switch = switches
    BY <2>1
  <2>3. flight' = flight \cup {new}
    BY <2>1 DEF K!Send
  <2> QED BY <2>2, <2>3
<1>3. PICK new : flight' = flight \cup {new} /\ new.call = kind /\ new.gen = g /\ new.switch = switches
  BY <1>2
<1>4. FlightIs'
  BY <1>1, SendCounts
<1>5. NothingAhead'
  <2> SUFFICES ASSUME NEW c \in flight'
               PROVE  /\ c.call \in K!Logins => c.gen <= auth'.gen
                      /\ c.call = K!Listing => c.gen <= listing'.gen
                      /\ c.call \in K!Setters => c.gen <= settings'.gen
    BY DEF NothingAhead
  <2>1. CASE c \in flight
    BY <2>1 DEF NothingAhead
  <2>2. CASE c = new
    BY <1>3, <2>2
  <2> QED BY <1>3, <2>1, <2>2
<1>6. K!ChangesAreOfTheLive'
  BY <1>1, <1>3 DEF K!ChangesAreOfTheLive, K!core
<1>7. ASSUME settings'.option = settings.option, settings'.options = settings.options,
             \A o \in Options : kind # <<"set_option", o>>
      PROVE  OneOption'
  <2>1. \A c \in flight' : \A o \in Options : c.call = <<"set_option", o>> => c \in flight
    BY <1>3, <1>7
  <2>2. settings.option # K!NoOption =>
          \E c \in flight' : c.call = <<"set_option", settings.option>> /\ c.gen = settings.gen
    BY <1>3 DEF OneOption
  <2> QED BY <1>7, <2>1, <2>2 DEF OneOption
<1> QED BY <1>1, <1>4, <1>5, <1>6, <1>7

\* A login or a logout sent: one more of its kind is counted.
LEMMA LoginSentKeeps == ASSUME WorkBounds, KInv, NEW l \in K!Logins, K!Login(l) PROVE KInv'
<1> USE DEF KInv
<1>1. /\ K!Send(l, auth.gen) /\ UNCHANGED <<listing, settings, failed, dialog>> /\ l \in K!Calls
      /\ auth.gen \in Nat /\ switches \in Nat /\ auth.pending \in [K!Logins -> Nat]
  BY DEF K!Login, K!Calls, CountersAre, WorkBounds
<1>2. /\ auth' \in [gen : Nat, pending : [K!Logins -> Nat]] /\ auth'.gen = auth.gen
      /\ auth'.pending[l] = auth.pending[l] + 1
      /\ \A m \in K!Logins \ {l} : auth'.pending[m] = auth.pending[m]
  BY DEF K!Login, CountersAre
<1>3. FlightIs' /\ NothingAhead' /\ K!ChangesAreOfTheLive' /\ OneOption' /\ UNCHANGED <<K!core, shown, launches>>
  BY <1>1, <1>2, Kinds, SentFits
<1>4. CountersAre'
  BY <1>1, <1>2, <1>3 DEF CountersAre, K!core
<1>5. Counted'
  <2> SUFFICES ASSUME NEW g \in Nat
               PROVE  /\ g = auth'.gen => \A m \in K!Logins : auth'.pending[m] = Cardinality(K!InFlight(m, g)')
                      /\ g = listing'.gen => listing'.pending = Cardinality(K!InFlight(K!Listing, g)')
                      /\ g = settings'.gen => settings'.modes = Cardinality(K!InFlight(<<"set_mode">>, g)')
    BY DEF Counted
  <2>1. PICK h \in Nat : h = auth.gen
    BY <1>1
  <2>2. K!Send(l, h)
    BY <1>1, <2>1
  <2>3. /\ Cardinality(K!InFlight(l, h)') = Cardinality(K!InFlight(l, h)) + 1
        /\ \A k, i : <<k, i>> # <<l, h>> => K!InFlight(k, i)' = K!InFlight(k, i)
    BY <1>1, <2>2, SendCounts
  <2>4. ASSUME g = auth'.gen, NEW m \in K!Logins
        PROVE  auth'.pending[m] = Cardinality(K!InFlight(m, g)')
    <3>1. g = h
      BY <1>2, <2>1, <2>4
    <3> QED BY <1>2, <2>1, <2>3, <3>1 DEF Counted
  <2>5. /\ K!InFlight(K!Listing, g)' = K!InFlight(K!Listing, g)
        /\ K!InFlight(<<"set_mode">>, g)' = K!InFlight(<<"set_mode">>, g)
    BY <2>3, Kinds
  <2> QED BY <1>1, <2>4, <2>5 DEF Counted
<1> QED BY <1>3, <1>4, <1>5

\* The other handlers: what is counted goes up by the one that is sent.
LEMMA OthersSendKeep ==
  ASSUME WorkBounds, KInv, K!List \/ K!SetMode \/ (\E k \in K!Lifecycle : K!Drive(k)) PROVE KInv'
<1> USE DEF KInv
<1>1. /\ listing.gen \in Nat /\ settings.gen \in Nat /\ switches \in Nat /\ 0 \in Nat
      /\ K!Listing \in K!Calls /\ <<"set_mode">> \in K!Calls /\ K!Lifecycle \subseteq K!Calls
  BY Kinds DEF K!Calls, CountersAre, WorkBounds
<1>2. PICK kind \in K!Calls, h \in Nat :
        /\ K!Send(kind, h) /\ UNCHANGED <<auth, dialog>> /\ failed' \in {failed, <<>>}
        /\ \/ /\ kind = K!Listing /\ h = listing.gen /\ UNCHANGED settings
              /\ listing' = [listing EXCEPT !.pending = @ + 1]
           \/ /\ kind = <<"set_mode">> /\ h = settings.gen /\ UNCHANGED listing
              /\ settings' = [settings EXCEPT !.modes = @ + 1]
           \/ kind \in K!Lifecycle /\ UNCHANGED <<listing, settings>>
  <2>1. CASE K!List
    BY <1>1, <2>1 DEF K!List
  <2>2. CASE K!SetMode
    BY <1>1, <2>2 DEF K!SetMode
  <2>3. CASE \E k \in K!Lifecycle : K!Drive(k)
    BY <1>1, <2>3 DEF K!Drive
  <2> QED BY <2>1, <2>2, <2>3
<1>3. /\ listing' \in [gen : Nat, pending : Nat] /\ listing'.gen = listing.gen
      /\ settings' \in [gen : Nat, modes : Nat, option : Options \cup {K!NoOption}, options : Nat]
      /\ settings'.gen = settings.gen /\ settings'.option = settings.option
      /\ settings'.options = settings.options
      /\ listing'.pending = listing.pending + (IF kind = K!Listing THEN 1 ELSE 0)
      /\ settings'.modes = settings.modes + (IF kind = <<"set_mode">> THEN 1 ELSE 0)
  <2>1. /\ listing \in [gen : Nat, pending : Nat]
        /\ settings \in [gen : Nat, modes : Nat, option : Options \cup {K!NoOption}, options : Nat]
    BY DEF CountersAre
  <2>2. CASE kind = K!Listing /\ UNCHANGED settings /\ listing' = [listing EXCEPT !.pending = @ + 1]
    BY <2>1, <2>2, Kinds
  <2>3. CASE /\ kind = <<"set_mode">> /\ UNCHANGED listing
             /\ settings' = [settings EXCEPT !.modes = @ + 1]
    BY <2>1, <2>3, Kinds
  <2>4. CASE kind \in K!Lifecycle /\ UNCHANGED <<listing, settings>>
    BY <2>1, <2>4, Kinds
  <2> QED BY <1>2, <2>2, <2>3, <2>4
<1>4. FlightIs' /\ NothingAhead' /\ K!ChangesAreOfTheLive' /\ OneOption' /\ UNCHANGED <<K!core, shown, launches>>
  BY <1>2, <1>3, Kinds, SentFits
<1>5. CountersAre'
  BY <1>2, <1>3, <1>4 DEF CountersAre, K!core
<1>6. Counted'
  <2> SUFFICES ASSUME NEW g \in Nat
               PROVE  /\ g = auth'.gen => \A m \in K!Logins : auth'.pending[m] = Cardinality(K!InFlight(m, g)')
                      /\ g = listing'.gen => listing'.pending = Cardinality(K!InFlight(K!Listing, g)')
                      /\ g = settings'.gen => settings'.modes = Cardinality(K!InFlight(<<"set_mode">>, g)')
    BY DEF Counted
  <2>1. /\ Cardinality(K!InFlight(kind, h)') = Cardinality(K!InFlight(kind, h)) + 1
        /\ \A k, i : <<k, i>> # <<kind, h>> => K!InFlight(k, i)' = K!InFlight(k, i)
    BY <1>1, <1>2, SendCounts
  <2>2. \A m \in K!Logins : K!InFlight(m, g)' = K!InFlight(m, g)
    BY <1>2, <2>1, Kinds
  <2>3. ASSUME g = listing'.gen PROVE listing'.pending = Cardinality(K!InFlight(K!Listing, g)')
    BY <1>2, <1>3, <2>1, <2>3 DEF Counted, CountersAre
  <2>4. ASSUME g = settings'.gen PROVE settings'.modes = Cardinality(K!InFlight(<<"set_mode">>, g)')
    BY <1>2, <1>3, <2>1, <2>4 DEF Counted, CountersAre
  <2> QED BY <1>2, <2>2, <2>3, <2>4 DEF Counted
<1> QED BY <1>4, <1>5, <1>6

\* An option's set: no other is being set, of this session.
LEMMA SetOptionKeeps == ASSUME WorkBounds, KInv, NEW o \in Options, K!SetOption(o) PROVE KInv'
<1> USE DEF KInv
<1>1. PICK kind : kind = <<"set_option", o>>
  OBVIOUS
<1>2. /\ settings.option = K!NoOption /\ settings.options = 0 /\ UNCHANGED <<auth, listing, failed, dialog>>
      /\ settings' = [settings EXCEPT !.option = o, !.options = @ + 1] /\ switches \in Nat
      /\ kind \in K!Setters /\ kind \in K!Calls /\ settings.gen \in Nat /\ o # K!NoOption
  BY <1>1, Kinds DEF K!SetOption, OneOption, CountersAre, WorkBounds, K!Calls
<1>3. PICK h \in Nat : h = settings.gen
  BY <1>2
<1>4. K!Send(kind, h)
  BY <1>1, <1>3 DEF K!SetOption
<1>5. /\ settings' \in [gen : Nat, modes : Nat, option : Options \cup {K!NoOption}, options : Nat]
      /\ settings'.gen = settings.gen /\ settings'.modes = settings.modes
      /\ settings'.option = o /\ settings'.options = 1
  <2>1. settings \in [gen : Nat, modes : Nat, option : Options \cup {K!NoOption}, options : Nat]
    BY DEF CountersAre
  <2>2. settings' = [settings EXCEPT !.option = o, !.options = 1]
    BY <1>2, <2>1
  <2> QED BY <2>1, <2>2
<1>6. FlightIs' /\ NothingAhead' /\ K!ChangesAreOfTheLive' /\ UNCHANGED <<K!core, shown, launches>>
  BY <1>2, <1>3, <1>4, <1>5, Kinds, SentFits
<1>7. CountersAre'
  BY <1>2, <1>5, <1>6 DEF CountersAre, K!core
<1>8. Counted'
  <2>1. \A k, i : <<k, i>> # <<kind, h>> => K!InFlight(k, i)' = K!InFlight(k, i)
    BY <1>2, <1>4, SendCounts
  <2>2. /\ \A i : \A l \in K!Logins : K!InFlight(l, i)' = K!InFlight(l, i)
        /\ \A i : K!InFlight(K!Listing, i)' = K!InFlight(K!Listing, i)
        /\ \A i : K!InFlight(<<"set_mode">>, i)' = K!InFlight(<<"set_mode">>, i)
    BY <1>1, <1>2, <2>1, Kinds
  <2> QED BY <1>2, <1>5, <2>2 DEF Counted
<1>9. OneOption'
  <2>1. PICK new : new = [id |-> begun + 1, call |-> kind, gen |-> h, switch |-> switches]
    OBVIOUS
  <2>2. flight' = flight \cup {new} /\ new.call = kind /\ new.gen = h
    BY <1>4, <2>1 DEF K!Send
  <2>3. \A c \in flight : \A p \in Options : ~(c.call = <<"set_option", p>> /\ c.gen = h)
    BY <1>2, <1>3 DEF OneOption, WorkBounds
  <2> QED BY <1>1, <1>2, <1>3, <1>5, <2>2, <2>3, Kinds DEF OneOption
<1> QED BY <1>6, <1>7, <1>8, <1>9

(***************************************************************************)
(* The answers.                                                            *)
(***************************************************************************)
LEMMA OverFits ==
  ASSUME WorkBounds, KInv, NEW c \in flight, K!Over(c), switches' \in {switches, switches + 1},
         auth'.gen = auth.gen, listing'.gen = listing.gen, settings'.gen = settings.gen
  PROVE  /\ FlightIs' /\ NothingAhead' /\ K!ChangesAreOfTheLive'
         /\ UNCHANGED <<connected, shown, launches, begun>>
<1> USE DEF KInv
<1>1. flight' = flight \ {c} /\ UNCHANGED <<connected, shown, launches, begun>>
  BY DEF K!Over
<1>2. switches \in Nat /\ switches' \in Nat /\ switches' >= switches /\ shown.switches <= switches
      /\ shown.switches \in Nat
  BY DEF CountersAre, WorkBounds
<1>3. FlightIs'
  BY <1>2, OverCounts
<1>4. NothingAhead'
  BY <1>1 DEF NothingAhead
<1>5. K!ChangesAreOfTheLive'
  BY <1>1, <1>2 DEF K!ChangesAreOfTheLive
<1> QED BY <1>1, <1>3, <1>4, <1>5

\* A login that is over: counted down if it is of this launch, left alone if not.
LEMMA LoginOverKeeps == ASSUME WorkBounds, KInv, NEW c \in flight, K!LoginOver(c) PROVE KInv'
<1> USE DEF KInv
<1>1. /\ c.call \in K!Logins /\ K!Over(c) /\ UNCHANGED <<switches, listing, settings, failed, dialog>>
      /\ c.gen \in Nat /\ switches \in Nat /\ auth \in [gen : Nat, pending : [K!Logins -> Nat]]
  BY DEF K!LoginOver, FlightIs, CountersAre, WorkBounds
<1>2. PICK kind, h : kind = c.call /\ h = c.gen
  OBVIOUS
<1>3. /\ Cardinality(K!InFlight(kind, h)') = Cardinality(K!InFlight(kind, h)) - 1
      /\ Cardinality(K!InFlight(kind, h)) > 0
      /\ \A k, i : <<k, i>> # <<kind, h>> => K!InFlight(k, i)' = K!InFlight(k, i)
  BY <1>1, <1>2, OverCounts
<1>4. /\ auth' \in [gen : Nat, pending : [K!Logins -> Nat]] /\ auth'.gen = auth.gen
      /\ \A m \in K!Logins : auth'.pending[m] =
           IF auth.gen = h /\ m = kind THEN auth.pending[m] - 1 ELSE auth.pending[m]
  <2>1. CASE auth.gen = h
    <3>1. auth.pending[kind] > 0 /\ auth.pending[kind] - 1 \in Nat
      BY <1>1, <1>2, <1>3, <2>1 DEF Counted
    <3>2. auth' = [auth EXCEPT !.pending[kind] = @ - 1]
      BY <1>2, <2>1, <3>1 DEF K!LoginOver, K!FinishLogin
    <3> QED BY <1>1, <1>2, <2>1, <3>1, <3>2
  <2>2. CASE auth.gen # h
    BY <1>1, <1>2, <2>2 DEF K!LoginOver, K!FinishLogin
  <2> QED BY <2>1, <2>2
<1>5. FlightIs' /\ NothingAhead' /\ K!ChangesAreOfTheLive' /\ UNCHANGED <<connected, shown, launches, begun>>
  BY <1>1, <1>4, OverFits
<1>6. CountersAre'
  BY <1>1, <1>4, <1>5 DEF CountersAre
<1>7. Counted'
  <2> SUFFICES ASSUME NEW g \in Nat
               PROVE  /\ g = auth'.gen => \A m \in K!Logins : auth'.pending[m] = Cardinality(K!InFlight(m, g)')
                      /\ g = listing'.gen => listing'.pending = Cardinality(K!InFlight(K!Listing, g)')
                      /\ g = settings'.gen => settings'.modes = Cardinality(K!InFlight(<<"set_mode">>, g)')
    BY DEF Counted
  <2>1. ASSUME g = auth'.gen, NEW m \in K!Logins
        PROVE  auth'.pending[m] = Cardinality(K!InFlight(m, g)')
    <3>1. auth.pending[m] = Cardinality(K!InFlight(m, g)) /\ g = auth.gen
      BY <1>4, <2>1 DEF Counted
    <3> QED BY <1>3, <1>4, <2>1, <3>1
  <2>2. /\ K!InFlight(K!Listing, g)' = K!InFlight(K!Listing, g)
        /\ K!InFlight(<<"set_mode">>, g)' = K!InFlight(<<"set_mode">>, g)
    BY <1>1, <1>2, <1>3, Kinds
  <2> QED BY <1>1, <2>1, <2>2 DEF Counted
<1>8. OneOption'
  <2>1. flight' = flight \ {c} /\ \A o \in Options : c.call # <<"set_option", o>>
    BY <1>1, Kinds DEF K!Over
  <2>2. \A o \in Options : \A d \in flight : d.call = <<"set_option", o>> => d \in flight'
    BY <2>1
  <2>3. settings.option # K!NoOption => settings.option \in Options
    BY DEF CountersAre
  <2> QED BY <1>1, <2>1, <2>2, <2>3 DEF OneOption
<1> QED BY <1>5, <1>6, <1>7, <1>8

\* A call that is no option's is over: the option being set is what it was.
LEMMA OptionStays ==
  ASSUME KInv, NEW c \in flight, K!Over(c), \A o \in Options : c.call # <<"set_option", o>>,
         settings'.gen = settings.gen, settings'.option = settings.option,
         settings'.options = settings.options
  PROVE  OneOption'
<1>1. flight' = flight \ {c}
  BY DEF K!Over
<1>2. \A o \in Options : \A d \in flight : d.call = <<"set_option", o>> => d \in flight'
  BY <1>1
<1>3. settings.option # K!NoOption => settings.option \in Options
  BY DEF KInv, CountersAre
<1> QED BY <1>1, <1>2, <1>3 DEF KInv, OneOption

\* A listing that is over, the same.
LEMMA ListOverKeeps == ASSUME WorkBounds, KInv, NEW c \in flight, K!ListOver(c) PROVE KInv'
<1> USE DEF KInv
<1>1. /\ c.call = K!Listing /\ K!Over(c) /\ UNCHANGED <<switches, auth, settings, failed, dialog>>
      /\ c.gen \in Nat /\ switches \in Nat /\ listing \in [gen : Nat, pending : Nat]
      /\ listing' = IF listing.gen = c.gen THEN [listing EXCEPT !.pending = K!Less(@)] ELSE listing
  BY DEF K!ListOver, FlightIs, CountersAre, WorkBounds
<1>2. PICK h : h = c.gen
  OBVIOUS
<1>3. /\ Cardinality(K!InFlight(K!Listing, h)') = Cardinality(K!InFlight(K!Listing, h)) - 1
      /\ Cardinality(K!InFlight(K!Listing, h)) > 0
      /\ \A k, i : <<k, i>> # <<K!Listing, h>> => K!InFlight(k, i)' = K!InFlight(k, i)
  BY <1>1, <1>2, OverCounts
<1>4. /\ listing' \in [gen : Nat, pending : Nat] /\ listing'.gen = listing.gen
      /\ listing'.pending = IF listing.gen = h THEN listing.pending - 1 ELSE listing.pending
  <2>1. CASE listing.gen = h
    <3>1. listing.pending > 0 /\ listing.pending - 1 \in Nat /\ K!Less(listing.pending) = listing.pending - 1
      BY <1>1, <1>2, <1>3, <2>1 DEF Counted, K!Less
    <3> QED BY <1>1, <1>2, <2>1, <3>1
  <2>2. CASE listing.gen # h
    BY <1>1, <1>2, <2>2
  <2> QED BY <2>1, <2>2
<1>5. FlightIs' /\ NothingAhead' /\ K!ChangesAreOfTheLive' /\ UNCHANGED <<connected, shown, launches, begun>>
  BY <1>1, <1>4, OverFits
<1>6. CountersAre'
  BY <1>1, <1>4, <1>5 DEF CountersAre
<1>7. Counted'
  <2> SUFFICES ASSUME NEW g \in Nat
               PROVE  /\ g = auth'.gen => \A m \in K!Logins : auth'.pending[m] = Cardinality(K!InFlight(m, g)')
                      /\ g = listing'.gen => listing'.pending = Cardinality(K!InFlight(K!Listing, g)')
                      /\ g = settings'.gen => settings'.modes = Cardinality(K!InFlight(<<"set_mode">>, g)')
    BY DEF Counted
  <2>1. ASSUME g = listing'.gen PROVE listing'.pending = Cardinality(K!InFlight(K!Listing, g)')
    <3>1. listing.pending = Cardinality(K!InFlight(K!Listing, g)) /\ g = listing.gen
      BY <1>4, <2>1 DEF Counted
    <3> QED BY <1>3, <1>4, <2>1, <3>1
  <2>2. /\ \A m \in K!Logins : K!InFlight(m, g)' = K!InFlight(m, g)
        /\ K!InFlight(<<"set_mode">>, g)' = K!InFlight(<<"set_mode">>, g)
    BY <1>3, Kinds
  <2> QED BY <1>1, <2>1, <2>2 DEF Counted
<1>8. OneOption'
  BY <1>1, Kinds, OptionStays
<1> QED BY <1>5, <1>6, <1>7, <1>8

\* A mode's set that is over.
LEMMA ModeOverKeeps ==
  ASSUME WorkBounds, KInv, NEW c \in flight, K!SetterOver(c), c.call = <<"set_mode">> PROVE KInv'
<1> USE DEF KInv
<1>1. /\ K!Over(c) /\ UNCHANGED <<switches, auth, listing, failed, dialog>>
      /\ c.gen \in Nat /\ switches \in Nat
      /\ settings \in [gen : Nat, modes : Nat, option : Options \cup {K!NoOption}, options : Nat]
      /\ settings' = IF settings.gen # c.gen THEN settings ELSE [settings EXCEPT !.modes = K!Less(@)]
  BY DEF K!SetterOver, K!Finished, FlightIs, CountersAre, WorkBounds
<1>2. PICK kind, h : kind = c.call /\ h = c.gen
  OBVIOUS
<1>3. /\ Cardinality(K!InFlight(kind, h)') = Cardinality(K!InFlight(kind, h)) - 1
      /\ Cardinality(K!InFlight(kind, h)) > 0
      /\ \A k, i : <<k, i>> # <<kind, h>> => K!InFlight(k, i)' = K!InFlight(k, i)
  BY <1>1, <1>2, OverCounts
<1>4. /\ settings' \in [gen : Nat, modes : Nat, option : Options \cup {K!NoOption}, options : Nat]
      /\ settings'.gen = settings.gen /\ settings'.option = settings.option
      /\ settings'.options = settings.options
      /\ settings'.modes = IF settings.gen = h THEN settings.modes - 1 ELSE settings.modes
  <2>1. CASE settings.gen = h
    <3>1. settings.modes > 0 /\ settings.modes - 1 \in Nat /\ K!Less(settings.modes) = settings.modes - 1
      BY <1>1, <1>2, <1>3, <2>1 DEF Counted, K!Less
    <3> QED BY <1>1, <1>2, <2>1, <3>1
  <2>2. CASE settings.gen # h
    BY <1>1, <1>2, <2>2
  <2> QED BY <2>1, <2>2
<1>5. FlightIs' /\ NothingAhead' /\ K!ChangesAreOfTheLive' /\ UNCHANGED <<connected, shown, launches, begun>>
  BY <1>1, <1>4, OverFits
<1>6. CountersAre'
  BY <1>1, <1>4, <1>5 DEF CountersAre
<1>7. Counted'
  <2> SUFFICES ASSUME NEW g \in Nat
               PROVE  /\ g = auth'.gen => \A m \in K!Logins : auth'.pending[m] = Cardinality(K!InFlight(m, g)')
                      /\ g = listing'.gen => listing'.pending = Cardinality(K!InFlight(K!Listing, g)')
                      /\ g = settings'.gen => settings'.modes = Cardinality(K!InFlight(<<"set_mode">>, g)')
    BY DEF Counted
  <2>1. ASSUME g = settings'.gen PROVE settings'.modes = Cardinality(K!InFlight(<<"set_mode">>, g)')
    <3>1. settings.modes = Cardinality(K!InFlight(<<"set_mode">>, g)) /\ g = settings.gen
      BY <1>4, <2>1 DEF Counted
    <3> QED BY <1>2, <1>3, <1>4, <2>1, <3>1
  <2>2. /\ \A m \in K!Logins : K!InFlight(m, g)' = K!InFlight(m, g)
        /\ K!InFlight(K!Listing, g)' = K!InFlight(K!Listing, g)
    BY <1>2, <1>3, Kinds
  <2> QED BY <1>1, <2>1, <2>2 DEF Counted
<1>8. OneOption'
  BY <1>1, <1>4, Kinds, OptionStays
<1> QED BY <1>5, <1>6, <1>7, <1>8

\* An option's set that is over: of this session, no option is being set any more.
LEMMA OptionOverKeeps ==
  ASSUME WorkBounds, KInv, NEW c \in flight, K!SetterOver(c), NEW o \in Options, c.call = <<"set_option", o>>
  PROVE  KInv'
<1> USE DEF KInv
<1>1. /\ K!Over(c) /\ UNCHANGED <<switches, auth, listing, failed, dialog>> /\ flight' = flight \ {c}
      /\ c.gen \in Nat /\ switches \in Nat
      /\ settings \in [gen : Nat, modes : Nat, option : Options \cup {K!NoOption}, options : Nat]
      /\ settings' = IF settings.gen # c.gen THEN settings
                     ELSE [settings EXCEPT !.options = K!Less(@),
                             !.option = IF K!Less(settings.options) = 0 THEN K!NoOption ELSE @]
  BY Kinds DEF K!SetterOver, K!Finished, FlightIs, CountersAre, WorkBounds, K!Over
<1>2. PICK kind, h : kind = c.call /\ h = c.gen
  OBVIOUS
<1>3. \A k, i : <<k, i>> # <<kind, h>> => K!InFlight(k, i)' = K!InFlight(k, i)
  BY <1>1, <1>2, OverCounts
<1>4. CASE settings.gen # h
  <2>1. UNCHANGED settings
    BY <1>1, <1>2, <1>4
  <2>2. FlightIs' /\ NothingAhead' /\ K!ChangesAreOfTheLive' /\ UNCHANGED <<connected, shown, launches, begun>>
    BY <1>1, <2>1, OverFits
  <2>3. CountersAre'
    BY <1>1, <2>1, <2>2 DEF CountersAre
  <2>4. Counted'
    <3>1. /\ \A i : \A l \in K!Logins : K!InFlight(l, i)' = K!InFlight(l, i)
          /\ \A i : K!InFlight(K!Listing, i)' = K!InFlight(K!Listing, i)
          /\ \A i : K!InFlight(<<"set_mode">>, i)' = K!InFlight(<<"set_mode">>, i)
      BY <1>2, <1>3, Kinds
    <3> QED BY <1>1, <2>1, <3>1 DEF Counted
  <2>5. OneOption'
    <3>1. \A d \in flight : d.gen = settings.gen => d \in flight'
      BY <1>1, <1>2, <1>4
    <3> QED BY <1>1, <2>1, <3>1 DEF OneOption
  <2> QED BY <2>2, <2>3, <2>4, <2>5
<1>5. CASE settings.gen = h
  <2>1. settings.option = o /\ settings.options = 1
    BY <1>2, <1>5 DEF OneOption, WorkBounds
  <2>2. K!Less(settings.options) = 0
    BY <2>1 DEF K!Less
  <2>3. settings' = [settings EXCEPT !.options = 0, !.option = K!NoOption]
    BY <1>1, <1>2, <1>5, <2>2
  <2>4. /\ settings' \in [gen : Nat, modes : Nat, option : Options \cup {K!NoOption}, options : Nat]
        /\ settings'.gen = settings.gen /\ settings'.option = K!NoOption
        /\ settings'.options = 0 /\ settings'.modes = settings.modes
    <3>1. /\ settings \in [gen : Nat, modes : Nat, option : Options \cup {K!NoOption}, options : Nat]
          /\ K!NoOption \in Options \cup {K!NoOption} /\ 0 \in Nat
      BY <1>1
    <3> QED BY ONLY <2>3, <3>1
  <2>5. FlightIs' /\ NothingAhead' /\ K!ChangesAreOfTheLive' /\ UNCHANGED <<connected, shown, launches, begun>>
    BY <1>1, <2>4, OverFits
  <2>6. CountersAre'
    BY <1>1, <2>4, <2>5 DEF CountersAre
  <2>7. Counted'
    <3>1. /\ \A i : \A l \in K!Logins : K!InFlight(l, i)' = K!InFlight(l, i)
          /\ \A i : K!InFlight(K!Listing, i)' = K!InFlight(K!Listing, i)
          /\ \A i : K!InFlight(<<"set_mode">>, i)' = K!InFlight(<<"set_mode">>, i)
      BY <1>2, <1>3, Kinds
    <3> QED BY <1>1, <2>4, <3>1 DEF Counted
  <2>8. \A d \in flight' : \A p \in Options : ~(d.call = <<"set_option", p>> /\ d.gen = settings.gen)
    <3> SUFFICES ASSUME NEW d \in flight, d # c, NEW p \in Options, d.call = <<"set_option", p>>,
                        d.gen = settings.gen
                 PROVE  FALSE
      BY <1>1
    <3>1. settings.option = p
      BY DEF OneOption
    <3>2. d.call = c.call
      BY <2>1, <3>1
    <3> QED BY <1>2, <1>5, <2>1, <3>1, <3>2 DEF OneOption
  <2>9. OneOption'
    BY <2>4, <2>8 DEF OneOption
  <2> QED BY <2>5, <2>6, <2>7, <2>9
<1> QED BY <1>4, <1>5

\* A session call that is over: it may switch the session, and settings begin again.
LEMMA DriveOverKeeps ==
  ASSUME WorkBounds, KInv, NEW c \in flight, NEW well \in BOOLEAN, K!DriveOver(c, well) PROVE KInv'
<1> USE DEF KInv
<1>1. /\ c.call \in K!Lifecycle /\ K!Over(c) /\ UNCHANGED <<auth, listing, settings>>
      /\ switches \in Nat /\ switches' \in {switches, switches + 1} /\ switches' \in 0..MaxSwitches
      /\ failed' \in K!Lifecycle \cup {<<>>} /\ dialog' \in BOOLEAN
  <2>1. switches \in Nat /\ switches \in 0..MaxSwitches /\ dialog \in BOOLEAN
    BY DEF CountersAre, WorkBounds
  <2>2. switches' \in {switches, switches + 1} /\ switches' <= MaxSwitches
    BY DEF K!DriveOver
  <2>3. switches' \in 0..MaxSwitches
    BY <2>1, <2>2 DEF WorkBounds
  <2>4. c.call \in K!Lifecycle /\ K!Over(c) /\ UNCHANGED <<auth, listing, settings>>
    BY DEF K!DriveOver
  <2>5. failed' \in K!Lifecycle \cup {<<>>} /\ dialog' \in BOOLEAN
    BY <2>1 DEF K!DriveOver
  <2> QED BY <2>1, <2>2, <2>3, <2>4, <2>5
<1>2. FlightIs' /\ NothingAhead' /\ K!ChangesAreOfTheLive' /\ UNCHANGED <<connected, shown, launches, begun>>
  BY <1>1, OverFits
<1>3. shown.switches <= switches'
  BY <1>1 DEF CountersAre
<1>4. CountersAre'
  BY <1>1, <1>2, <1>3 DEF CountersAre
<1>5. Counted'
  <2>1. PICK kind, h : kind = c.call /\ h = c.gen
    OBVIOUS
  <2>2. \A k, i : <<k, i>> # <<kind, h>> => K!InFlight(k, i)' = K!InFlight(k, i)
    BY <1>1, <2>1, OverCounts
  <2>3. /\ \A i : \A l \in K!Logins : K!InFlight(l, i)' = K!InFlight(l, i)
        /\ \A i : K!InFlight(K!Listing, i)' = K!InFlight(K!Listing, i)
        /\ \A i : K!InFlight(<<"set_mode">>, i)' = K!InFlight(<<"set_mode">>, i)
    BY <1>1, <2>1, <2>2, Kinds
  <2> QED BY <1>1, <2>3 DEF Counted
<1>6. OneOption'
  BY <1>1, Kinds, OptionStays
<1> QED BY <1>2, <1>4, <1>5, <1>6

\* Every step keeps the invariant.
LEMMA NextKeepsK == ASSUME WorkBounds, KInv, [K!Next]_(K!vars) PROVE KInv'
<1>1. CASE K!Next
  <2>1. ASSUME NEW c \in flight, K!SetterOver(c)
        PROVE  c.call = <<"set_mode">> \/ \E o \in Options : c.call = <<"set_option", o>>
    BY <2>1 DEF K!SetterOver, K!Setters
  <2> QED BY <1>1, <2>1, WorkLaunchKeeps, WorkCoreKeeps, LoginSentKeeps, OthersSendKeep,
      SetOptionKeeps, LoginOverKeeps, ListOverKeeps, ModeOverKeeps, OptionOverKeeps, DriveOverKeeps
      DEF K!Next
<1>2. CASE UNCHANGED K!vars
  <2>1. UNCHANGED <<connected, switches, shown, launches, flight, begun, auth, listing, settings, failed, dialog>>
    BY <1>2 DEF K!vars, K!core
  <2>2. \A k, g : K!InFlight(k, g)' = K!InFlight(k, g)
    BY <2>1 DEF K!InFlight
  <2>3. Counted'
    BY <2>1, <2>2 DEF KInv, Counted
  <2>4. FlightIs' /\ CountersAre'
    BY <2>1 DEF KInv, FlightIs, CountersAre
  <2>5. NothingAhead'
    BY <2>1 DEF KInv, NothingAhead
  <2>6. OneOption'
    BY <2>1 DEF KInv, OneOption
  <2>7. K!ChangesAreOfTheLive'
    BY <2>1 DEF KInv, K!ChangesAreOfTheLive
  <2> QED BY <2>3, <2>4, <2>5, <2>6, <2>7 DEF KInv
<1> QED BY <1>1, <1>2

\* What is counted is within what may be in flight, and what a run checks of it.
LEMMA KInvTells == ASSUME WorkBounds, KInv PROVE K!WorkIsSafe
<1> USE DEF KInv
<1>1. \A k, g : Cardinality(K!InFlight(k, g)) \in 0..MaxCalls
  <2> TAKE k, g
  <2>1. IsFiniteSet(K!InFlight(k, g)) /\ Cardinality(K!InFlight(k, g)) <= Cardinality(flight)
    BY FS_Subset DEF FlightIs, K!InFlight
  <2>2. Cardinality(K!InFlight(k, g)) \in Nat /\ Cardinality(flight) \in Nat
    BY <2>1, FS_CardinalityType DEF FlightIs
  <2> QED BY <2>1, <2>2 DEF FlightIs, WorkBounds
<1>2. PICK a, l, s : a = auth.gen /\ l = listing.gen /\ s = settings.gen
  OBVIOUS
<1>3. /\ \A m \in K!Logins : auth.pending[m] = Cardinality(K!InFlight(m, a))
      /\ listing.pending = Cardinality(K!InFlight(K!Listing, l))
      /\ settings.modes = Cardinality(K!InFlight(<<"set_mode">>, s))
  BY <1>2 DEF Counted, CountersAre
<1>4. auth.pending \in [K!Logins -> 0..MaxCalls] /\ listing.pending \in 0..MaxCalls /\ settings.modes \in 0..MaxCalls
  BY <1>1, <1>3 DEF CountersAre
<1>5. \A o \in Options : settings.option = o <=> K!InFlight(<<"set_option", o>>, s) # {}
  BY <1>2 DEF OneOption, K!InFlight, WorkBounds
<1>6. settings.options \in 0..MaxCalls
  <2>1. CASE settings.option = K!NoOption
    BY <2>1 DEF OneOption, WorkBounds
  <2>2. CASE settings.option # K!NoOption
    <3>1. settings.options = 1 /\ flight # {}
      BY <2>2 DEF OneOption
    <3>2. begun \in 1..MaxCalls
      BY <3>1 DEF FlightIs
    <3> QED BY <3>1, <3>2 DEF WorkBounds
  <2> QED BY <2>1, <2>2
<1>7. K!TypeOK
  BY <1>4, <1>6 DEF K!TypeOK, FlightIs, CountersAre
<1>8. K!CountsAreTrue
  BY <1>2, <1>3, <1>5, SizesAreSizes DEF K!CountsAreTrue
<1> QED BY <1>7, <1>8 DEF K!WorkIsSafe

\* Whatever answers late: each counter is the calls in flight of its kind since the launch or
\* the switch it began with, and what is said to be changing is of the live session
\* (claims.rs, settings.rs, stores.rs).
THEOREM WorkIsSafeHolds == ASSUME WorkBounds PROVE K!Spec => []K!WorkIsSafe
<1>1. K!Init => KInv
  BY InitKInv
<1>2. KInv /\ [K!Next]_(K!vars) => KInv'
  BY NextKeepsK
<1>3. KInv => K!WorkIsSafe
  BY KInvTells
<1> QED BY <1>1, <1>2, <1>3, PTL DEF K!Spec

-----------------------------------------------------------------------------
(***************************************************************************)
(* Account: the rows that say what became of each capability an agent      *)
(* claimed (agent/rows.rs, agent/login.rs, app/claims.rs). The reason      *)
(* shown once above several rows is read from the set of their reasons, so *)
(* what has to be shown is that it has one member, and that each row's own *)
(* reason is that member.                                                  *)
(***************************************************************************)
AccountBounds == MaxAgents \in Nat /\ Claimable \subseteq SUBSET A!Caps

\* No resume is sent to an agent that loads; a login wanted is one that was said to be;
\* and only an agent that described itself, of what it claimed, has a login called.
ResumeIsNotDriven == "load" \in claims => driven["resume"] = "unasked"
LoginIsAsked == A!NeedsLogin <=> said = "wanted"
CallsAreOfClaims == calls \subseteq claims /\ (calls # {} => described)
AInv == A!TypeOK /\ ResumeIsNotDriven /\ LoginIsAsked /\ CallsAreOfClaims

\* The capabilities, by name.
LEMMA CapsAre ==
  /\ A!Caps = {"load", "list", "resume", "close", "delete", "roots", "image", "http", "auth", "logout"}
  /\ A!Recorded = {"load", "list", "resume", "close", "delete", "roots", "image", "http", "logout"}
<1>1. A!Caps = {"load", "list", "resume", "close", "delete", "roots", "image", "http", "auth", "logout"}
  BY DEF A!Caps, A!Runs
<1> QED BY <1>1 DEF A!Recorded

\* With no agent yet, nothing is claimed, driven or said.
LEMMA InitAInv == ASSUME AccountBounds, A!Init PROVE AInv
<1>1. A!TypeOK
  <2>1. A!Nothing \in [A!Recorded -> A!Outcomes]
    BY DEF A!Nothing, A!Outcomes
  <2>2. 0 \in 0..MaxAgents
    BY DEF AccountBounds
  <2> QED BY <2>1, <2>2 DEF A!Init, A!TypeOK, A!AuthStates, A!Narrowings
<1>2. ResumeIsNotDriven /\ LoginIsAsked /\ CallsAreOfClaims
  BY DEF A!Init, ResumeIsNotDriven, LoginIsAsked, A!NeedsLogin, CallsAreOfClaims
<1> QED BY <1>1, <1>2 DEF AInv

\* A capability driven, and how it came out.
LEMMA DriveKeeps ==
  ASSUME AccountBounds, AInv, NEW c \in A!Caps, NEW outcome \in A!Answers, A!Drive(c, outcome) PROVE AInv'
<1> USE DEF AInv
<1>1. /\ UNCHANGED <<agents, described, connected, claims, supplied, only, calls>>
      /\ live' \in BOOLEAN /\ rows' \in BOOLEAN /\ A!NoteLogin(outcome) /\ c \in A!Offered \ A!AuthCalls
  BY DEF A!Drive, A!TypeOK
<1>2. /\ driven' = [d \in A!Recorded |-> IF d \notin A!DrivenBy(c) THEN driven[d]
                                         ELSE IF outcome = "asks" THEN "refused" ELSE outcome]
      /\ driven \in [A!Recorded -> A!Outcomes] /\ outcome \in {"answered", "refused", "asks"}
  BY DEF A!Drive, A!TypeOK, A!Answers
<1>3. driven' \in [A!Recorded -> A!Outcomes]
  BY <1>2 DEF A!Outcomes
<1>4. LoginIsAsked' /\ auth' \in A!AuthStates /\ said' \in {"wanted", "settled", "nothing"}
  BY <1>1 DEF A!NoteLogin, LoginIsAsked, A!NeedsLogin, A!TypeOK, A!AuthStates
<1>5. A!TypeOK'
  BY <1>1, <1>3, <1>4 DEF A!TypeOK
<1>6. ResumeIsNotDriven'
  <2> SUFFICES ASSUME "load" \in claims PROVE driven'["resume"] = driven["resume"]
    BY <1>1 DEF ResumeIsNotDriven
  <2>1. "resume" \notin A!Offered
    BY DEF A!Offered, A!Restore
  <2>2. "resume" \notin A!DrivenBy(c)
    BY <1>1, <2>1 DEF A!DrivenBy
  <2> QED BY <1>2, <2>2, CapsAre
<1> QED BY <1>1, <1>4, <1>5, <1>6 DEF CallsAreOfClaims

\* What an answer says of the login: wanted, given, or refused.
LEMMA LoginAnsweredKeeps ==
  ASSUME AccountBounds, AInv, NEW outcome \in A!Answers,
         A!NewSession(outcome) \/ A!Authenticated(outcome) \/ A!LoggedOut(outcome)
  PROVE  AInv'
<1> USE DEF AInv
<1>1. /\ UNCHANGED <<agents, described, connected, claims, rows, supplied, only>>
      /\ live' \in BOOLEAN /\ calls' \subseteq calls
  BY DEF A!NewSession, A!Authenticated, A!LoggedOut, A!TypeOK
<1>2. driven' \in [A!Recorded -> A!Outcomes] /\ driven'["resume"] = driven["resume"]
  <2>1. CASE UNCHANGED driven
    BY <2>1 DEF A!TypeOK
  <2>2. CASE A!LoggedOut(outcome)
    BY <2>2, CapsAre DEF A!LoggedOut, A!TypeOK, A!Answers, A!Outcomes
  <2> QED BY <2>1, <2>2 DEF A!NewSession, A!Authenticated
<1>3. LoginIsAsked' /\ auth' \in A!AuthStates /\ said' \in {"wanted", "settled", "nothing"}
  <2>1. CASE A!NewSession(outcome)
    BY <2>1 DEF A!NewSession, A!NoteLogin, LoginIsAsked, A!NeedsLogin, A!TypeOK, A!AuthStates
  <2>2. CASE A!Authenticated(outcome)
    BY <2>2 DEF A!Authenticated, A!Accepted, LoginIsAsked, A!NeedsLogin, A!AuthStates, A!Answers
  <2>3. CASE A!LoggedOut(outcome)
    BY <2>3 DEF A!LoggedOut, A!NoteLogin, LoginIsAsked, A!NeedsLogin, A!TypeOK, A!AuthStates
  <2> QED BY <2>1, <2>2, <2>3
<1>4. A!TypeOK'
  BY <1>1, <1>2, <1>3 DEF A!TypeOK
<1> QED BY <1>1, <1>2, <1>3, <1>4 DEF ResumeIsNotDriven, CallsAreOfClaims

\* An agent comes with its claims, or leaves with them.
LEMMA AgentsKeep ==
  ASSUME AccountBounds, AInv, A!Leaves \/ (\E adv \in Claimable, describes \in BOOLEAN : A!Connects(adv, describes))
  PROVE  AInv'
<1> USE DEF AInv
<1>1. CASE A!Leaves
  BY <1>1 DEF A!Leaves, A!login, A!TypeOK, ResumeIsNotDriven, LoginIsAsked, A!NeedsLogin,
      CallsAreOfClaims
<1>2. CASE \E adv \in Claimable, describes \in BOOLEAN : A!Connects(adv, describes)
  <2>1. PICK adv \in Claimable, describes \in BOOLEAN : A!Connects(adv, describes)
    BY <1>2
  <2>2. adv \subseteq A!Caps /\ A!Nothing \in [A!Recorded -> A!Outcomes] /\ A!Nothing["resume"] = "unasked"
    BY CapsAre DEF AccountBounds, A!Nothing, A!Outcomes
  <2>3. agents' \in 0..MaxAgents
    BY <2>1 DEF A!Connects, A!TypeOK, AccountBounds
  <2>4. A!TypeOK'
    BY <2>1, <2>2, <2>3 DEF A!Connects, A!TypeOK, A!AuthStates
  <2>5. ResumeIsNotDriven' /\ LoginIsAsked' /\ CallsAreOfClaims'
    BY <2>1, <2>2 DEF A!Connects, ResumeIsNotDriven, LoginIsAsked, A!NeedsLogin, CallsAreOfClaims
  <2> QED BY <2>4, <2>5
<1> QED BY <1>1, <1>2

\* What the user presses, types or narrows changes no account.
LEMMA ScreenKeeps ==
  ASSUME AccountBounds, AInv, \/ \E k \in A!AuthCalls : A!Press(k)
                              \/ \E text \in {"other", "none"} : A!Type(text)
                              \/ \E which \in A!Narrowings : A!Narrow(which)
  PROVE  AInv'
<1> USE DEF AInv
<1>1. /\ UNCHANGED <<agents, described, connected, claims, driven, auth, said, live, rows>>
      /\ calls' \subseteq claims \cap A!AuthCalls /\ (calls' # {} => described)
      /\ supplied' \in {"reported", "other", "none"} /\ only' \in A!Narrowings
  <2>1. CASE \E k \in A!AuthCalls : A!Press(k)
    BY <2>1 DEF A!Press, A!TypeOK, CallsAreOfClaims
  <2>2. CASE \E text \in {"other", "none"} : A!Type(text)
    BY <2>2 DEF A!Type, A!TypeOK, CallsAreOfClaims, A!login
  <2>3. CASE \E which \in A!Narrowings : A!Narrow(which)
    BY <2>3 DEF A!Narrow, A!TypeOK, CallsAreOfClaims, A!login
  <2> QED BY <2>1, <2>2, <2>3
<1>2. A!TypeOK'
  BY <1>1 DEF A!TypeOK
<1> QED BY <1>1, <1>2 DEF ResumeIsNotDriven, LoginIsAsked, A!NeedsLogin, CallsAreOfClaims

\* Every step keeps the invariant.
LEMMA NextKeepsA == ASSUME AccountBounds, AInv, [A!Next]_(A!vars) PROVE AInv'
<1>1. CASE A!Next
  BY <1>1, DriveKeeps, LoginAnsweredKeeps, AgentsKeep, ScreenKeeps DEF A!Next
<1>2. CASE UNCHANGED A!vars
  BY <1>2 DEF A!vars, A!login, AInv, A!TypeOK, ResumeIsNotDriven, LoginIsAsked, A!NeedsLogin,
      CallsAreOfClaims
<1> QED BY <1>1, <1>2

\* One reason, said once above the rows that share it, is each row's own.
LEMMA SharedIsEachs ==
  ASSUME AInv, NEW run \in A!Runs, NEW c \in A!Left(run)
  PROVE  A!Read(run, c) = A!Fourth(c)
<1> DEFINE why == {A!Fourth(d) : d \in A!Left(run)}
           facts == {"nothing", "prefers load", "no listing row", "unasked", "answered", "refused"}
<1>1. CASE A!Shared(run) = {}
  BY <1>1 DEF A!Read
<1>2. CASE A!Shared(run) # {}
  <2>1. Cardinality(why) = 1 /\ A!Shared(run) \subseteq why
    BY <1>2, SizesAreSizes DEF A!Shared
  <2>2. why \subseteq facts
    <3> SUFFICES ASSUME NEW d \in A!Left(run) PROVE A!Fourth(d) \in facts
      OBVIOUS
    <3>1. d \in A!Caps
      BY DEF A!Left, A!Caps
    <3>2. d # "auth" => driven[d] \in A!Outcomes
      BY <3>1 DEF AInv, A!TypeOK, A!Recorded
    <3> QED BY <3>2 DEF A!Fourth, A!Unreached, A!AuthDriven, A!Outcomes
  <2>3. IsFiniteSet(facts)
    <3>1. IsFiniteSet({"nothing"})
      BY FS_Singleton
    <3>2. IsFiniteSet({"nothing"} \cup {"prefers load"})
      BY <3>1, FS_AddElement
    <3>3. IsFiniteSet({"nothing"} \cup {"prefers load"} \cup {"no listing row"})
      BY <3>2, FS_AddElement
    <3>4. IsFiniteSet({"nothing"} \cup {"prefers load"} \cup {"no listing row"} \cup {"unasked"})
      BY <3>3, FS_AddElement
    <3>5. IsFiniteSet({"nothing"} \cup {"prefers load"} \cup {"no listing row"} \cup {"unasked"}
                      \cup {"answered"})
      BY <3>4, FS_AddElement
    <3>6. IsFiniteSet({"nothing"} \cup {"prefers load"} \cup {"no listing row"} \cup {"unasked"}
                      \cup {"answered"} \cup {"refused"})
      BY <3>5, FS_AddElement
    <3>7. facts = {"nothing"} \cup {"prefers load"} \cup {"no listing row"} \cup {"unasked"}
                  \cup {"answered"} \cup {"refused"}
      OBVIOUS
    <3> QED BY <3>6, <3>7
  <2>4. PICK x : why = {x}
    <3>1. IsFiniteSet(why)
      BY ONLY <2>2, <2>3, FS_Subset
    <3> HIDE DEF why
    <3> QED BY ONLY <2>1, <3>1, FS_Singleton
  <2>5. A!Read(run, c) \in A!Shared(run)
    BY <1>2 DEF A!Read
  <2>6. A!Fourth(c) \in why
    OBVIOUS
  <2> QED BY <2>1, <2>4, <2>5, <2>6
<1> QED BY <1>1, <1>2

\* What a run checks, from the invariant.
LEMMA AInvTells == ASSUME AInv PROVE A!AccountIsSafe
<1>1. A!RowsReadTrue
  BY SharedIsEachs DEF A!RowsReadTrue
<1>2. A!ResumeYields
  <2>1. A!Fourth("resume") = "prefers load" => "load" \in claims
    <3> SUFFICES ASSUME "load" \notin claims PROVE A!Fourth("resume") # "prefers load"
      OBVIOUS
    <3>1. driven["resume"] \in A!Outcomes
      BY CapsAre DEF AInv, A!TypeOK
    <3> QED BY <3>1 DEF A!Fourth, A!Unreached, A!Outcomes
  <2> QED BY <2>1 DEF AInv, ResumeIsNotDriven, A!ResumeYields
<1>3. A!LoginIsTold
  BY DEF AInv, A!TypeOK, LoginIsAsked, CallsAreOfClaims, A!LoginIsTold, A!NeedsLogin, A!LoginDrawn,
      A!Standing, A!Busy
<1> QED BY <1>1, <1>2, <1>3 DEF AInv, A!AccountIsSafe

\* Each row of the account reads as what became of its own claim, wherever its reason is
\* written, a resume is not sent beside a load, and a login is told of exactly while one is
\* wanted (rows.rs, login.rs).
THEOREM AccountIsSafeHolds == ASSUME AccountBounds PROVE A!Spec => []A!AccountIsSafe
<1>1. A!Init => AInv
  BY InitAInv
<1>2. AInv /\ [A!Next]_(A!vars) => AInv'
  BY NextKeepsA
<1>3. AInv => A!AccountIsSafe
  BY AInvTells
<1> QED BY <1>1, <1>2, <1>3, PTL DEF A!Spec

-----------------------------------------------------------------------------
(***************************************************************************)
(* Controls: the ones that remember a press (agent/sessions.rs,            *)
(* session_settings.rs, composer.rs). A cycle walked until it comes back   *)
(* has been through every value, once, whatever the list: the invariant    *)
(* says where each step of the walk stands in the list (WalkIs).           *)
(***************************************************************************)
ControlsBounds == MaxArmings \in Nat /\ MaxStates \in Nat /\ MaxOffered \in Nat

\* No arming to come has a timer, or was ended.
DeletionIs ==
  /\ connected \in BOOLEAN /\ armed \in BOOLEAN /\ arming \in 0..MaxArmings
  /\ timers \subseteq 1..arming /\ ended \subseteq 1..arming /\ C!ArmedHasItsTime
\* What is on offer, which of it is current, and how often it was stated.
OfferIs ==
  /\ offered \in C!Lists /\ current \in Values /\ stated \in 0..MaxStates
\* What was chosen is of the list the select shows, which was stated no later than the last.
SelectIs ==
  /\ epoch \in 0..stated /\ chosen = epoch /\ selected \in Values \cup {C!NoValue}
  /\ C!SetsWhatIsOffered
Distinct == \A i, j \in DOMAIN offered : offered[i] = offered[j] => i = j
\* Where the value of `d` steps ago stands, of `n` values, the present one being the i-th.
Before(i, d, n) == IF i > d THEN i - d ELSE i + n - d
\* As far back as the cycle was walked, each step went to the value after the one before.
WalkIs ==
  /\ walked \in Seq(Values)
  /\ Distinct =>
       /\ Len(walked) <= Len(offered) + 1
       /\ walked # <<>> => \E i \in DOMAIN offered :
            /\ offered[i] = current
            /\ \A k \in 1..Len(walked) : Len(walked) - k < Len(offered) =>
                 walked[k] = offered[Before(i, Len(walked) - k, Len(offered))]

CInv == DeletionIs /\ OfferIs /\ SelectIs /\ WalkIs

\* A list on offer is a sequence of values.
LEMMA ListsAre ==
  ASSUME ControlsBounds, NEW list \in C!Lists
  PROVE  list \in Seq(Values) /\ Len(list) \in Nat /\ DOMAIN list = 1..Len(list)
<1>1. PICK n \in 0..MaxOffered : list \in [1..n -> Values]
  BY DEF C!Lists
<1> QED BY <1>1 DEF ControlsBounds

\* What is shown first of a list is one of it, if it has any.
LEMMA InitiallyIs ==
  ASSUME ControlsBounds, NEW list \in C!Lists, NEW v \in Values
  PROVE  /\ C!Initially(list, v) \in Values \cup {C!NoValue}
         /\ list # <<>> => C!Holds(list, C!Initially(list, v))
<1>1. list \in Seq(Values) /\ DOMAIN list = 1..Len(list) /\ Len(list) \in Nat
  BY ListsAre
<1>2. list # <<>> => 1 \in DOMAIN list /\ list[1] \in Values
  BY <1>1
<1> QED BY <1>2 DEF C!Initially, C!First, C!Holds

\* Nothing armed, chosen or walked.
LEMMA InitCInv == ASSUME ControlsBounds, C!Init PROVE CInv
<1>1. DeletionIs
  <2>1. 0 \in 0..MaxArmings
    BY DEF ControlsBounds
  <2> QED BY <2>1 DEF C!Init, DeletionIs, C!ArmedHasItsTime
<1>2. OfferIs
  <2>1. 0 \in 0..MaxStates
    BY DEF ControlsBounds
  <2> QED BY <2>1 DEF C!Init, OfferIs
<1>3. SelectIs
  <2>1. selected \in Values \cup {C!NoValue}
    BY InitiallyIs DEF C!Init
  <2>2. C!SetsWhatIsOffered
    BY DEF C!Init, C!SetsWhatIsOffered
  <2> QED BY <2>1, <2>2 DEF C!Init, SelectIs
<1>4. WalkIs
  BY <1>2, ListsAre DEF C!Init, OfferIs, WalkIs
<1> QED BY <1>1, <1>2, <1>3, <1>4 DEF CInv

\* Nothing of the select or the cycle.
LEMMA DeletionKeeps ==
  ASSUME ControlsBounds, CInv, C!PressDelete \/ C!CallOff \/ (\E t \in timers : C!Timer(t)) PROVE CInv'
<1> USE DEF CInv
<1>1. UNCHANGED <<connected, offered, current, stated, epoch, selected, chosen, sent, walked>>
  BY DEF C!PressDelete, C!CallOff, C!Timer, C!select
<1>2. DeletionIs'
  <2>1. arming \in Nat /\ arming <= MaxArmings /\ connected \in BOOLEAN
    BY DEF DeletionIs, ControlsBounds
  <2>2. CASE C!PressDelete /\ armed
    BY <1>1, <2>1, <2>2 DEF C!PressDelete, DeletionIs, C!ArmedHasItsTime
  <2>3. CASE C!PressDelete /\ ~armed
    <3>1. /\ armed' = TRUE /\ arming' = arming + 1 /\ timers' = timers \cup {arming + 1} /\ ended' = ended
          /\ arming' \in 0..MaxArmings
      BY <2>1, <2>3 DEF C!PressDelete, ControlsBounds
    <3>2. arming' \notin ended
      BY <2>1, <3>1 DEF DeletionIs
    <3> QED BY <1>1, <2>1, <3>1, <3>2 DEF DeletionIs, C!ArmedHasItsTime
  <2>4. CASE C!CallOff
    BY <1>1, <2>1, <2>4 DEF C!CallOff, DeletionIs, C!ArmedHasItsTime
  <2>5. CASE \E t \in timers : C!Timer(t)
    BY <1>1, <2>1, <2>5 DEF C!Timer, DeletionIs, C!ArmedHasItsTime
  <2> QED BY <2>2, <2>3, <2>4, <2>5
<1>3. OfferIs' /\ SelectIs' /\ WalkIs'
  BY <1>1 DEF OfferIs, SelectIs, C!SetsWhatIsOffered, WalkIs, Distinct
<1> QED BY <1>2, <1>3

\* A value chosen in the select, and sent.
LEMMA SelectKeeps ==
  ASSUME ControlsBounds, CInv, C!Submit \/ (\E v \in Values : C!Choose(v)) PROVE CInv'
<1> USE DEF CInv
<1>1. /\ UNCHANGED <<connected, armed, arming, timers, ended, offered, current, stated, epoch, walked>>
      /\ chosen' = epoch
  BY DEF C!Submit, C!Choose, C!deletion, SelectIs
<1>2. SelectIs'
  <2>1. CASE C!Submit
    <3>1. C!Holds(offered, C!Shown)
      BY <2>1, InitiallyIs DEF C!Submit, C!Shown, OfferIs
    <3>2. PICK r : r = [value |-> C!Shown, offered |-> offered, of |-> epoch, chosen |-> chosen]
      OBVIOUS
    <3>3. C!Holds(r.offered, r.value) /\ r.chosen = r.of /\ sent' = <<r>>
      BY <2>1, <3>1, <3>2 DEF C!Submit, SelectIs
    <3>4. C!SetsWhatIsOffered'
      BY <3>3 DEF C!SetsWhatIsOffered
    <3> QED BY <1>1, <2>1, <3>4 DEF C!Submit, SelectIs
  <2>2. CASE \E v \in Values : C!Choose(v)
    BY <1>1, <2>2 DEF C!Choose, SelectIs, C!SetsWhatIsOffered
  <2> QED BY <2>1, <2>2
<1>3. DeletionIs' /\ OfferIs' /\ WalkIs'
  BY <1>1 DEF DeletionIs, C!ArmedHasItsTime, OfferIs, WalkIs, Distinct
<1> QED BY <1>2, <1>3

\* The agent states what it offers again, or another session's is shown.
LEMMA RestateKeeps ==
  ASSUME ControlsBounds, CInv, NEW list \in C!Lists, NEW v \in Values, C!Restate(list, v) \/ C!Switch(list, v)
  PROVE  CInv'
<1> USE DEF CInv
<1>1. /\ UNCHANGED <<armed, arming, timers, ended, sent>> /\ connected' \in BOOLEAN
      /\ stated < MaxStates /\ stated' = stated + 1
      /\ offered' = list /\ current' = v /\ walked' = <<>>
      /\ \/ UNCHANGED <<epoch, selected, chosen>>
         \/ epoch' = epoch + 1 /\ selected' = C!Initially(list, v) /\ chosen' = epoch + 1
  BY DEF C!Restate, C!Switch, C!deletion, C!select, DeletionIs
<1>2. DeletionIs'
  BY <1>1 DEF DeletionIs, C!ArmedHasItsTime
<1>3. OfferIs'
  BY <1>1 DEF OfferIs, ControlsBounds
<1>4. SelectIs'
  <2>1. stated \in Nat
    BY DEF OfferIs, ControlsBounds
  <2>2. C!SetsWhatIsOffered'
    BY <1>1 DEF SelectIs, C!SetsWhatIsOffered
  <2>3. epoch' \in 0..stated' /\ chosen' = epoch' /\ selected' \in Values \cup {C!NoValue}
    BY <1>1, <2>1, InitiallyIs DEF SelectIs
  <2> QED BY <2>2, <2>3 DEF SelectIs
<1>5. WalkIs'
  <2>1. Len(offered') \in Nat
    BY <1>1, ListsAre
  <2> QED BY <1>1, <2>1 DEF WalkIs
<1> QED BY <1>2, <1>3, <1>4, <1>5

\* The agent leaves.
LEMMA LeavesKeeps == ASSUME ControlsBounds, CInv, C!Leaves PROVE CInv'
<1> USE DEF CInv
<1>1. /\ UNCHANGED <<armed, arming, timers, ended, offered, current, epoch, selected, chosen, sent, walked>>
      /\ stated' = stated + 1 /\ stated < MaxStates /\ connected' \in BOOLEAN
  BY DEF C!Leaves, C!deletion, C!select, DeletionIs
<1>2. OfferIs' /\ SelectIs'
  BY <1>1 DEF OfferIs, SelectIs, C!SetsWhatIsOffered, ControlsBounds
<1>3. DeletionIs' /\ WalkIs'
  BY <1>1 DEF DeletionIs, C!ArmedHasItsTime, WalkIs, Distinct
<1> QED BY <1>2, <1>3

\* Around the list: from the last value to the first.
LEMMA Around ==
  ASSUME NEW n \in Nat, n > 1, NEW a \in 0..n
  PROVE  (a % n) + 1 = IF a < n THEN a + 1 ELSE 1
<1>1. CASE a < n
  BY <1>1
<1>2. CASE a = n
  BY <1>2
<1> QED BY <1>1, <1>2

\* Of some naturals there is a least: what `WFMin` says of the order of the naturals.
LEMMA Least == 
  ASSUME NEW T \in SUBSET Nat, T # {}
  PROVE  \E x \in T : \A y \in T : x <= y
<1> DEFINE R == OpToRel(<, Nat)
<1>1. IsWellFoundedOn(R, Nat)
  BY NatLessThanWellFounded
<1>2. \A x, y \in Nat : x < y => <<x, y>> \in R
  BY DEF OpToRel
<1> HIDE DEF R
<1>3. PICK x \in T : \A y \in T : ~ (<<y, x>> \in R)
  BY <1>1, WFMin
<1>4. ASSUME NEW y \in T PROVE x <= y
  <2>1. x \in Nat /\ y \in Nat /\ ~ (<<y, x>> \in R)
    BY <1>3
  <2>2. ~(y < x)
    BY <1>2, <2>1
  <2> QED BY <2>1, <2>2
<1> QED BY <1>4

\* Where the present value stands, if it is one of the list.
LEMMA AtIs ==
  ASSUME ControlsBounds, OfferIs
  PROVE  /\ Len(offered) \in Nat /\ DOMAIN offered = 1..Len(offered) /\ C!At \in 0..Len(offered)
         /\ \A i \in DOMAIN offered : Distinct /\ offered[i] = current => C!At = i
<1>1. offered \in Seq(Values) /\ Len(offered) \in Nat /\ DOMAIN offered = 1..Len(offered)
  BY ListsAre DEF OfferIs
<1>2. CASE C!Holds(offered, current)
  <2> DEFINE T == {i \in DOMAIN offered : offered[i] = current}
  <2>1. T \in SUBSET Nat /\ T # {}
    BY <1>1, <1>2 DEF C!Holds
  <2>2. PICK i \in T : \A j \in T : i <= j
    BY <2>1, Least
  <2>3. \A j \in 1..(i - 1) : offered[j] # current
    <3> SUFFICES ASSUME NEW j \in 1..(i - 1), offered[j] = current PROVE FALSE
      OBVIOUS
    <3>1. i \in Nat /\ i \in 1..Len(offered)
      BY <1>1, <2>2
    <3>2. j \in DOMAIN offered /\ j < i
      BY <1>1, <3>1
    <3>3. j \in T
      BY <3>2
    <3> QED BY <2>2, <3>1, <3>2, <3>3
  <2>4. \E k \in DOMAIN offered : offered[k] = current /\ \A j \in 1..(k - 1) : offered[j] # current
    BY <2>2, <2>3
  <2>5. C!At \in DOMAIN offered /\ offered[C!At] = current
    BY <1>2, <2>4 DEF C!At
  <2> QED BY <1>1, <2>5 DEF Distinct
<1>3. CASE ~C!Holds(offered, current)
  BY <1>1, <1>3 DEF C!At, C!Holds
<1> QED BY <1>1, <1>2, <1>3

\* A step of the cycle goes to the value after the present one, and round the end.
LEMMA CycleKeeps == ASSUME ControlsBounds, CInv, C!Cycle PROVE CInv'
<1> USE DEF CInv
<1> DEFINE n == Len(offered)
           m == Len(walked)
<1>1. /\ UNCHANGED <<connected, armed, arming, timers, ended, offered, stated, epoch, selected, chosen, sent>>
      /\ n > 1 /\ m <= n /\ current' = C!Cycled /\ walked' = Append(walked, C!Cycled)
  BY DEF C!Cycle, C!deletion, C!select
<1>2. /\ n \in Nat /\ DOMAIN offered = 1..n /\ C!At \in 0..n /\ walked \in Seq(Values) /\ m \in Nat
      /\ \A j \in DOMAIN offered : Distinct /\ offered[j] = current => C!At = j
      /\ \A j \in 1..n : offered[j] \in Values
  BY AtIs, ListsAre DEF OfferIs, WalkIs
<1>3. PICK i : i = IF C!At < n THEN C!At + 1 ELSE 1
  OBVIOUS
<1>4. i \in 1..n /\ C!Cycled = offered[i] /\ C!Cycled \in Values
  <2>1. (C!At % Len(offered)) + 1 = i /\ i \in 1..n
    <3>1. n \in Nat /\ n > 1 /\ C!At \in 0..n
      BY <1>1, <1>2
    <3>2. (C!At % n) + 1 = IF C!At < n THEN C!At + 1 ELSE 1
      BY ONLY <3>1, Around
    <3> QED BY <1>3, <3>1, <3>2
  <2> QED BY <1>2, <2>1 DEF C!Cycled
<1>5. /\ walked' \in Seq(Values) /\ Len(walked') = m + 1 /\ walked'[m + 1] = C!Cycled
      /\ \A k \in 1..m : walked'[k] = walked[k]
  BY <1>1, <1>2, <1>4
<1>6. DeletionIs' /\ OfferIs' /\ SelectIs'
  BY <1>1, <1>4 DEF DeletionIs, C!ArmedHasItsTime, OfferIs, SelectIs, C!SetsWhatIsOffered
<1>7. WalkIs'
  <2> SUFFICES ASSUME Distinct
               PROVE  \A k \in 1..(m + 1) : m + 1 - k < n => walked'[k] = offered[Before(i, m + 1 - k, n)]
    <3>1. /\ walked' \in Seq(Values) /\ Len(walked') = m + 1 /\ m + 1 <= n + 1
          /\ i \in DOMAIN offered' /\ offered'[i] = current' /\ Len(offered') = n
      BY <1>1, <1>2, <1>4, <1>5
    <3>2. Distinct' => Distinct
      BY <1>1 DEF Distinct
    <3> QED BY <3>1, <3>2, <1>1 DEF WalkIs
  <2>1. walked'[m + 1] = offered[Before(i, 0, n)]
    BY <1>2, <1>4, <1>5 DEF Before
  <2>2. ASSUME NEW k \in 1..m, m + 1 - k < n
        PROVE  walked'[k] = offered[Before(i, m + 1 - k, n)]
    <3>1. walked # <<>>
      BY <1>2
    <3>2. PICK at \in DOMAIN offered :
            /\ offered[at] = current
            /\ \A j \in 1..m : m - j < n => walked[j] = offered[Before(at, m - j, n)]
      BY <3>1 DEF WalkIs
    <3>3. at = C!At /\ at \in 1..n
      BY <1>2, <3>2
    <3>4. m - k \in 0..(n - 2)
      BY <1>2, <2>2
    <3>5. Before(at, m - k, n) = Before(i, m + 1 - k, n)
      <4>1. CASE at < n
        <5>1. i = at + 1
          BY <1>3, <3>3, <4>1
        <5>2. n \in Nat /\ m \in Nat /\ at \in Nat /\ k \in Int /\ m + 1 - k = (m - k) + 1 /\ m - k \in Int
          BY <1>2, <3>3
        <5> QED BY ONLY <5>1, <5>2 DEF Before
      <4>2. CASE at = n
        <5>1. i = 1
          BY <1>2, <1>3, <3>3, <4>2
        <5>2. /\ n \in Nat /\ m \in Nat /\ m + 1 - k = (m - k) + 1 /\ m - k \in Int
              /\ n > m - k /\ ~(1 > (m - k) + 1)
          BY <1>2, <3>4
        <5> QED BY ONLY <4>2, <5>1, <5>2 DEF Before
      <4> QED BY <1>2, <3>3, <4>1, <4>2
    <3>6. walked[k] = offered[Before(at, m - k, n)]
      <4>1. m - k < n
        BY <1>2, <3>4
      <4> QED BY <2>2, <3>2, <4>1
    <3> QED BY <1>5, <2>2, <3>5, <3>6
  <2> QED BY <1>2, <2>1, <2>2
<1> QED BY <1>6, <1>7

\* Every step keeps the invariant.
LEMMA NextKeepsC == ASSUME ControlsBounds, CInv, [C!Next]_(C!vars) PROVE CInv'
<1>1. CASE C!Next
  <2> QED BY <1>1, LeavesKeeps, DeletionKeeps, SelectKeeps, RestateKeeps, CycleKeeps DEF C!Next
<1>2. CASE UNCHANGED C!vars
  BY <1>2 DEF C!vars, C!deletion, C!select, CInv, DeletionIs, C!ArmedHasItsTime, OfferIs, SelectIs,
     C!SetsWhatIsOffered, WalkIs, Distinct
<1> QED BY <1>1, <1>2

\* A walk as long as the list went through all of it: every place is some steps back.
LEMMA CInvTells == ASSUME ControlsBounds, CInv PROVE C!ControlsAreSafe
<1> USE DEF CInv
<1>1. C!CycleReachesAll
  <2> DEFINE n == Len(offered)
             m == Len(walked)
  <2> SUFFICES ASSUME Distinct, m >= n, NEW j \in DOMAIN offered
               PROVE  C!Holds(walked, offered[j])
    BY DEF C!CycleReachesAll, Distinct
  <2>1. n \in Nat /\ DOMAIN offered = 1..n /\ m \in Nat /\ DOMAIN walked = 1..m /\ j \in 1..n
    BY ListsAre DEF OfferIs, WalkIs
  <2>2. walked # <<>>
    BY <2>1
  <2>3. PICK i \in DOMAIN offered :
          \A k \in 1..m : m - k < n => walked[k] = offered[Before(i, m - k, n)]
    BY <2>2 DEF WalkIs
  <2>4. PICK d : d = IF j <= i THEN i - j ELSE i + n - j
    OBVIOUS
  <2>5. d \in 0..(n - 1) /\ Before(i, d, n) = j
    <3>1. CASE j <= i
      <4>1. d = i - j /\ i > d
        BY <2>1, <2>4, <3>1
      <4> QED BY <2>1, <3>1, <4>1 DEF Before
    <3>2. CASE i < j
      <4>1. d = i + n - j /\ ~(i > d)
        BY <2>1, <2>4, <3>2
      <4> QED BY <2>1, <3>2, <4>1 DEF Before
    <3> QED BY <2>1, <3>1, <3>2
  <2>6. m - d \in 1..m /\ m - (m - d) = d
    BY <2>1, <2>5
  <2>7. walked[m - d] = offered[j]
    BY <2>1, <2>3, <2>5, <2>6
  <2> QED BY <2>1, <2>6, <2>7 DEF C!Holds
<1>2. C!TypeOK
  <2>1. stated \in Nat /\ stated <= MaxStates
    BY DEF OfferIs, ControlsBounds
  <2>2. epoch \in 0..stated /\ chosen = epoch
    BY DEF SelectIs
  <2>3. epoch \in 0..MaxStates
    BY <2>1, <2>2 DEF ControlsBounds
  <2>4. chosen \in 0..epoch
    BY <2>1, <2>2
  <2> QED BY <2>3, <2>4 DEF C!TypeOK, DeletionIs, OfferIs, SelectIs, WalkIs
<1> QED BY <1>1, <1>2 DEF C!ControlsAreSafe, DeletionIs, SelectIs

\* An armed deletion has the whole of its own time, what is set is on offer for the session
\* it was chosen for, and a cycle pressed as often as there are values has been through every
\* one of them (sessions.rs, session_settings.rs, composer.rs).
THEOREM ControlsAreSafeHolds == ASSUME ControlsBounds PROVE C!Spec => []C!ControlsAreSafe
<1>1. C!Init => CInv
  BY InitCInv
<1>2. CInv /\ [C!Next]_(C!vars) => CInv'
  BY NextKeepsC
<1>3. CInv => C!ControlsAreSafe
  BY CInvTells
<1> QED BY <1>1, <1>2, <1>3, PTL DEF C!Spec

-----------------------------------------------------------------------------
(***************************************************************************)
(* Kept: the files kept between launches (core's kept.rs, recent.rs and    *)
(* settings.rs, app/kept.rs). An edit is written beside its file and moved *)
(* over it while the lock is held, so the invariant relates what is held,  *)
(* what is staged and what is filed.                                       *)
(***************************************************************************)
\* A document is there whole, is none, or could not be read; what could not be read is
\* gone once the files are read.
FilesAre ==
  /\ DOMAIN held = F!Files /\ DOMAIN file = F!Files /\ DOMAIN staged = F!Files /\ DOMAIN holder = F!Files
  /\ \A f \in F!Files : file[f].is \in {"missing", "junk", "whole"}
  /\ loaded => \A f \in F!Files : file[f].is # "junk"
\* Edits are of an app that runs and has read its files; the one that holds a lock has
\* written what is held beside its file.
EditsAre ==
  /\ queue # {} => up /\ loaded
  /\ \A e \in queue : e[1] \in F!Files /\ e # F!Free
  /\ \A f \in F!Files : holder[f] # F!Free => up /\ loaded /\ staged[f] = F!Whole(held[f])
\* With no lock held and the last save well, a file is what is held of it.
HeldIsFiled ==
  \A f \in F!Files : up /\ loaded /\ holder[f] = F!Free /\ f \notin unsaved =>
    \/ file[f].is = "whole" /\ file[f].doc = held[f]
    \/ file[f].is = "missing" /\ held[f] = F!Nothing[f]

FInv == FilesAre /\ EditsAre /\ HeldIsFiled

\* Before any run, a file is missing or junk and nothing is held.
LEMMA InitFInv == ASSUME F!Init PROVE FInv
<1>1. DOMAIN F!Nothing = F!Files
  BY DEF F!Nothing, F!Files
<1>2. ~up /\ ~loaded /\ queue = {} /\ held = F!Nothing /\ file \in [F!Files -> {F!Missing, F!Junk}]
      /\ staged = [f \in F!Files |-> F!Missing] /\ holder = [f \in F!Files |-> F!Free]
  BY DEF F!Init
<1>3. FilesAre
  BY <1>1, <1>2 DEF FilesAre, F!Missing, F!Junk
<1>4. EditsAre /\ HeldIsFiled
  BY <1>2 DEF EditsAre, HeldIsFiled
<1> QED BY <1>3, <1>4 DEF FInv

\* A run begins, reads its files, or is killed between two steps.
LEMMA RunsKeep == ASSUME FInv, F!Start \/ F!Load \/ F!Killed PROVE FInv'
<1> USE DEF FInv
<1>1. CASE F!Start
  <2>1. DOMAIN F!Nothing = F!Files
    BY DEF F!Nothing, F!Files
  <2>2. /\ ~up /\ loaded' = FALSE /\ held' = F!Nothing /\ UNCHANGED <<file, staged, holder, queue>>
    BY <1>1 DEF F!Start
  <2>3. FilesAre'
    BY <2>1, <2>2 DEF FilesAre
  <2>4. EditsAre' /\ HeldIsFiled'
    BY <2>2 DEF EditsAre, HeldIsFiled
  <2> QED BY <2>3, <2>4
<1>2. CASE F!Load
  <2>1. /\ up /\ ~loaded /\ loaded' = TRUE /\ UNCHANGED <<up, staged, holder, unsaved, queue>>
        /\ held' = [f \in F!Files |-> IF file[f].is = "whole" THEN file[f].doc ELSE F!Nothing[f]]
        /\ file' = [f \in F!Files |-> IF file[f].is = "junk" THEN F!Missing ELSE file[f]]
    BY <1>2 DEF F!Load
  <2>2. FilesAre'
    BY <2>1 DEF FilesAre, F!Missing
  <2>3. EditsAre' /\ HeldIsFiled'
    BY <2>1 DEF EditsAre, HeldIsFiled, FilesAre, F!Missing
  <2> QED BY <2>2, <2>3
<1>3. CASE F!Killed
  <2>1. /\ up' = FALSE /\ queue' = {} /\ UNCHANGED <<loaded, held, file, unsaved>>
        /\ staged' = [f \in F!Files |-> F!Missing] /\ holder' = [f \in F!Files |-> F!Free]
    BY <1>3 DEF F!Killed
  <2>2. FilesAre' /\ EditsAre' /\ HeldIsFiled'
    BY <2>1 DEF FilesAre, EditsAre, HeldIsFiled
  <2> QED BY <2>2
<1> QED BY <1>1, <1>2, <1>3

\* An edit queued changes no file.
LEMMA QueueKeeps == ASSUME FInv, NEW f \in F!Files, NEW edit, F!Queue(f, edit) PROVE FInv'
<1>1. /\ up /\ loaded /\ queue' = queue \cup {<<f, edits + 1, edit>>}
      /\ UNCHANGED <<up, loaded, held, file, staged, holder, unsaved>>
  BY DEF F!Queue
<1>2. <<f, edits + 1, edit>>[1] = f /\ <<f, edits + 1, edit>> # F!Free
  BY DEF F!Free
<1>3. FilesAre' /\ EditsAre' /\ HeldIsFiled'
  BY <1>1, <1>2 DEF FInv, FilesAre, EditsAre, HeldIsFiled
<1> QED BY <1>3 DEF FInv

\* An edit begun takes its lock and stages what it makes of what is held.
LEMMA BeginKeeps == ASSUME FInv, NEW e \in queue, F!Begin(e) PROVE FInv'
<1> USE DEF FInv
<1>1. /\ e[1] \in F!Files /\ e # F!Free /\ holder[e[1]] = F!Free /\ up /\ loaded
      /\ queue' = queue \ {e} /\ UNCHANGED <<up, loaded, file, unsaved>>
  BY DEF F!Begin, EditsAre
<1>2. CASE UNCHANGED <<held, staged, holder>>
  BY <1>1, <1>2 DEF FilesAre, EditsAre, HeldIsFiled
<1>3. ASSUME NEW doc, held' = [held EXCEPT ![e[1]] = doc], staged' = [staged EXCEPT ![e[1]] = F!Whole(doc)],
             holder' = [holder EXCEPT ![e[1]] = e]
      PROVE  FInv'
  <2>1. FilesAre'
    BY <1>1, <1>3 DEF FilesAre
  <2>2. EditsAre' /\ HeldIsFiled'
    BY <1>1, <1>3 DEF FilesAre, EditsAre, HeldIsFiled
  <2> QED BY <2>1, <2>2
<1> QED BY <1>2, <1>3 DEF F!Begin

\* An edit ended: moved over its file, or left out with the file as it was.
LEMMA EndKeeps == ASSUME FInv, NEW f \in F!Files, NEW well \in BOOLEAN, F!End(f, well) PROVE FInv'
<1> USE DEF FInv
<1>1. /\ up /\ loaded /\ holder[f] # F!Free /\ staged[f] = F!Whole(held[f])
      /\ UNCHANGED <<up, loaded, held, queue>>
      /\ file' = IF well THEN [file EXCEPT ![f] = staged[f]] ELSE file
      /\ unsaved' = IF well THEN unsaved \ {f} ELSE unsaved \cup {f}
      /\ staged' = [staged EXCEPT ![f] = F!Missing] /\ holder' = [holder EXCEPT ![f] = F!Free]
  BY DEF F!End, EditsAre
<1>2. F!Whole(held[f]).is = "whole" /\ F!Whole(held[f]).doc = held[f]
  BY DEF F!Whole
<1>3. FilesAre'
  BY <1>1, <1>2 DEF FilesAre
<1>4. EditsAre'
  BY <1>1 DEF EditsAre, FilesAre
<1>5. HeldIsFiled'
  BY <1>1, <1>2 DEF FilesAre, HeldIsFiled
<1> QED BY <1>3, <1>4, <1>5

\* Every step keeps the invariant.
LEMMA NextKeepsF == ASSUME FInv, [F!Next]_(F!vars) PROVE FInv'
<1>1. CASE F!Next
  <2>1. "recent" \in F!Files /\ "settings" \in F!Files
    BY DEF F!Files
  <2> QED BY <1>1, <2>1, RunsKeep, QueueKeeps, BeginKeeps, EndKeeps
          DEF F!Next, F!Record, F!Remove, F!Forget, F!ChooseAppearance, F!ChooseIndentation
<1>2. CASE UNCHANGED F!vars
  BY <1>2 DEF FInv, FilesAre, EditsAre, HeldIsFiled, F!vars
<1> QED BY <1>1, <1>2

\* Killed or failing at any point, a file that was read stays one that can be, and with no edit
\* under way and the last save well it is what the app holds (kept.rs).
THEOREM FileIsWholeHolds == F!Spec => []F!FileIsWhole
<1>1. F!Init => FInv
  BY InitFInv
<1>2. FInv /\ [F!Next]_(F!vars) => FInv'
  BY NextKeepsF
<1>3. FInv => F!FileIsWhole
  BY DEF FInv, FilesAre, HeldIsFiled, F!FileIsWhole
<1> QED BY <1>1, <1>2, <1>3, PTL DEF F!Spec
=============================================================================
