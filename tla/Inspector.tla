----------------------------- MODULE Inspector -----------------------------
(***************************************************************************)
(* The inspector's one connection: launching and letting go of agents, and *)
(* the task that reads each connection into the stores                     *)
(* (crates/core/src/inspector/mod.rs and reader.rs, with the launch gate of*)
(* crates/app/src/app/launch.rs).  The window's thread, one reader per     *)
(* connection and each transport run concurrently; the connection's lock   *)
(* orders what changes who is connected.  What is done under the lock is   *)
(* still several steps, for other tasks read the status, the log and the   *)
(* list of stopping agents without it.                                     *)
(***************************************************************************)
EXTENDS Naturals, Sequences, Functions

CONSTANTS
  MaxGens,       \* bound: connections made
  MaxFrames,     \* bound: frames the agents send, all together
  OverLive,      \* an agent is launched while another is connected
  Panics         \* handling a frame can panic

ASSUME InspectorAssumption ==
  /\ MaxGens \in Nat /\ MaxFrames \in Nat
  /\ {OverLive, Panics} \subseteq BOOLEAN

Gens == 1..MaxGens
Window == MaxGens + 1            \* the window's thread, as holder of the lock
Kinds == {"spawn", "failed", "exited", "stopped"}

VARIABLES
  live,          \* the connection held, 0 for none
  latest,        \* the last connection made
  status, log,   \* the status, and the diagnostic log as <<connection, kind>>
  lock,          \* who holds the connection's lock, and what it has left to do
  cancelled,     \* connections whose reader was told to stop
  woken,         \* connections whose calls were failed and transport shut down
  graceful, stopping,  \* asked to stop politely; listed as still stopping
  launch, ui,    \* the launch task, and the window's step
  reader, kept,  \* per connection: its reader, and how many frames it recorded
  agent,         \* per connection: its process
  made, frames, eof,   \* frames sent, frames queued; whose stream has ended
  diags, over          \* diagnostics queued; whose transport has finished

connection == <<live, latest, status, log, lock>>
letting == <<cancelled, woken, graceful, stopping>>
window == <<launch, ui>>
reading == <<reader, kept>>
transport == <<agent, made, frames, eof, diags, over>>
vars == <<connection, letting, window, reading, transport>>

Unlocked == [by |-> 0, gen |-> 0, kind |-> "exited", to |-> "lost", polite |-> FALSE, left |-> <<>>]
Free == lock.by = 0
Unborn == [at |-> "none", receiving |-> FALSE, lines |-> FALSE, exit |-> FALSE,
           hand |-> FALSE, released |-> FALSE]
Fresh == [Unborn EXCEPT !.at = "drain", !.receiving = TRUE, !.lines = TRUE]

TypeOK ==
  /\ live \in 0..MaxGens /\ latest \in 0..MaxGens
  /\ status \in {"disconnected", "connected", "lost", "failed"}
  /\ log \subseteq Gens \X Kinds
  /\ lock \in [by : 0..Window, gen : 0..MaxGens, kind : Kinds, polite : BOOLEAN,
               to : {"disconnected", "lost", "failed"},
               left : Seq({"log", "status", "push", "wake", "cancel"})]
  /\ lock.by \in Gens => lock.gen \in {0, lock.by}
  /\ cancelled \subseteq Gens /\ woken \subseteq Gens
  /\ graceful \subseteq Gens /\ stopping \subseteq Gens
  /\ launch \in {"no", "waiting", "ready", "opening"}
  /\ ui \in {"idle", "spawn", "greet", "publish", "kill", "closed"}
  /\ reader \in [Gens -> [at : {"none", "drain", "after", "stopping", "panicked", "done"},
                          receiving : BOOLEAN, lines : BOOLEAN, exit : BOOLEAN,
                          hand : BOOLEAN, released : BOOLEAN]]
  /\ kept \in [Gens -> Nat] /\ made \in [Gens -> Nat] /\ frames \in [Gens -> Nat]
  /\ agent \in [Gens -> {"none", "running", "gone"}]
  /\ eof \subseteq Gens /\ over \subseteq Gens
  /\ diags \in [Gens -> Seq(Kinds)]

Init ==
  /\ live = 0 /\ latest = 0 /\ status = "disconnected" /\ log = {} /\ lock = Unlocked
  /\ cancelled = {} /\ woken = {} /\ graceful = {} /\ stopping = {}
  /\ launch = "no" /\ ui = "idle"
  /\ reader = [g \in Gens |-> Unborn] /\ kept = [g \in Gens |-> 0]
  /\ agent = [g \in Gens |-> "none"]
  /\ made = [g \in Gens |-> 0] /\ frames = [g \in Gens |-> 0]
  /\ diags = [g \in Gens |-> <<>>] /\ eof = {} /\ over = {}

(***************************************************************************)
(* `release_locked`, and `observe` around it: always the log, then the     *)
(* status, then the teardown.                                              *)
(***************************************************************************)
ReleaseOrder == <<"status", "push", "wake", "cancel">>
ObserveOrderVariant(rest) == Append(rest, "log")
ObserveOrder(rest) == <<"log">> \o rest

\* A connection already gone keeps the status that reported it.
Release(polite) ==
  lock' = IF live = 0 THEN lock
          ELSE [Unlocked EXCEPT !.by = Window, !.gen = live, !.to = "disconnected",
                                !.polite = polite, !.left = ReleaseOrder]

\* A reader that wakes after a reconnect owns nothing any more.
OwnsVariant(g) == TRUE
Owns(g) == g \notin cancelled

Observe(g, kind) ==
  lock' = IF ~Owns(g) THEN lock
          ELSE [by |-> g, gen |-> live, kind |-> kind, polite |-> FALSE,
                to |-> IF kind = "spawn" THEN "failed" ELSE "lost",
                left |-> ObserveOrder(IF live = 0 THEN <<>> ELSE ReleaseOrder)]

Did(step) ==
  /\ lock.left # <<>> /\ Head(lock.left) = step
  /\ lock' = IF Len(lock.left) = 1 THEN Unlocked ELSE [lock EXCEPT !.left = Tail(@)]

Logs ==
  /\ Did("log")
  /\ log' = log \cup {<<lock.by, lock.kind>>}
  /\ UNCHANGED <<live, latest, status, letting, window, reading, transport>>

SetsStatus ==
  /\ Did("status")
  /\ live' = 0 /\ status' = lock.to
  /\ UNCHANGED <<latest, log, letting, window, reading, transport>>

Pushes ==
  /\ Did("push")
  /\ IF lock.polite
     THEN graceful' = graceful \cup {lock.gen} /\ stopping' = stopping \cup {lock.gen}
     ELSE UNCHANGED <<graceful, stopping>>
  /\ UNCHANGED <<live, latest, status, log, cancelled, woken, window, reading, transport>>

\* `disconnected` fails the calls and shuts the transport down, which kills
\* the agent unless it was asked politely.
Killed(gens) == [g \in Gens |-> IF g \in gens THEN "gone" ELSE agent[g]]
Wakes ==
  /\ Did("wake")
  /\ woken' = woken \cup {lock.gen}
  /\ agent' = Killed({lock.gen} \ graceful)
  /\ UNCHANGED <<live, latest, status, log, cancelled, graceful, stopping, window,
                 reading, made, frames, eof, diags, over>>

Cancels ==
  /\ Did("cancel")
  /\ cancelled' = cancelled \cup {lock.gen}
  /\ UNCHANGED <<live, latest, status, log, woken, graceful, stopping, window, reading, transport>>

(***************************************************************************)
(* The window: launch, disconnect, and the immediate disconnect of its     *)
(* teardown.                                                               *)
(***************************************************************************)
At(here, there) == ui = here /\ ui' = there /\ lock.by # Window

Launch ==
  /\ At("idle", "idle")
  /\ launch = "no" /\ latest < MaxGens
  /\ OverLive \/ live = 0
  /\ launch' = "waiting"
  /\ UNCHANGED <<connection, letting, reading, transport>>

\* A launch waits until no graceful stop is in progress, then for the login
\* shell's PATH.
WaitsForStopVariant == TRUE
WaitsForStop == stopping = {}

StopIsOver ==
  /\ launch = "waiting" /\ WaitsForStop
  /\ launch' = "ready"
  /\ UNCHANGED <<connection, letting, ui, reading, transport>>

\* `start`: `connect` lets go of whatever is connected first.
Connect ==
  /\ At("idle", "spawn") /\ Free
  /\ launch = "ready"
  /\ Release(TRUE)
  /\ UNCHANGED <<live, latest, status, log, letting, launch, reading, transport>>

Spawn ==
  /\ At("spawn", "greet")
  /\ latest' = latest + 1
  /\ \/ /\ agent' = [agent EXCEPT ![latest'] = "running"]
        /\ UNCHANGED <<diags, eof, over>>
     \/ /\ agent' = [agent EXCEPT ![latest'] = "gone"]
        /\ diags' = [diags EXCEPT ![latest'] = <<"spawn">>]
        /\ eof' = eof \cup {latest'} /\ over' = over \cup {latest'}
  /\ UNCHANGED <<live, status, log, lock, letting, launch, reading, made, frames>>

Greet ==
  /\ At("greet", "publish")
  /\ status' = "connected"
  /\ UNCHANGED <<live, latest, log, lock, letting, launch, reading, transport>>

Publish ==
  /\ At("publish", "idle") /\ Free
  /\ live' = latest
  /\ launch' = "opening"
  /\ reader' = [reader EXCEPT ![latest] = Fresh]
  /\ UNCHANGED <<latest, status, log, lock, letting, kept, transport>>

\* The handshake answered or failed.
Launched ==
  /\ launch = "opening"
  /\ launch' = "no"
  /\ UNCHANGED <<connection, letting, ui, reading, transport>>

Disconnect ==
  /\ At("idle", "idle") /\ Free /\ live # 0
  /\ Release(TRUE)
  /\ UNCHANGED <<live, latest, status, log, letting, launch, reading, transport>>

\* `disconnect`: release, then kill whatever is still stopping.
Close ==
  /\ At("idle", "kill") /\ Free
  /\ Release(FALSE)
  /\ UNCHANGED <<live, latest, status, log, letting, launch, reading, transport>>

ToKillVariant == {}
ToKill == stopping
Kill ==
  /\ At("kill", "closed")
  /\ agent' = Killed(ToKill)
  /\ stopping' = {}
  /\ UNCHANGED <<connection, cancelled, woken, graceful, launch, reading, made, frames,
                 eof, diags, over>>

(***************************************************************************)
(* The transport, as the reader meets it (external to these files; Stdio   *)
(* models it).                                                             *)
(***************************************************************************)
Sends(g) ==
  /\ agent[g] = "running" /\ g \notin eof
  /\ FoldFunction(+, 0, made) < MaxFrames
  /\ made' = [made EXCEPT ![g] = @ + 1]
  /\ frames' = [frames EXCEPT ![g] = @ + 1]
  /\ UNCHANGED <<connection, letting, window, reading, agent, eof, diags, over>>

Dies(g) ==
  /\ agent[g] = "running"
  /\ agent' = [agent EXCEPT ![g] = "gone"]
  /\ UNCHANGED <<connection, letting, window, reading, made, frames, eof, diags, over>>

\* The pipe ends with the agent, or breaks before it.
Ends(g) ==
  /\ agent[g] # "none" /\ g \notin eof
  /\ eof' = eof \cup {g}
  /\ IF agent[g] = "gone" THEN UNCHANGED diags
     ELSE diags' = [diags EXCEPT ![g] = Append(@, "failed")]
  /\ UNCHANGED <<connection, letting, window, reading, agent, made, frames, over>>

\* Its last word: the exit, or the stop it was asked for; none where it was
\* only shut down.
Finishes(g) ==
  /\ agent[g] = "gone" /\ g \notin over
  /\ \/ g \in eof /\ diags' = [diags EXCEPT ![g] = Append(@, "exited")]
     \/ g \in woken /\ g \in graceful /\ diags' = [diags EXCEPT ![g] = Append(@, "stopped")]
     \/ g \in woken /\ g \notin graceful /\ UNCHANGED diags
  /\ over' = over \cup {g}
  /\ UNCHANGED <<connection, letting, window, reading, agent, made, frames, eof>>

(***************************************************************************)
(* The reader (`drain`): frames and diagnostics in one task, frames handled*)
(* across awaits, so a diagnostic can be read while one is in hand.        *)
(***************************************************************************)
Reader(g, at) == reader[g].at = at /\ lock.by # g
Set(g, r) == reader' = [reader EXCEPT ![g] = r]
Draining(g) == Reader(g, "drain") /\ ~(reader[g].exit /\ ~reader[g].receiving)

Pull(g) ==
  /\ Draining(g) /\ Free /\ Owns(g)
  /\ reader[g].receiving /\ ~reader[g].hand /\ frames[g] > 0
  /\ frames' = [frames EXCEPT ![g] = @ - 1]
  /\ Set(g, [reader[g] EXCEPT !.hand = TRUE])
  /\ UNCHANGED <<connection, letting, window, kept, agent, made, eof, diags, over>>

Record(g) ==
  /\ Draining(g) /\ Free /\ reader[g].hand
  /\ IF Owns(g)
     THEN kept' = [kept EXCEPT ![g] = @ + 1] /\ Set(g, [reader[g] EXCEPT !.hand = FALSE])
     ELSE Set(g, [reader[g] EXCEPT !.hand = FALSE, !.receiving = FALSE]) /\ UNCHANGED kept
  /\ UNCHANGED <<connection, letting, window, transport>>

ReceiveEnds(g) ==
  /\ Draining(g) /\ Free /\ reader[g].receiving /\ ~reader[g].hand
  /\ ~Owns(g) \/ (frames[g] = 0 /\ g \in eof)
  /\ Set(g, [reader[g] EXCEPT !.receiving = FALSE])
  /\ UNCHANGED <<connection, letting, window, kept, transport>>

\* An exit can overtake the queued tail of the frames: it is held until they
\* are recorded.
HoldsVariant(kind) == FALSE
Holds(kind) == kind = "exited"

Hear(g) ==
  /\ Draining(g) /\ Free /\ reader[g].lines /\ ~reader[g].exit /\ diags[g] # <<>>
  /\ diags' = [diags EXCEPT ![g] = Tail(@)]
  /\ IF Holds(Head(diags[g]))
     THEN Set(g, [reader[g] EXCEPT !.exit = TRUE]) /\ UNCHANGED lock
     ELSE Observe(g, Head(diags[g])) /\ UNCHANGED reader
  /\ UNCHANGED <<live, latest, status, log, letting, window, kept, agent, made, frames, eof, over>>

HearsLast(g) ==
  /\ Draining(g) /\ reader[g].lines /\ ~reader[g].exit /\ diags[g] = <<>> /\ g \in over
  /\ Set(g, [reader[g] EXCEPT !.lines = FALSE])
  /\ UNCHANGED <<connection, letting, window, kept, transport>>

TellsExit(g) ==
  /\ Reader(g, "drain") /\ Free /\ reader[g].exit /\ ~reader[g].receiving
  /\ Observe(g, "exited")
  /\ Set(g, [reader[g] EXCEPT !.at = "after"])
  /\ UNCHANGED <<live, latest, status, log, letting, window, kept, transport>>

Leaves(g) ==
  /\ Draining(g)
  /\ \/ g \in cancelled /\ Set(g, [reader[g] EXCEPT !.at = "after", !.released = TRUE])
     \/ ~reader[g].receiving /\ ~reader[g].lines /\ Set(g, [reader[g] EXCEPT !.at = "after"])
  /\ UNCHANGED <<connection, letting, window, kept, transport>>

\* `read`: after a graceful release, `stopped` waits for the line that says
\* how the agent stopped; otherwise nothing is stopping any more.
AfterwardsVariant(g) == stopping
Afterwards(g) == stopping \ {g}

After(g) ==
  /\ Reader(g, "after")
  /\ IF reader[g].released /\ g \in graceful
     THEN Set(g, [reader[g] EXCEPT !.at = "stopping"]) /\ UNCHANGED stopping
     ELSE Set(g, [reader[g] EXCEPT !.at = "done"]) /\ stopping' = Afterwards(g)
  /\ UNCHANGED <<connection, cancelled, woken, graceful, window, kept, transport>>

Dropped(g) ==
  /\ Reader(g, "stopping") /\ diags[g] # <<>> /\ Head(diags[g]) # "stopped"
  /\ diags' = [diags EXCEPT ![g] = Tail(@)]
  /\ UNCHANGED <<connection, letting, window, reading, agent, made, frames, eof, over>>

\* The line came, the transport went away, or the wait of 6 s ran out, after
\* the three steps of 1.5 s that end in SIGKILL.
Stopped(g) ==
  /\ Reader(g, "stopping") /\ agent[g] = "gone"
  /\ log' = IF diags[g] # <<>> /\ Head(diags[g]) = "stopped"
            THEN log \cup {<<g, "stopped">>} ELSE log
  /\ Set(g, [reader[g] EXCEPT !.at = "done"])
  /\ stopping' = stopping \ {g}
  /\ UNCHANGED <<live, latest, status, lock, cancelled, woken, graceful, window, kept, transport>>

\* A panic unwinds the whole of `read`; `watched` reports it.
Panic(g) ==
  /\ Draining(g) /\ Free /\ Panics /\ reader[g].hand /\ Owns(g)
  /\ Set(g, [reader[g] EXCEPT !.at = "panicked"])
  /\ UNCHANGED <<connection, letting, window, kept, transport>>

Caught(g) ==
  /\ Reader(g, "panicked") /\ Free
  /\ Observe(g, "failed")
  /\ Set(g, [reader[g] EXCEPT !.at = "done"])
  /\ UNCHANGED <<live, latest, status, log, letting, window, kept, transport>>

LockSteps == Logs \/ SetsStatus \/ Pushes \/ Wakes \/ Cancels
ReaderSteps(g) ==
  \/ Pull(g) \/ Record(g) \/ ReceiveEnds(g) \/ Hear(g) \/ HearsLast(g) \/ TellsExit(g)
  \/ Leaves(g) \/ After(g) \/ Dropped(g) \/ Stopped(g) \/ Caught(g)
WindowSteps == StopIsOver \/ Connect \/ Spawn \/ Greet \/ Publish \/ Kill

Next ==
  \/ LockSteps \/ WindowSteps \/ Launch \/ Launched \/ Disconnect \/ Close
  \/ \E g \in Gens : ReaderSteps(g) \/ Panic(g) \/ Sends(g) \/ Dies(g) \/ Ends(g) \/ Finishes(g)

Spec == Init /\ [][Next]_vars

\* Tasks that can run do, and an agent asked to stop is escalated to SIGKILL.
Fairness ==
  /\ WF_vars(LockSteps) /\ WF_vars(WindowSteps)
  /\ \A g \in Gens : /\ SF_vars(ReaderSteps(g))
                     /\ WF_vars(g \in woken /\ Dies(g)) /\ WF_vars(Finishes(g))

FairSpec == Spec /\ Fairness

(***************************************************************************)
(* Properties.                                                             *)
(***************************************************************************)
\* A caller told that its call failed reads a status that says why: the last
\* connection is never woken while the status still says connected
\* (reader.rs:106).
StatusBeforeWaking == latest \in woken => status # "connected"

\* When the status points at the console, the console has the evidence, and of
\* this connection (reader.rs:75).
EvidenceBeforeStatus ==
  [][status' # status =>
       /\ status' = "lost" => \E kind \in {"exited", "failed"} : <<live, kind>> \in log
       /\ status' = "failed" => <<live, "spawn">> \in log]_vars

\* An exit is told only once every frame the agent sent has been recorded,
\* though the two cross on separate queues (reader.rs:257).
TailBeforeExit ==
  \A g \in Gens : <<g, "exited">> \in log => kept[g] = made[g]

\* What a screen reads of a connection that ended is complete by the time
\* anything points at it.
EndIsExplained == TypeOK /\ StatusBeforeWaking /\ TailBeforeExit

\* Only the reader of the connection held records frames or terminal
\* diagnostics: nothing of an old agent lands in the stores of the next
\* (reader.rs:80).
OnlyTheLiveRecords ==
  [][\A g \in Gens :
       kept'[g] # kept[g] \/ (\E kind \in Kinds \ {"stopped"} : <<g, kind>> \in log' \ log)
         => live = g]_vars

\* Once the window is closed no agent it started runs (mod.rs:494).
ClosedKillsAll == ui = "closed" => \A g \in Gens : agent[g] # "running"

\* Whoever is asked to stop has a reader that will see it over, however the
\* release raced it (reader.rs:147).
StopsAreRead == \A g \in stopping : reader[g].at \in {"drain", "after", "stopping"}

\* A graceful stop is over some time, so a relaunch waiting for it goes ahead:
\* "Bounded by the stop's own escalation to SIGKILL" (mod.rs:521).
StopsAreOver == [](stopping # {} => <>(stopping = {}))

\* An agent is gone before the next one starts (mod.rs:521).
OneAgentAtATime == \A g, h \in Gens : agent[g] = "running" /\ agent[h] = "running" => g = h
=============================================================================
