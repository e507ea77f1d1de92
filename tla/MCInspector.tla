---------------------------- MODULE MCInspector ----------------------------
(***************************************************************************)
(* Inspector on instances small enough for TLC; the cfgs choose them.  A   *)
(* behaviour is calm or not: in a calm one no handler panics and no agent  *)
(* is launched over another, which is what relaunching promises about.     *)
(***************************************************************************)
EXTENDS Inspector

VARIABLE calm

Calm == INSTANCE Inspector WITH MaxFrames <- 0, OverLive <- FALSE, Panics <- FALSE

MCInit == Init /\ calm \in BOOLEAN
MCNext == UNCHANGED calm /\ IF calm THEN Calm!Next ELSE Next
MCSpec == MCInit /\ [][MCNext]_<<vars, calm>>

\* In a calm behaviour an agent is gone before the next one starts, and every
\* stop has a reader to see it over (mod.rs:521, reader.rs:147).
CalmOneAgent == calm => OneAgentAtATime
CalmStopsAreRead == calm => StopsAreRead
=============================================================================
