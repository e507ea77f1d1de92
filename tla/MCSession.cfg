CONSTANTS
  None = None
  Sessions = {s1, s2}
  Held = {s1}
  Modes = {m1}
  Options = {o1}
  Ops <- Script
  Setups <- ModeOrOption
  Answers = {"ok", "garbled", "auth", "dropped"}
  Lists = TRUE
  Overlap = FALSE
  Stalls = TRUE
  Pages = 1
  MaxCalls = 3
  MaxSaid = 1
  MaxUp = 2
SPECIFICATION Spec
CHECK_DEADLOCK FALSE
INVARIANTS
  SettledOnce
  
  ReplayNotesAreTrue
