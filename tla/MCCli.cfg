\* Two prompts, two requests of the policy and two signals: a request can arrive
\* while another is being answered, and a turn be cancelled for one and not for
\* the other.
CONSTANTS
  MaxPrompts = 2
  MaxAsks = 2
  MaxSignals = 2
  Export = TRUE
  Starts = {"runs", "never", "nowhere"}
SPECIFICATION FairSpec
INVARIANTS
  
  NoAgentLeft
PROPERTIES
  RunEnds
  NothingIsSleptOver
