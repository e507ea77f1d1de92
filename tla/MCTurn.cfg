\* The command line's one thread; the app's threads are checked by MCApp.
CONSTANTS
  Users = {u1, u2}
  MaxPrompts = 2
  MaxCancels = 2
  OneThread = TRUE
  Stalls = FALSE
  Leaves = {"new"}
  Hasty = FALSE
SPECIFICATION FairSpec
CHECK_DEADLOCK FALSE
INVARIANTS
  OneStory
  AwaitedRuns
  

  
