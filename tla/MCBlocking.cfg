CONSTANTS
  Clickers = {c1}
  Leavers = {l1}
  Reader = Reader
  MaxRequests = 2
  MaxCancels = 1
  Capacity = 1
  Urls <- OneUrl
  Asks <- Pairs
SPECIFICATION FairSpec
CHECK_DEADLOCK FALSE
INVARIANTS
  StandsAsTold
  
PROPERTIES
  KeepsAnswers
  NobodyWaitsOn
