CONSTANTS
  MaxGens = 1
  MaxFrames = 1
  OverLive = FALSE
  Panics = TRUE
SPECIFICATION FairSpec
CHECK_DEADLOCK FALSE
PROPERTIES
  StopsAreOver
