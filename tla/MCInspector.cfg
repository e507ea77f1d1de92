CONSTANTS
  MaxGens = 2
  MaxFrames = 1
  OverLive = TRUE
  Panics = TRUE
SPECIFICATION MCSpec
CHECK_DEADLOCK FALSE
INVARIANTS
  EndIsExplained
  ClosedKillsAll
  CalmOneAgent
  CalmStopsAreRead
PROPERTIES
  EvidenceBeforeStatus
  OnlyTheLiveRecords
