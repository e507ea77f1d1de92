\* Pipes and queues of one place, so that every pump can be stuck on the next.
SPECIFICATION FairSpec
CONSTANTS
  Starts <- FewStarts
  PipeCapacity = 1
  FrameCapacity = 1
  DiagnosticCapacity = 1
  MaxLines = 1
CHECK_DEADLOCK FALSE
INVARIANTS
  SignalsAreOwn
PROPERTIES
  StopEnds
  
  EvidenceBeforeExit
