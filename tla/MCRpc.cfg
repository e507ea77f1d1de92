\* Two callers sharing a queue of one frame, so that a full queue, a teardown between
\* a registration and its send, and an answer between a send and its `captured` all happen.
SPECIFICATION FairSpec
CONSTANTS
  Callers = {c1, c2}
  MaxId = 2
  Capacity = 1
  MaxAnswers = 1
CHECK_DEADLOCK FALSE
INVARIANTS
  WaitersAreRegistered
  TableIsHonest
PROPERTIES
  KeepsContract
  NothingHangs
