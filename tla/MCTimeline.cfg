\* Budgets of a few frames.
CONSTANTS
  Absent = Absent
  Tools = {t1}
  Compactions = {c1}
  Requests = {r1}
  Values = {v1}
  Forms = {{"call", "status"}, {"patch", "title"}, {"compact", "status"}, {"chunk", "title"},
           {"commands"}}
  Sizes = {1, 2}
  Capacity = 1
  FrameCapacity = 3
  ByteCapacity = 4
  MaxFrames = 4
  MaxTurns = 2
  MaxResets = 1
SPECIFICATION Spec
CHECK_DEADLOCK FALSE
INVARIANTS
  BooksAreTrue
  ReadersAreServed
