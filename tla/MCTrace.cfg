SPECIFICATION Spec
CONSTANTS
  Senders = {Caller, Answerer}
  Caller = Caller
  Answerer = Answerer
  Sends <- MCSends
  Says <- MCSays
  NoId = NoId
  None = None
  Number = Number
  Text = Text
  One = One
  Capacity = 2
  ByteCapacity = 3
  QueueCapacity = 2
  MaxConnections = 2
  MaxFrames = 4
  MaxUnread = 1
  MaxClears = 1
CHECK_DEADLOCK FALSE
INVARIANTS
  LogIsTrue
  PairingIsTrue
  FileRebuildsTrace
