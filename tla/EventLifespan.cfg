SPECIFICATION FairSpec
CONSTANTS
  Topic = {"session"}
  Wanted = {"session"}
  HistoryLen = 2
  QueueLen = 1
  BatchLen = 1
  MaxEvents = 2
  MaxEpoch = 1
  MaxGeneration = 3
  MaxLoop = 2
  MaxConn = 2
  Faults = {"loop"}
INVARIANT NothingStranded
PROPERTY CatchesUp
CHECK_DEADLOCK FALSE
