SPECIFICATION Spec
CONSTANTS
  Topic = {"session", "nova"}
  Wanted = {"session"}
  HistoryLen = 2
  QueueLen = 1
  BatchLen = 2
  MaxEvents = 3
  MaxEpoch = 2
  MaxGeneration = 1
  MaxLoop = 1
  MaxConn = 2
  Faults = {"socket", "stop", "handler"}
PROPERTY KeepsThePromise
CHECK_DEADLOCK FALSE
