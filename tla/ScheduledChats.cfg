SPECIFICATION FairSpec
CONSTANTS
  Chat = {"x", "y"}
  Worker = {"w1", "w2"}
  Retry = 1
  MaxTime = 1
  MaxRestarts = 1
  MaxSaveErrors = 1
  MaxRefusals = 1
INVARIANT DuplicateNeedsLostAck KeptUntilSubmitted
PROPERTY CancelIsFinal EventuallySubmitted
CHECK_DEADLOCK FALSE
