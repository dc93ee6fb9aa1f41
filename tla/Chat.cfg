\* The chat store against a hub that streams, retries, archives and restarts.
SPECIFICATION Spec
CONSTANTS
  Sessions = {1, 2}
  Busy = {1}
  MaxChunks = 1
  MaxStreams = 2
  Forms = {"live"}
  OldTurns <- SomeOld
  FirstTurns = 2
  PageTurns = 1
  Budgets <- AllBudgets
  CachedViews = 1
  Large = {}
CHECK_DEADLOCK FALSE
INVARIANTS OneTurnPerRun NoForeignBubbles ShowsEverything HistoryInOrder
