\* Submits, stops and a shutdown of two sessions over one slot, with every fault but the watcher's.
CONSTANTS
  Session = {a, b}
  NoSession = NoSession
  Thread = {t1, t2}
  Capacity = 1
  Ops = {"submit", "abort", "shutdown"}
  Faults = {"create", "submit", "abort", "stop"}
  Outcomes = {"completed", "failed"}
  MaxRuns = 2
  MaxRuntimes = 2
  MaxEpoch = 1
  MaxTimeouts = 0
SPECIFICATION Spec
SYMMETRY Interchangeable
INVARIANT CoordinatorInv EarlyStopNeverRuns SlotUntilFinished
