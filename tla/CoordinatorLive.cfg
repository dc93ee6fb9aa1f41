\* Stops settle, slots come back and a shutdown that succeeds leaves nothing.
CONSTANTS
  Session = {a}
  NoSession = NoSession
  Thread = {t1, t2}
  Capacity = 1
  Ops = {"submit", "abort", "ensure", "shutdown"}
  Faults = {"watcher", "abort"}
  Outcomes = {"completed"}
  MaxRuns = 1
  MaxRuntimes = 2
  MaxEpoch = 1
  MaxTimeouts = 1
SPECIFICATION FairSpec
PROPERTY StopSettles SlotComesBack
INVARIANT ShutdownIsComplete
