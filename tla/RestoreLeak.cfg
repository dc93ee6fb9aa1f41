\* A restore refused by a running session leaves its fresh runtime behind.
CONSTANTS
  Session = {a}
  NoSession = NoSession
  Thread = {t1, t2}
  Capacity = 1
  Ops = {"submit", "restore"}
  Faults = {}
  Outcomes = {"completed", "failed"}
  MaxRuns = 1
  MaxRuntimes = 2
  MaxEpoch = 1
  MaxTimeouts = 0
SPECIFICATION Spec
INVARIANT NoRuntimeLeak
