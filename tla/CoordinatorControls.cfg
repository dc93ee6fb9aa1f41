\* Every operation of one session, by two requests, while creations and submissions fail.
CONSTANTS
  Session = {a}
  NoSession = NoSession
  Thread = {t1, t2}
  Capacity = 1
  Ops = {"submit", "abort", "ensure", "btw", "configure", "rewind", "restore", "release"}
  Faults = {"create", "submit"}
  Outcomes = {"completed"}
  MaxRuns = 1
  MaxRuntimes = 2
  MaxEpoch = 2
  MaxTimeouts = 0
SPECIFICATION Spec
SYMMETRY Interchangeable
INVARIANT ControlIsExclusive SubmitsToInstalled
PROPERTY InstallNeverOverwrites
