CONSTANTS
  Calls = {"async", "wait"}
  MaxJobs = 3
  MaxResets = 0
SPECIFICATION Spec
INVARIANT SignalIsOwn
