CONSTANTS
  Calls = {"async", "sync", "invalid", "wait", "check", "disconnect", "reset", "destroy"}
  MaxJobs = 3
  MaxResets = 1
SPECIFICATION FairSpec
INVARIANT ClientInv
INVARIANT OneJobAtATime
INVARIANT JobsRunOnce
INVARIANT CallbackReportsJob
PROPERTY OwnResult
PROPERTY EveryJobReported
PROPERTY LastJobRuns
PROPERTY SlotSpec
CHECK_DEADLOCK FALSE
