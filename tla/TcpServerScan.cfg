CONSTANTS
  MaxWorkers = 2
  Limits = {0}
  MaxConns = 2
SPECIFICATION Spec
INVARIANT FoundWorkerExists
CHECK_DEADLOCK FALSE
