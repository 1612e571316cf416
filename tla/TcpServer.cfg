CONSTANTS
  MaxWorkers = 2
  Limits = {0, 1}
  MaxConns = 4
SPECIFICATION FairSpec
INVARIANT ServerInv
INVARIANT LimitRespected
INVARIANT StopLeavesNone
PROPERTY StopReturns
CHECK_DEADLOCK FALSE
