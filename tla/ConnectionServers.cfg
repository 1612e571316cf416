SPECIFICATION Spec
CONSTANTS
  PartnerSet = {"p1", "p2", "p3"}
  Addresses = {"a1", "a2"}
  Peers = {"x1", "x2"}
  MaxAdapters = 2
  MaxPartners = 2
  Given <- MCGiven
  Zeroed = {"p1", "p2", "a1"}
  MaxWaiting = 1
  MaxCalls = 5
INVARIANT ServersInv
INVARIANT StopDisconnects
PROPERTY PartnerReachable
CHECK_DEADLOCK FALSE
