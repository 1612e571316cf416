CONSTANTS
  w1 = w1
  w2 = w2
  Threads = {w1, w2}
  Capacity = 3
  AppCalls = {"pick", "flush"}
  MaxReported = 6
SPECIFICATION FairSpec
INVARIANT RingInv
PROPERTY PickedInOrder
PROPERTY DoEventReturns
