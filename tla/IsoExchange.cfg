CONSTANTS
  Fragmentations = {1, 2, 4}
  FragmentSize = 2
  PayloadSize = 6
  IsoMaxFragments = 2
  TrashSize = 3
  MaxRequests = 3
SPECIFICATION FairSpec
INVARIANT TypeOK
INVARIANT InStep
INVARIANT LagBounded
INVARIANT TwoFragmentsInOrder
PROPERTY ExchangeEnds
CHECK_DEADLOCK FALSE
