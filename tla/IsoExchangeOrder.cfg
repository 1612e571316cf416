CONSTANTS
  Fragmentations = {3}
  FragmentSize = 2
  PayloadSize = 6
  IsoMaxFragments = 3
  TrashSize = 3
  MaxRequests = 2
SPECIFICATION Spec
INVARIANT FragmentsInOrder
CHECK_DEADLOCK FALSE
