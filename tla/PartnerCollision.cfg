CONSTANTS
  MaxEvents = 1
  MaxSlices = 1
SPECIFICATION Spec
INVARIANT SentIsReceived
