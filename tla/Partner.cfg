CONSTANTS
  MaxEvents = 2
  MaxSlices = 2
SPECIFICATION FairSpec
INVARIANT TypeOK
INVARIANT BlocksWhole
INVARIANT CalmSentIsReceived
INVARIANT AnswersAwaited
PROPERTY CalmResults
PROPERTY SendEnds
PROPERTY LinkReturns
