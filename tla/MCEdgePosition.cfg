SPECIFICATION FairSpec
CONSTANTS
  Invocation = {k1, k2}
  MaxAttempts = 2
  MaxOrders = 1
INVARIANTS NoNakedShort ClosedIsFlat EnteredOnce
PROPERTIES GivenUpStays ExpiredSettled
CHECK_DEADLOCK FALSE
