SPECIFICATION Spec
CONSTANTS
  N = 4
  Side <- CondorSide
  Right <- CondorRight
  Strike <- CondorStrike
  Qty = 2
  MaxRetries = 1
INVARIANTS HedgedBeforeShort ActiveIsHeld FailureExplained
PROPERTIES QuietAfterAmbiguity Terminates
CHECK_DEADLOCK FALSE
