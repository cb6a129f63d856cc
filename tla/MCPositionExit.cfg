SPECIFICATION Spec
CONSTANTS
  short = short
  long = long
  Leg = {short, long}
  Sell = {short}
  Hedge <- SpreadHedge
  Closer = {k1, k2, k3}
SYMMETRY CloserSymmetry
INVARIANTS ClosedIsCovered TwiceExplained
PROPERTIES LockProtects NakedIsFlagged
CHECK_DEADLOCK FALSE
