SPECIFICATION Spec
CONSTANTS
  short = short
  long = long
  Leg = {short, long}
  Sell = {short}
  Hedge <- SpreadHedge
  Closer = {k1, k2}
INVARIANTS SameLegOnce
CHECK_DEADLOCK FALSE
