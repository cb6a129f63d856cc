SPECIFICATION Spec
CONSTANTS
  bull = bull
  bear = bear
  p90 = p90
  p100 = p100
  last = last
  Scan = {s1, s2, last}
  MaxRunning = 2
  Trade = {bull, bear}
  Contract = {p90, p100}
  Plan <- SpreadPlan
  Shape <- SpreadShape
SYMMETRY ScanSymmetry
VIEW View
ACTION_CONSTRAINT InOrder
INVARIANTS OneExecutionPerTrade EntersOnAgreeingBooks FlagsBlock NoLaterDuplicate
CHECK_DEADLOCK FALSE
