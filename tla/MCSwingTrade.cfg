SPECIFICATION Spec
CONSTANTS
  Symbol = {a, b}
  Tick = {t1, t2}
  Exit = {e1, e2}
  MaxPositions = 1
  MaxBuys = 2
  MaxMishaps = 1
  None = None
SYMMETRY Symmetry
INVARIANTS SlotsKept HeldOnce SoldOnce
CHECK_DEADLOCK FALSE
