SPECIFICATION Spec
CONSTANTS
  a = a
  b = b
  c = c
  Symbol = {a, b, c}
  Scan = {scan}
  Kill = {kill}
  SectorOf <- MCSectorOf
  Move <- MCMove
  R = 1
  MaxOpen = 2
  MaxPerSector = 1
  MaxTrades = 3
  MaxLosses = 2
  MaxLoss = 2
  MaxRows = 4
  MaxRequests = 3
  MaxMishaps = 1
  None = None
SYMMETRY Symmetry
INVARIANTS StatsMatch CapsKept
PROPERTIES TrailedNeverLoses EntriesWithinLimits
CHECK_DEADLOCK FALSE
