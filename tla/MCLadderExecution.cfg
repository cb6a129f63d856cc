SPECIFICATION LadderSpec
CONSTANTS
  Listed <- MCListed
  Spot <- MCSpot
  Capital <- MCCapital
  UnitBudget = 340
  Touch = {34, 37, 43, 47}
  Snapshots = 2
  Gate = 1
  Ltp = 40
  TickSize = 1
  Buffer = 8
  Floor = 3
  Nothing = Nothing
INVARIANTS ShortsCovered PayoffAsDeclared
CHECK_DEADLOCK FALSE
