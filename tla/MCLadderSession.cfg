SPECIFICATION SessionSpec
CONSTANTS
  Socket = {s1, s2}
  None = None
  MaxFails = 2
  Open = 1
  Bucket = 2
  MaxGap = 3
  WindowStart = 3
  LastSlot = 6
INVARIANTS OneSocket HolesWatched
PROPERTIES InvalidStays FeedReturns
CHECK_DEADLOCK FALSE
