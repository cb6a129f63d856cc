SPECIFICATION SignalSpec
CONSTANTS
  Qty = {1, 2}
  MaxEvents = 4
  Behind = 1
  Ahead = 0
  Interval = 2
  Window = 2
  WarmUp = 2
  Percent = 50
  CrossingLevel = 1
  StrongLevel = 2
  Cutoff = 5
  LastMinute = 5
  NoSignal = NoSignal
INVARIANTS MirrorImage
PROPERTIES CrossingStays
CHECK_DEADLOCK FALSE
