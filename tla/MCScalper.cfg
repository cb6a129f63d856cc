SPECIFICATION ScalperSpec
CONSTANTS
  Scanner = {k1, k2}
  Monitor = {m1, m2}
  None = None
  Symbol <- MCSymbol
  Candle = {c1}
  MaxPositions = 2
  Pnl <- MCPnl
  MaxOpen = 1
  LossBudget = 2
  MaxLosses = 1
INVARIANTS SlotsRespected DailyIsSum
SYMMETRY Symmetry
CHECK_DEADLOCK FALSE
