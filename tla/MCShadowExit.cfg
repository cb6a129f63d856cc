SPECIFICATION FairSpec
CONSTANTS
  Run = {k1, k2}
  Pnl = {gain, loss}
  None = None
INVARIANTS OneExitBatch ValidIsWitnessed
PROPERTIES OutcomeImplemented CrashRecovered
CHECK_DEADLOCK FALSE
