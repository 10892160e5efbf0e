CONSTANTS
  a = a
  Callers = {a}
  Positions <- MCPositions
  Ratios <- MCRatios
  ThresholdBps = 500
  LossyCents <- MCLossyCents
  MaxUpdates = 3
  MaxExecutions = 12
SPECIFICATION FairSpec
INVARIANTS DeltaWasTrue SettlesInThreeTrades
PROPERTIES ExecutionHitsTarget EventuallyHedged
