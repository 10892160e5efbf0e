CONSTANTS
  a = a
  b = b
  Callers = {a, b}
  Positions <- MCPositions
  Ratios <- MCRatios
  ThresholdBps = 0
  LossyCents <- MCLossyCents
  MaxUpdates = 0
  MaxExecutions = 8
SPECIFICATION EngineSpec
INVARIANTS AtMostThreeTrades MetricsCoverHedge HedgeFollowsOrders OverhedgeBounded
CHECK_DEADLOCK FALSE
