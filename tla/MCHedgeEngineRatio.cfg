CONSTANTS
  a = a
  Callers = {a}
  Positions <- MCShort
  Ratios <- OverHedge
  ThresholdBps = 500
  LossyCents <- MCLossyCents
  MaxUpdates = 0
  MaxExecutions = 8
SPECIFICATION EngineFairSpec
PROPERTIES SettlesAtDefaultRatio
