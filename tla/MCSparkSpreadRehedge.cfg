CONSTANTS
  h1 = h1
  Hedgers = {h1}
  Spreads <- HighSpread
  TargetSpread = 500000
  Hours = {1, 2}
  CapacityMw = 9999
  HeatRate = 19
  EmissionFactor = 202
  MaxAsks = 3
SPECIFICATION Spec
INVARIANT RehedgesOnSpreadChange
