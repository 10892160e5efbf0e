CONSTANTS
  h1 = h1
  h2 = h2
  Hedgers = {h1, h2}
  Spreads <- MCSpreads
  TargetSpread = 500000
  Hours = {1}
  CapacityMw = 9999
  HeatRate = 19
  EmissionFactor = 202
  MaxAsks = 3
SPECIFICATION Spec
INVARIANTS TypeOK SoldOnce LegsCovered LegsBalanced
SYMMETRY HedgerSymmetry
\* The run ends when MaxAsks is used up.
CHECK_DEADLOCK FALSE
