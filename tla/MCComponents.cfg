CONSTANTS
  t1 = t1
  t2 = t2
  Threads = {t1, t2}
  NoThread = NoThread
  Observations <- MCObservations
  PriceScale = 36
  WindowSize = 3
  RecalcInterval = 1
  MaxObservations = 4
  MaxReads = 2
  MaxClock = 2
  c1 = c1
  c2 = c2
  r1 = r1
  Calculators = {c1, c2}
  Readers = {r1}
  MinPrices = 2
  WindowLength = 3
  FlatWindows = {3}
  ZScores <- MCZScores
  ZThreshold = 20
  HedgeStrength = 70
  MaxPrices = 5
  Weights <- MCWeights
  Quantities <- MCQuantities
  NoHedge = NoHedge
  MaxStrategies = 3
  TickParts = 3
  MaxTicks = 4
  MaxCount = 3
  Latencies = {0, 99, 100, 1000, 99999, 100000}
  Volumes <- MCVolumes
  MaxRecords = 4
SPECIFICATION ComponentsSpec
INVARIANTS ReadersSeeTheWindow DeviationNotOlder ReducedBothWays
  BetweenRecommendations OnlyABatchIsLost SummaryOfTheLatencies
PROPERTIES StoredRatioIsOfTheWindow NotDueMeansRecent CallsReturn WholeIffNothingLost
\* The runs end when their bounds are used up.
CHECK_DEADLOCK FALSE
