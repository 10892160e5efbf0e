CONSTANTS
  f1 = f1
  f2 = f2
  h1 = h1
  Feeds = {f1, f2}
  Hedgers = {h1}
  MaxTicks = 3
  MaxAsks = 1
SPECIFICATION Spec
INVARIANTS ObservationsFollowTheTicks RecommendationsArePriced TicksProcessedOnce
SYMMETRY FeedSymmetry
\* The run ends when both bounds are used up.
CHECK_DEADLOCK FALSE
