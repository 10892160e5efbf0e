CONSTANTS
  w = w
  v = v
  Writers = {w, v}
  Levels = {0, 10}
  MaxUpdates = 3
  MaxReads = 1
SPECIFICATION Spec
INVARIANTS TornByOneUpdate SequenceCovers SequenceCountsEarlier TimestampCovers BookAtRestIsWhole
SYMMETRY MCSymmetry
\* The run ends when both bounds are used up.
CHECK_DEADLOCK FALSE
