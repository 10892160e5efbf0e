CONSTANTS
  Capacity = 4
  Items = {a, b}
  Producers = {p1, p2, p3}
  MaxPush = 5
  Uninit = Uninit
SPECIFICATION MpscSpec
INVARIANTS
  MutualExclusion
  NoDataRace
  FifoDelivery
SYMMETRY ProducerSymmetry
\* The program ends when the queue has been dropped.
CHECK_DEADLOCK FALSE
