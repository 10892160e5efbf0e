CONSTANTS
  Capacity = 4
  Items = {a, b}
  Producers = {p1}
  MaxPush = 6
  Uninit = Uninit
SPECIFICATION Spec
INVARIANTS
  NoDataRace
  SlotsOwned
  DropReleasesAll
  ChecksStable
  LenBrackets
PROPERTIES
  ImplementsFifo
\* The program ends when the queue has been dropped.
CHECK_DEADLOCK FALSE
