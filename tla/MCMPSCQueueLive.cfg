CONSTANTS
  Capacity = 2
  Items = {a}
  Producers = {p1, p2}
  MaxPush = 4
  Uninit = Uninit
SPECIFICATION MpscFairSpec
PROPERTIES
  AllDelivered
