CONSTANTS
  TickParts = 3
  MaxTicks = 3
  MaxCount = 1
SPECIFICATION FeedSpec
INVARIANT TicksWereSent
