CONSTANTS
  Block <- Blocks
  Number <- Numbers
  Parent <- Parents
  Difficulty <- Difficulties
  ImportOrder <- Order
  MAX_BLOCK_COUNT = 3
  PendingLimit = 3
  MaxRequests = 2
SPECIFICATION FairSpec
INVARIANTS ChartSound ChainsShown
PROPERTIES BlocksDrawn
CHECK_DEADLOCK FALSE
