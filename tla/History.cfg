CONSTANTS
  HashRateLimit = 3
  ClientLimit = 2
  StoredBest = 2
  BlockBound = 8
SPECIFICATION Spec
INVARIANTS NewestWithinLimits HealsAfterStart
CHECK_DEADLOCK FALSE
