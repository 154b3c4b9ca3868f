CONSTANTS
  MaxEventCount = 3
  Client = {c1}
  Tx = {t1, t2}
  ReceiptLimit = 1
  BlockBound = 1
  PendingBound = 3
  FilterBound = 1
  None = None
  Request <- PendingRequests
SPECIFICATION FairSpec
INVARIANTS ReceiptsTracked
PROPERTIES EveryBlockDispatched
