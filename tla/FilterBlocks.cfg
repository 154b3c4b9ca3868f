CONSTANTS
  MaxEventCount = 2
  Client = {c1, c2}
  Tx = {}
  ReceiptLimit = 1
  BlockBound = 2
  PendingBound = 0
  FilterBound = 2
  None = None
  Request <- BlockRequests
SPECIFICATION Spec
SYMMETRY ClientsAlike
INVARIANTS ExactDelivery AnswersInOrder
