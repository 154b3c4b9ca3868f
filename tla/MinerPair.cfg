CONSTANTS
  Thread = {r1, r2}
  Block = {b1, b2}
  TaskBound = 3
  WorkBound = 2
  None = None
  Open = Open
SPECIFICATION Spec
INVARIANTS AcceptedOncePerWork OfferedTaskIsOpen DeliveredWasAccepted
