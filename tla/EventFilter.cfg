CONSTANTS
  MaxEventCount = 3
  Reported = {e1, e2}
  LogBound = 7
SPECIFICATION FilterSpec
INVARIANTS RetainsNewest CursorAtFirstUnread
PROPERTIES ImplementsRecentEvents
