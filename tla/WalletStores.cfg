CONSTANTS
  Thread = {t1, t2}
  Generated = {g1}
  Imported = {i1, i2}
  Watched = {w1}
  Name = {n1}
  OpBound = 3
  CrashBound = 2
  FailBound = 1
  MinuteBound = 1
  Missing = Missing
  Torn = Torn
  Empty = Empty
SPECIFICATION Spec
INVARIANTS GeneratedKeyKept StoredKeysListed DiskMatchesMemory RemovedStaysGone NothingTwice
CHECK_DEADLOCK FALSE
