CONSTANTS
  Thread = {t1, t2}
  Address = {a1, a2}
  Password = {p1, p2}
  NoKey = NoKey
  LockForm = {"plain", "0x"}
SPECIFICATION Spec
INVARIANT LockHolds
