CONSTANTS
  a1 = a1
  outsider = outsider
  leaving = leaving
  inside = inside
  Address = {a1}
  Tx = {leaving, inside}
  Sender <- Senders
  Receiver <- Receivers
  Client = {c1}
  Removable = {a1}
  ChangeBound = 1
  Nothing = Nothing
SPECIFICATION FairSpec
INVARIANTS PendingSound
PROPERTIES PageConverges
