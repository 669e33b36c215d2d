SPECIFICATION Spec
CONSTANTS
  r = r  a = a  d = d
  Self = r
  Neighbour = {a}
  Dest = {d}
  LinkLocal = {}
  Packets <- ThreeThenFour
  FragLen = 2
  TagMod = 4
  PoolSize = 2
  TableSize = 1
  SendFails = TRUE
  MaxOwn = 0
  MaxTimeouts = 2
  None = None
PROPERTY CancelledWhenOld
CHECK_DEADLOCK FALSE
