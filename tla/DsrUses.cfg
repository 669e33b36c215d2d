SPECIFICATION UseSpec
CONSTANTS
  a = a  b = b  c = c
  Node = {a, b, c}
  Link <- Ring
  Flow <- AtoBC
  TableSize = 3
  PathSize = 6
  ByteMod = 8
  Restarting = {}
  Duplicates = FALSE
  MaxSends = 2
INVARIANTS TypesOK RoutesAreWalksEver OrderlyDelivery
PROPERTY OrderlySendsEnd
CHECK_DEADLOCK FALSE
