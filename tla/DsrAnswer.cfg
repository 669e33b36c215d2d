SPECIFICATION Spec
CONSTANTS
  a = a  b = b  c = c
  Node = {a, b, c}
  Link <- Line3
  Flow <- EndToEnd
  TableSize = 4
  PathSize = 4
  ByteMod = 5
  Restarting = {}
  Duplicates = FALSE
  MaxSends = 1
INVARIANT EntryHoldsPath
CHECK_DEADLOCK FALSE
