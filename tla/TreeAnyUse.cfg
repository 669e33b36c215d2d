SPECIFICATION Spec
CONSTANTS
  a = a  b = b  c = c
  Null = Null
  Node = {a, b, c}
  Link <- Triangle
  INF = 4
  Source = {b, c}
INVARIANTS TypeOK NoParentCycle DataDescends
PROPERTY TreeSpec
