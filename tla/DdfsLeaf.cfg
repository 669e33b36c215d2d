SPECIFICATION Spec
CONSTANTS
  a = a  b = b  c = c  d = d
  Null = Null
  Node = {a, b, c, d}
  Root = a
  Networks <- TriangleAndLeaf
INVARIANT FirstTime
CHECK_DEADLOCK FALSE
