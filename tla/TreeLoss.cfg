SPECIFICATION LossSpec
CONSTANTS
  a = a  b = b  c = c
  Null = Null
  Node = {a, b, c}
  Link <- Line3
  INF = 4
  Source = {}
PROPERTY ReconnectsAfterLoss
CHECK_DEADLOCK FALSE
