SPECIFICATION UseSpec
CONSTANTS
  a = a  b = b  c = c  d = d
  Null = Null
  Node = {a, b, c, d}
  Link <- Chord
  INF = 4
  Source = {}
INVARIANT NeverTooClose
PROPERTIES Converges DataReachesGateway
CHECK_DEADLOCK FALSE
