SPECIFICATION Spec
CONSTANTS
  a = a  b = b  c = c  x = x  y = y  z = z
  Node = {a, b, c}
  Flow <- BothToC
  Orderly <- FromA
  Length <- Lengths
  MaxWhole = 2
  FragLen = 2
  MaxFragments = 3
  MaxSlots = 2
  MaxProtocols = 1
  Id = {x, y, z}
  MaxSent <- TwoAndOne
  Wavering = {c}
INVARIANTS TypeOK AllOfOne Intact
CHECK_DEADLOCK FALSE
SYMMETRY AnyId
