SPECIFICATION PartSpec
CONSTANTS
  a = a  b = b  c = c  d = d
  Null = Null
  Node = {a, b, c, d}
  Link <- Shortcut
  HopMod = 4
  TableSize = 2
  MaxEntries = 2
  Flow <- Ends4
INVARIANTS TypeOK RoutesLeadHome DataDescends HopsBounded
PROPERTIES RoutesMakeTrees Converges DataArrives
CHECK_DEADLOCK FALSE
