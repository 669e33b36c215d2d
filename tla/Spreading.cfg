SPECIFICATION Spec
CONSTANTS
  a = a  b = b  c = c  d = d
  All = All
  Null = Null
  Small = {a, b, c}
  Large = {a, b, c, d}
  floodLink <- Line
  floodFlow <- AtoAll
  floodTable = 2
  floodMod = 8
  floodResetting = {a}
  floodSends <- Paced
  floodHasty <- Hasty
  treeLink <- Ring
  treeSink = a
  treeSource = {c}
  treeAnswering = {b}
  treeMod = 4
  treeFloods = 2
  echoSetups <- ThreeSetups
  echoNodes = 1
  echoTimeout = 2
  echoChains = 2
  clusterLink <- Line4
  clusterHeads <- Ends
  clusterMod = 2
  clusterMembers = 2
  searchRoot = a
  depthNetworks <- Shapes
  breadthNetworks <- ShapesAndNone
  breadthMod = 8
  castTrees <- ThreeTrees
  castId = {1, 2}
  castBuffer = 3
INVARIANTS TypesOK HandedOnce ParentsLeadHome SearchesMakeTrees NeighborsKnown
PROPERTIES AllReached AllEnd NeighborsSettle
CHECK_DEADLOCK FALSE
