SPECIFICATION PartSpec
CONSTANTS
  a = a  b = b  c = c  x = x  y = y  z = z
  None = None
  All = All
  Node = {a, b, c}
  Flow <- TwoSenders
  MaxMessages = 1
  MaxReplies = 1
  MaxRetries = 1
  MaxProtocols = 1
  CounterMod = 4
  MaxSeq = 1
  MaxDaemons = 1
  connFlow <- FromA
  connBroadcasting = {c}
  connPending = 1
  connRecv = 1
  connConnections = 1
  connSeqMod = 3
  connTimeMod = 7
  connPeriod = 3
  connSends = 3
  stackSelf = c
  stackNeighbour = {a, b}
  stackDest = {x, y, z}
  stackLinkLocal = {z}
  stackPackets <- ToC
  stackFragLen = 2
  stackTags = 4
  stackPool = 2
  stackTable = 1
  stackOwn = 1
  stackTimeouts = 2
  coapSetups <- ThreeServices
  coapCalls = 1
  coapRetransmit = 1
  coapFaults = 1
  coapReceived = 8
  packSends <- Packed
  packBuffer = 5
  packTimers = {{}, {a, c}}
INVARIANTS TypesOK AckMeansHeard AgainOnlyIfOvertaken DroppedOnlyIfHeard PacketsIntact
PROPERTIES AllSettled DeliverySpec CallSpec
CHECK_DEADLOCK FALSE
