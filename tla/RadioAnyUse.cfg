SPECIFICATION FairSpec
CONSTANTS
  a = a  b = b
  Node = {a, b}
  Flow <- OneWay
  MaxMessages = 1
  MaxReplies = 2
  MaxRetries = 1
  MaxProtocols = 1
  CounterMod = 4
  MaxSeq = 3
  MaxDaemons = 2
INVARIANTS TypeOK AtMostOnce
PROPERTY VerdictComes
CHECK_DEADLOCK FALSE
