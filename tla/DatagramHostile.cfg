CONSTANTS
  a = a
  b = b
  Node = {a, b}
  Peer <- MCPeer
  Msgs <- OneWay
  MsgsPerFrame = 1
  NFrames = 2
  SeqMod = 8
  History = 4
  Serial = TRUE
  EarlyTimeout = TRUE
  StaleSendTime = TRUE
  MaxDup = 1
  LongLived = FALSE
  FramesInPlay = {0}
  MaxSeq = 4
  MaxSends = 2
  MaxLost = 0
SPECIFICATION Spec
CHECK_DEADLOCK FALSE
INVARIANTS AtMostOnce CountedOnce RingHolds
