CONSTANTS
  a = a
  b = b
  Node = {a, b}
  Peer <- MCPeer
  Msgs <- Pipelined
  MsgsPerFrame = 1
  NFrames = 8
  SeqMod = 16
  History = 4
  Serial = FALSE
  EarlyTimeout = FALSE
  StaleSendTime = FALSE
  MaxDup = 0
  LongLived = FALSE
  FramesInPlay = {0}
  MaxSeq = 8
  MaxSends = 2
  MaxLost = 1
SPECIFICATION Spec
CHECK_DEADLOCK FALSE
INVARIANT FlagAfterData
