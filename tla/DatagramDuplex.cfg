CONSTANTS
  a = a
  b = b
  Node = {a, b}
  Peer <- MCPeer
  Msgs <- Duplex
  MsgsPerFrame = 2
  NFrames = 5
  SeqMod = 10
  History = 4
  Serial = TRUE
  EarlyTimeout = FALSE
  StaleSendTime = FALSE
  MaxDup = 0
  LongLived = FALSE
  FramesInPlay = {2}
  MaxSeq = 20
  MaxSends = 9
  MaxLost = 1
SPECIFICATION LiveSpec
CHECK_DEADLOCK FALSE
INVARIANTS TypeOK ReleasedWasReceived FlagAfterData CompleteWasDelivered NoAbort
PROPERTIES AllComplete ImplementsService
