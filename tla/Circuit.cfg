CONSTANTS
  near = near
  far = far
  NOut = 2
  NIn = 3
  Inputs = {near, far}
  Local = {near}
  MaxSends = 6
SPECIFICATION FairSpec
INVARIANTS TypeOK InOrder WriterAlone NoOverrun OneTemplate
PROPERTIES HeldIntact AllDelivered BufferReturns ImplementsChannel
CHECK_DEADLOCK FALSE
