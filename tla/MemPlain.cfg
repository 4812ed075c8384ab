CONSTANTS
  Start = 0
  Size = 9
  Requests <- PlainRequests
SPECIFICATION Spec
INVARIANTS TypeOK HeldDisjoint Partition UsedIsAllocated NothingLost DefragIsLoop
PROPERTY ImplementsPool
