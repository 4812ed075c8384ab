CONSTANTS
  Start = 0
  Size = 64
  Requests <- PortRequests
SPECIFICATION Spec
INVARIANT HeldDisjoint
