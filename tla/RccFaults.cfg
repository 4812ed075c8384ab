CONSTANTS
  NWorkers = 2
  Results = {"ok", "fatal"}
  RunResults = {"ok", "advance", "done", "fatal"}
  PortErrors = TRUE
  Callbacks = TRUE
  TransportFails = TRUE
  StopsContainer = TRUE
  NDEBUG = FALSE
  MaxCalls = 4
  MaxRuns = 1
SPECIFICATION LiveSpec
CHECK_DEADLOCK FALSE
INVARIANTS ReleasedIsGone DestroyedAlone
PROPERTY CallsReturn
