CONSTANTS
  NWorkers = 1
  Results = {"ok"}
  RunResults = {"ok", "done"}
  PortErrors = FALSE
  Callbacks = FALSE
  TransportFails = FALSE
  StopsContainer = TRUE
  NDEBUG = FALSE
  MaxCalls = 5
  MaxRuns = 2
SPECIFICATION LiveSpec
CHECK_DEADLOCK FALSE
PROPERTY WaitReturns
