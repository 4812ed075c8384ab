CONSTANTS
  NWorkers = 2
  Results = {"ok", "error", "fatal"}
  RunResults = {"ok", "advance", "advance_done", "done", "fatal", "errorString"}
  PortErrors = FALSE
  Callbacks = FALSE
  TransportFails = FALSE
  StopsContainer = FALSE
  NDEBUG = FALSE
  MaxCalls = 5
  MaxRuns = 2
SPECIFICATION LiveSpec
CHECK_DEADLOCK FALSE
INVARIANTS TypeOK LifeCycle EnabledIsOperating
PROPERTIES UnusableStays WaitReturns
