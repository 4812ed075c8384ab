CONSTANTS
  c1 = c1
  c2 = c2
  Clients = {c1}
  Loaders = {c1}
  TagMod = 3
  Values = {"v0", "v1"}
  Reset = "v0"
  RETRIES = 2
  MaxRequests = 5
  MaxFaults = 0
  Writes = {"v1"}
SPECIFICATION Spec
CHECK_DEADLOCK FALSE
PROPERTY AnsweredIsExecuted
