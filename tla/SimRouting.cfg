CONSTANTS
  c1 = c1
  c2 = c2
  Clients = {c1, c2}
  Loaders = {c1}
  TagMod = 4
  Values = {"v0", "v1"}
  Reset = "v0"
  RETRIES = 2
  MaxRequests = 1
  MaxFaults = 0
  Writes = {"v1"}
SPECIFICATION Spec
INVARIANT RelevantClient
CHECK_DEADLOCK FALSE
