CONSTANTS
  c1 = c1
  c2 = c2
  Clients = {c1}
  Loaders = {c1}
  TagMod = 4
  Values = {"v0", "v1"}
  Reset = "v0"
  RETRIES = 2
  MaxRequests = 4
  MaxFaults = 1
  Writes = {"v0", "v1"}
SPECIFICATION FairSpec
INVARIANTS CommandOnce RequesterKnown RunAnswered
PROPERTIES AnswersRequest ReadsOwnWrites CallsEnd
CHECK_DEADLOCK FALSE
