SPECIFICATION Spec
CONSTANTS
  Requests = {q1}
  MaxServers = 2
  MaxEdits = 2
  Broken = {}
  StorePath <- MCStorePath
  Preloads = {1}
INVARIANT ShutdownStopsModels
CHECK_DEADLOCK FALSE
