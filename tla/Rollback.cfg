CONSTANTS
  Releases = {10, 11}
  Deploys = {d1}
  Careful = TRUE
  DeployDuring = {}
  RollbackDuring = {"draining"}
  MaxRuns = 0
  MaxObjects = 0
  MaxWrites = 0
SPECIFICATION OperationsSpec
INVARIANT TrafficIsServed
CHECK_DEADLOCK FALSE
