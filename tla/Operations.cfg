CONSTANTS
  Releases = {1, 2, 3, 4, 5, 6, 7, 8, 9, 10, 11, 12, 13, 14}
  Deploys = {d1, d2}
  Careful = TRUE
  DeployDuring = {}
  RollbackDuring = {}
  MaxRuns = 4
  MaxObjects = 2
  MaxWrites = 2
SPECIFICATION OperationsSpec
INVARIANTS OperationsTypeOK TrafficIsServed DowngradeRestores SuccessMeansStored WholeWhileServed
CHECK_DEADLOCK FALSE
