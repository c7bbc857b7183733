SPECIFICATION Spec
CONSTANTS
  Ids = {i1}
  Calls = {1, 2, 3}
  Worlds <- MCWorlds
  Generated = {"generated"}
  MaxFaults = 1
INVARIANT SuccessIsTruthful
CHECK_DEADLOCK FALSE
