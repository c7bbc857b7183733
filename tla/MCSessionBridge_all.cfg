SPECIFICATION Spec
CONSTANTS
  Ids = {i1}
  Calls = {1, 2, 3}
  Worlds <- MCWorlds
  Generated = {"generated"}
  MaxFaults = 1
INVARIANT OneCommandAtATime
INVARIANT ServesUntilStopped
PROPERTY CallsReturn
CHECK_DEADLOCK FALSE
