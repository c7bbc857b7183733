SPECIFICATION Spec
CONSTANTS
  Worlds <- MCWorlds
  MaxCalls <- MCMaxCalls
  Overlap <- MCOverlap
  Asked <- MCAsked
  MaxConns = 3
  HistoryMax = 1
INVARIANT CommandRunsOnce
INVARIANT ConnectionsAreOwned
INVARIANT StoredSessionsWork
CHECK_DEADLOCK FALSE
