SPECIFICATION Spec
CONSTANTS
  office = office
  Servers = {1, 2, 3}
  Routes = {1, 2}
  Profiles = {office}
  Worlds <- MCWorlds
  Start <- MCStart
  Kinds <- MCKinds
  Args <- MCArgs
  MaxCalls <- MCMaxCalls
  MaxEdits <- MCMaxEdits
  Chained <- MCChained
  Coalesced <- MCCoalesced
  Output <- MCOutput
  ChanCap = 1
  MaxTries = 1
INVARIANT RouteWasConfigured
INVARIANT NothingLeftOpen
 
INVARIANT TrustIsKept
CHECK_DEADLOCK FALSE
