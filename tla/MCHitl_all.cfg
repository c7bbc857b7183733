SPECIFICATION FairSpec
CONSTANTS
  m = m
  c = c
  server = server
  global = global
  Requests <- OnlyM
  Processes <- Apart
  Scopes <- TwoScopes
  ScopesOf <- LooksAtTwo
  Timeout = 2
  MaxTrust = 2
  Crashes = TRUE
INVARIANTS
  PendingIsTrue
  OutcomeIsAnAnswer
  NoWindowOutlivesRevoke
PROPERTIES
  StandingWindowSpares
  RequestsEnd
CHECK_DEADLOCK FALSE
