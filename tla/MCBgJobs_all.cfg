SPECIFICATION JobsSpec
CONSTANTS
  m1 = m1
  m2 = m2
  c1 = c1
  McpJobs <- OneMcpJob
  CliJobs <- OneCliJob
  MaxLines = 1
  BusyWrites <- OneCliJob
  Signals = TRUE
  Crashes = TRUE
INVARIANTS
  FinalRowsHaveNoWriter
  FollowerSawEverything
  DoneMeansRan
  ExitSettlesRow
PROPERTIES
  FinalRowsStay
  PurgeSparesUnfinished
  ImplementsTable
