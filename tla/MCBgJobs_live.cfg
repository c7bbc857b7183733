SPECIFICATION JobsFairSpec
CONSTANTS
  m1 = m1
  m2 = m2
  c1 = c1
  McpJobs <- OneMcpJob
  CliJobs <- OneCliJob
  MaxLines = 1
  BusyWrites <- NoJobs
  Signals = FALSE
  Crashes = FALSE
PROPERTIES
  FollowersStop
  JobsSettle
