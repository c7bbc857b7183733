SPECIFICATION Spec
CONSTANTS
  a = a
  b = b
  d = d
  Open = Open
  Intr = Intr
  Calls <- ThreeCalls
  Output <- Pages
  Errors <- WarningOfB
  Code <- Failing
  Exiters <- OnlyD
  Readers <- OnlyD
  Cap = 7
  OutCap = 5
  Noise = 1
  Concurrent = FALSE
  Timeouts = TRUE
  Splits = FALSE
INVARIANTS
  OwnCode
  OwnLinesInOrder
  NothingElseLost
CHECK_DEADLOCK FALSE
