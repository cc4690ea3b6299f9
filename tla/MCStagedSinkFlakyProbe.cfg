SPECIFICATION Spec
CONSTANTS
  r1 = r1
  r2 = r2
  b1 = b1
  b2 = b2
  Other = Other
  Truncated = Truncated
  Runs <- OneRun
  Batches <- OneBatch
  Attempts <- OneAttempt
  MaxForeign = 1
  Recommits = 0
  FlakyStore = TRUE
PROPERTY ProbeFailureCostsOnlyTheMessage
CHECK_DEADLOCK FALSE
