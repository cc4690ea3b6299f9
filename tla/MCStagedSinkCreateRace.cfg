SPECIFICATION Spec
CONSTANTS
  r1 = r1
  r2 = r2
  b1 = b1
  b2 = b2
  Other = Other
  Truncated = Truncated
  Runs <- TwoRuns
  Batches <- OneBatch
  Attempts <- OneAttempt
  MaxForeign = 0
  Recommits = 0
  FlakyStore = FALSE
PROPERTY CreateNeverReplaces
CHECK_DEADLOCK FALSE
