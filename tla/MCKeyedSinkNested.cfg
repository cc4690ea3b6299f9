SPECIFICATION KeyedSpec
CONSTANTS
  r1 = r1
  r2 = r2
  b1 = b1
  b2 = b2
  k1 = k1
  k2 = k2
  Other = Other
  Truncated = Truncated
  Runs <- OneRun
  Batches <- TwoBatches
  Attempts <- OneAttempt
  Keys <- TwoKeys
  Namings <- OnlyOwnKeys
  Nested <- OneKey
  MaxForeign = 0
  Recommits = 0
  FlakyStore = FALSE
INVARIANT EveryStagedFragmentIsCommitted
CHECK_DEADLOCK FALSE
