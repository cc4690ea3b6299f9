SPECIFICATION KeyedSpec
CONSTANTS
  r1 = r1
  r2 = r2
  b1 = b1
  b2 = b2
  k1 = k1
  k2 = k2
  Other = Other
  Truncated = Truncated
  Runs <- OneRun
  Batches <- TwoBatches
  Attempts <- TwoAttempts
  Keys <- TwoKeys
  Namings <- BothNamings
  Nested <- NoKeys
  MaxForeign = 1
  Recommits = 1
  FlakyStore = FALSE
INVARIANTS
  FirstPublicationIsWhole
  CreatePublishesOnce
CHECK_DEADLOCK FALSE
