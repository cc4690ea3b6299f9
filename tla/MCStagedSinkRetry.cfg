SPECIFICATION FairSpec
CONSTANTS
  r1 = r1
  r2 = r2
  b1 = b1
  b2 = b2
  Other = Other
  Truncated = Truncated
  Runs <- OneRun
  Batches <- TwoBatches
  Attempts <- TwoAttempts
  MaxForeign = 2
  Recommits = 1
  FlakyStore = TRUE
INVARIANTS
  TypeOK
  NoDanglingFragment
  WholeRunsOnce
PROPERTIES
  StagingKeptUntilPublished
  PublishesAtomically
  EveryRunEnds
CHECK_DEADLOCK FALSE
