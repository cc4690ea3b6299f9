SPECIFICATION FairSpec
CONSTANTS
  c1 = c1
  Other = Other
  Calls <- OneCall
  MaxShards = 3
  MaxForeign = 2
  FlakyStore = FALSE
INVARIANTS
  TypeOK
  NoWriterOutlivesItsCall
PROPERTIES
  PublishesAtomically
  EveryCallEnds
CHECK_DEADLOCK FALSE
