SPECIFICATION OneSpec
CONSTANTS
  None = None
  NumRows = 3
  MaxLimit = 3
  MaxFaults = 1
  Tag = Tag
  MaxVersions = 3
  MaxFragments = 3
  MaxCollects = 3
  a = a
  b = b
  index = index
  distance = distance
  rowid = rowid
  Stored <- StoredColumns
  Generated <- GeneratedColumns
  Virtual <- VirtualColumns
  Calls = {c1, c2}
  Batches = 2
  MaxRuns = 2
  Other = Other
  MaxForeign = 1
INVARIANTS
  TypeOK
  RefusalIsSurvived
  PrefilterNeverWidened
  FramesAreTheProjection
  EveryColumnIsFound
  ShardsMakeUpOneVersion
  PinnedCollectionsAgree
  ShardsStayEven
  WholeResultsOnly
PROPERTY DeliversTheAnswer
CHECK_DEADLOCK FALSE
