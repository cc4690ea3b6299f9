SPECIFICATION Spec
CONSTANTS
  c1 = c1
  Other = Other
  Calls <- OneCall
  MaxShards = 1
  MaxForeign = 2
  FlakyStore = FALSE
INVARIANT AppendReusesFieldIds
CHECK_DEADLOCK FALSE
