SPECIFICATION Spec
CONSTANTS
  Unknown = Unknown
  Declined = Declined
  MaxStack = 2
INVARIANT TypesNeverDecline
CHECK_DEADLOCK FALSE
