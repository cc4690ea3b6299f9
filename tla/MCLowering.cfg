SPECIFICATION OneSpec
CONSTANTS
  Rows <- MCRows
  NoSql = NoSql
  MaxPending = 3
  Null = Null
  Declined = Declined
  Inf = 2
  Invalid = Invalid
  MaxInt = 7
  Failed = Failed
  Pending = Pending
  NoNumber = NoNumber
  Garbled = Garbled
  Respelt = Respelt
  MaxStack = 2
  Raised = Raised
  MaxLength = 3
  MaxTypes = 2
  Unknown = Unknown
INVARIANTS
  TypeOK
  LoweringSound
  TranslatableIsExact
  ResultKeepsTheRows
  SqlIsValid
  LeafIsExact
  DivisionIsExact
  KnowledgeOfTypes
  KnowledgeOfNans
  ValueIsExact
  TextIsExact
  
  NeverDeclinesForItsTypes
CHECK_DEADLOCK FALSE
