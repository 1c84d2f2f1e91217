CONSTANTS
  IntBits = 8
  Int32Bits = 4
  SmiBits = 6
  DoublePrecision = 5
  Null = Null
  NonInteger = NonInteger
  Pending = Pending
  Queries <- MCQueries
SPECIFICATION Spec
INVARIANTS
  TypeOK
  FoldingCorrect
  ToIntegerComplete
CHECK_DEADLOCK FALSE
