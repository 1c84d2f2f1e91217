CONSTANTS
  MaxLen = 5
  Unset = Unset
  Garbage = Garbage
  Null = Null
SPECIFICATION Spec
INVARIANTS
  TypeOK
  WritesInBounds
  TokensInOrder
\* Cleanup is the last thing the process does: behaviours end in pc = "done".
CHECK_DEADLOCK FALSE
