CONSTANTS
  MaxLen = 5
  Unset = Unset
  Garbage = Garbage
  Null = Null
SPECIFICATION Spec
INVARIANTS
  EnvArgvInitialised
\* Cleanup is the last thing the process does: behaviours end in pc = "done".
CHECK_DEADLOCK FALSE
