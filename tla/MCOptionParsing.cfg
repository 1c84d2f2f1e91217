CONSTANTS
  Args <- MCArgs
  Info <- MCInfo
  MaxArgs = 3
  Null = Null
  Undecided = Undecided
  Exit = Exit
SPECIFICATION Spec
INVARIANTS
  TypeOK
  OneOutcome
  DartDevArguments
  VmServiceRequested
  ScriptRunOptionsConsistent
\* ParseArguments returns: every behaviour ends in pc = "done".
CHECK_DEADLOCK FALSE
