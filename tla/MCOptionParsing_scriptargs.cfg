CONSTANTS
  Args <- MCSmallArgs
  Info <- MCSmallInfo
  MaxArgs = 3
  Null = Null
  Undecided = Undecided
  Exit = Exit
SPECIFICATION Spec
INVARIANTS
  ScriptArgumentsPassedThrough
\* ParseArguments returns: every behaviour ends in pc = "done".
CHECK_DEADLOCK FALSE
