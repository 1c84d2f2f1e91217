CONSTANTS
  Tasks = {t1, t2}
  BitsPerWord <- MCBitsPerWord
  SlotsPerCard <- MCSlotsPerCard
  CardTableSize <- MCCardTableSize
  ObjFrom <- MCObjFrom
  Lengths <- MCLengths
SPECIFICATION Spec
INVARIANTS
  TypeOK
  CardsVisitedOnce
  FinalCards
PROPERTIES
  Termination
CHECK_DEADLOCK FALSE
