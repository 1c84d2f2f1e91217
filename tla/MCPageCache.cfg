CONSTANTS
  Mem = {m1, m2, m3, m4}
  PageSize <- MCPageSize
  LargeSizes <- MCLargeSizes
  Capacity <- MCCapacity
  SemiMaxPages <- MCSemiMaxPages
  Thresholds <- MCThresholds
  FlagChoices <- MCFlagChoices
  WriteProtectCode = TRUE
SPECIFICATION Spec
INVARIANTS
  TypeOK
  NoSharedMemory
PROPERTIES
  AllocationFits
  ImplementsAllocator
