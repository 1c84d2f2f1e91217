CONSTANTS
  ChunkSize = 16
  PageSize = 64
  InitialCapacity = 24
  BufferIncrement = 8
  WriteLengths = {3, 20}
  Alignments = {8, 64}
  MaxFileSize = 100
SPECIFICATION Spec
INVARIANTS
  TypeOK
  HashCoverage
  HashCountLaw
CHECK_DEADLOCK FALSE
