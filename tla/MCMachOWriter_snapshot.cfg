\* An unstripped snapshot for a non-macOS target: DWARF, __eh_frame, a
\* dynamic symbol table and a code signature.
CONSTANTS
  PageSize = 16384
  WordSize = 8
  ChunkSize = 4096
  Sizeof <- MCSizeof
  IdentifierLength = 6
  SystemDylibNameLength = 26
  NameLength <- MCNameLength
  Type = "Snapshot"
  Stripped = FALSE
  Path <- MCPath
  TargetMacOS = FALSE
  DwarfSizes <- MCDwarfSizes
  EhFrameSize <- MCEhFrameSize
  VmInstructions <- MCVmInstructions
  IsolateInstructions <- MCIsolateInstructions
  VmData <- MCVmData
  IsolateData <- MCIsolateData
  VmBss <- MCVmBss
  IsolateBss <- MCIsolateBss
  VmBssLabel = 5
  IsolateBssLabel = 6
  VmBssSize = 64
  IsolateBssSize = 512
  InitialCapacity = 4096
  BufferIncrement = 1024
  TextPortions <- MCTextPortions
  DataPortions <- MCDataPortions
SPECIFICATION Spec
INVARIANTS TypeOK LayoutTiling LabelResolution WriteMatchesLayout SignatureSealsFile DynamicSymbolRanges AppBuildIdReadable
CHECK_DEADLOCK FALSE
