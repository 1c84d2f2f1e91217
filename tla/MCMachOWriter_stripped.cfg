\* A stripped snapshot for macOS: no DWARF, no __eh_frame, an LC_LOAD_DYLIB.
\* Checks only that the symbol table written holds no local symbols.
CONSTANTS
  PageSize = 16384
  WordSize = 8
  ChunkSize = 4096
  Sizeof <- MCSizeof
  IdentifierLength = 6
  SystemDylibNameLength = 26
  NameLength <- MCNameLength
  Type = "Snapshot"
  Stripped = TRUE
  Path <- MCPath
  TargetMacOS = TRUE
  DwarfSizes <- MCDwarfSizes
  EhFrameSize <- MCEhFrameSize
  VmInstructions <- MCVmInstructions
  IsolateInstructions <- MCIsolateInstructions
  VmData <- MCVmData
  IsolateData <- MCIsolateData
  VmBss <- MCVmBss
  IsolateBss <- MCIsolateBss
  VmBssLabel = 5
  IsolateBssLabel = 6
  VmBssSize = 64
  IsolateBssSize = 512
  InitialCapacity = 4096
  BufferIncrement = 1024
  TextPortions <- MCTextPortions
  DataPortions <- MCDataPortions
SPECIFICATION Spec
INVARIANT StrippedTableHasNoLocals
CHECK_DEADLOCK FALSE
