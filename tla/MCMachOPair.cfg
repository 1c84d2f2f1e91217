\* A stripped snapshot and its debugging information, fed the same
\* portions, for a non-macOS target (both have __eh_frame).
CONSTANTS
  PageSize = 16384
  WordSize = 8
  ChunkSize = 4096
  Sizeof <- MCSizeof
  IdentifierLength = 6
  SystemDylibNameLength = 26
  NameLength <- MCNameLength
  SnapshotStripped = TRUE
  Labels <- MCLabels
  BuildIdLabel = 8
  Path <- MCPath
  TargetMacOS = FALSE
  DwarfSizes <- MCDwarfSizes
  EhFrameSize <- MCEhFrameSize
  VmInstructions <- MCVmInstructions
  IsolateInstructions <- MCIsolateInstructions
  VmData <- MCVmData
  IsolateData <- MCIsolateData
  VmBss <- MCVmBss
  IsolateBss <- MCIsolateBss
  VmBssLabel = 5
  IsolateBssLabel = 6
  VmBssSize = 64
  IsolateBssSize = 512
  InitialCapacity = 4096
  BufferIncrement = 1024
  TextPortions <- MCTextPortions
  DataPortions <- MCDataPortions
SPECIFICATION Spec
INVARIANTS CrossArtifactConsistency DebugInfoLayout
CHECK_DEADLOCK FALSE
