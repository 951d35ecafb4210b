SPECIFICATION FairSpec
CONSTANTS
  Images <- MCImages
  FileAt <- MCFileAt
  SectionAt <- MCSectionAt
  BootHeader <- MCBootHeader
  AprioriName <- MCAprioriName
  PeHeader <- MCPeHeader
  Displacement <- MCDisplacement
  BootFvBase = 8
  BootHeaderLength = 60
  BootFvLength = 192
  DxeFvBase = 208
  DxeHeaderLength = 60
  DxeFvLength = 104
  TemporaryRamBase = 512
  TemporaryRamSize = 65
  SizeBound = 2048
  MaxCount = 1
  NULL = NULL
CHECK_DEADLOCK FALSE
INVARIANTS
  TypeOK
  RunsSound
  NeverAstray
  StopExplained
PROPERTIES
  ImplementsStages
  BootStops
  BootAdvances
