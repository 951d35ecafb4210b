SPECIFICATION FairSpec
CONSTANTS
  Configs <- MCConfigs
  FifoDepth = 2
  ExtendedDepth = 4
  MaxBytes = 3
  MaxTotal = 4
INVARIANTS
  TypeOK
  NothingLost
  AtMostOneLate
  OneOverrun
  BaudNearest
PROPERTIES
  WriteEnds
  ReadEnds
