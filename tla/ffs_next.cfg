SPECIFICATION Spec
CONSTANTS
  Images <- MCImages
  FileAt <- MCFileAt
  SectionAt <- MCSectionAt
  FvBase = 8
  HeaderLength = 60
  FvLength = 120
  Searches <- MCSearches
  FileTypes = {"PEIM"}
  SectionTypes = {"TE"}
  Stale = {0, 64}
  SizeBound = 33554432
  NULL = NULL
INVARIANTS
  NextFileFollows
