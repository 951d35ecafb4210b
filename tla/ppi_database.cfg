SPECIFICATION FairSpec
CONSTANTS
  Desc <- MCDesc
  Lists <- MCLists
  Guids = {"g1", "g2"}
  MaxInstance = 2
  MaxCount = 3
  MaxPasses <- MCMaxPasses
  BootFixup = 7
  NULL = NULL
INVARIANTS
  TypeOK
  Relocated
  LocateExact
  DeadLoopComplete
PROPERTIES
  DispatchComplete
  ImplementsRegistry
  StatusTruthful
CHECK_DEADLOCK FALSE
