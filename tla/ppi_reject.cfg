SPECIFICATION Spec
CONSTANTS
  Desc <- MCDesc
  Lists <- MCLists
  Guids = {"g1", "g2"}
  MaxInstance = 2
  MaxCount = 3
  MaxPasses <- MCMaxPasses
  BootFixup = 7
  NULL = NULL
INVARIANTS
  RejectedUntouched
CHECK_DEADLOCK FALSE
