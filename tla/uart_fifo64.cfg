SPECIFICATION Spec
CONSTANTS
  Configs <- MCExtended
  FifoDepth = 2
  ExtendedDepth = 4
  MaxBytes = 3
  MaxTotal = 5
INVARIANTS
  NothingLost
