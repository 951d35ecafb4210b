SPECIFICATION Spec
CONSTANTS
  Cpus = {c1, c2}
  PcdSpinLockTimeout = 5
  Frequency = 1000000
  StartVal = 3
  EndVal = 1
  Half = 4
  Ordered = FALSE
  MaxStores = 2
  MaxWait = 7
INVARIANT
  HandedOver
