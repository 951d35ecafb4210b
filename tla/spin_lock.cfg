SPECIFICATION FairSpec
CONSTANTS
  Cpus = {c1, c2, c3}
  PcdSpinLockTimeout = 3
  Frequency = 1000000
  StartVal = 2
  EndVal = 0
  Half = 4
  Ordered = TRUE
  MaxStores = 1
  MaxWait = 4
INVARIANTS
  TypeOK
  MutualExclusion
  HandedOver
  TimeoutNeverEarly
  TimeoutNotLate
PROPERTIES
  SomeoneAcquires
