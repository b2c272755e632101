CONSTANTS
  Calls = {c1, c2, c3}
  Instances = {i1, i2}
  None = None
SPECIFICATION FairSpec
INVARIANTS
  ServedInOrder
  LockedTellsTheTruth
PROPERTIES
  ImplementsFifoLock
CHECK_DEADLOCK FALSE
