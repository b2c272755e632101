CONSTANTS
  Readers = {r1}
  Writes = {w1, w2}
  Requests = {q1}
  None = None
  Faults = {"fetch", "write", "lost"}
  MaxRows = 2
SPECIFICATION FairSpec
INVARIANTS
  CurrentUnlessOverlap
  ForgottenForGood
PROPERTIES
  StaleListIsReplaced
CHECK_DEADLOCK FALSE
