CONSTANTS
  Ops = {o1, o2}
  Boot = Boot
  Containers = {c1, c2, c3, c4}
  None = None
  Requests = {"create", "start"}
  Faults = {}
  MaxCrashes = 0
SPECIFICATION Spec
SYMMETRY Symmetry
INVARIANTS
  CreateNeverMarksLiveError
CHECK_DEADLOCK FALSE
