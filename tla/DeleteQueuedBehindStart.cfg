CONSTANTS
  Ops = {o1, o2}
  Boot = Boot
  Containers = {c1, c2, c3}
  None = None
  Requests = {"start", "destroy"}
  Faults = {}
  MaxCrashes = 0
SPECIFICATION Spec
SYMMETRY Symmetry
INVARIANTS
  NoRowNoContainer
CHECK_DEADLOCK FALSE
