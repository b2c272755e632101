CONSTANTS
  Ops = {o1, o2, o3}
  Boot = Boot
  Containers = {c1, c2, c3}
  None = None
  Requests = {"create", "start", "recover", "stop", "destroy"}
  Faults = {"s3", "key", "stream", "crash"}
  MaxCrashes = 1
SPECIFICATION Spec
SYMMETRY Symmetry
INVARIANTS
  NoDanglingProgress
  CreatingIsTransient
PROPERTIES
  BootRepairs
CHECK_DEADLOCK FALSE
