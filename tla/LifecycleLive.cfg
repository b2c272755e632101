CONSTANTS
  Ops = {o1, o2}
  Boot = Boot
  Containers = {c1, c2}
  None = None
  Requests = {"start", "stop"}
  Faults = {"docker", "crash"}
  MaxCrashes = 1
SPECIFICATION FairSpec
PROPERTIES
  EveryRequestEnds
  BootEnds
CHECK_DEADLOCK FALSE
