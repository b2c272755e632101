CONSTANTS
  Ops = {o1, o2}
  Boot = Boot
  Containers = {c1, c2, c3}
  None = None
  Requests = {"start", "recover", "stop", "sweep", "destroy"}
  Faults = {"s3", "key", "disk", "rest", "stream", "race"}
  MaxCrashes = 0
SPECIFICATION Spec
SYMMETRY Symmetry
INVARIANTS
  LifecycleInv
  SuppressionExact
  ConfigNotRewrittenLive
  StopMeansStopped
  NeverMarkLiveError
  NoOrphan
  FinalPushOnlyWhenStopped
PROPERTIES
  LetsGoOfTheDead
CHECK_DEADLOCK FALSE
