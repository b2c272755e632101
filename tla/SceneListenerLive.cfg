CONSTANTS
  Attempts = {a1, a2}
  Scenes = {x1}
  None = None
  Faults = {"events", "list", "secrets", "connect", "seed"}
  MaxEvents = 1
  MaxInbox = 1
SPECIFICATION FairSpec
PROPERTIES
  RunningIsWatched
  StoppedIsForgotten
