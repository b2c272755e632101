CONSTANTS
  Attempts = {a1, a2}
  Scenes = {x1, x2}
  None = None
  Faults = {"events", "list", "secrets", "connect", "seed", "drain"}
  MaxEvents = 1
  MaxInbox = 2
SPECIFICATION Spec
SYMMETRY Symmetry
INVARIANTS
  ListenersOfSession
  NoSocketLeft
  AnnouncedIsTrue
  IInv
