CONSTANTS
  Requests = {r1, r2}
  None = None
  Faults = {"node", "read", "secrets", "connect", "call", "viewer"}
  MaxKey = 2
  MaxCommands = 2
  MaxOrphans = 1
  Tokens = {t1}
  MaxFrames = 2
  Instances = {i1, i2}
  Nobody = Nobody
  MaxOutages = 2
SPECIFICATION FairSpec
INVARIANTS
  ServicesInv
  RevokedGetsNoSocket
  FramesWhole
PROPERTIES
  KeyNeverGoesBack
  RotationArrives
  BatchesDontInterleave
  EndsUnlessHung
  DroppedOnlyIdle
  DeadForGood
  QueuedIsResumed
