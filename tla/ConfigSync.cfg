CONSTANTS
  Config = {c1}
  Media = {m1, m2}
  Template = {c1}
  Data = {plain, d1}
  Plain = plain
  Nothing = Nothing
  PushAttempts = 2
  Faults = {"put", "delete", "crash"}
SPECIFICATION Spec
SYMMETRY Symmetry
INVARIANTS
  NoLostEdit
  DeletedStaysAway
  IInv
PROPERTIES
  StartsWithOwnFiles
  ProfileIsPlanOwned
