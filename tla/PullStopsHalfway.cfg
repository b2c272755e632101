CONSTANTS
  Config = {c1}
  Media = {}
  Template = {c1}
  Data = {plain, d1}
  Plain = plain
  Nothing = Nothing
  PushAttempts = 2
  Faults = {}
  Halfway = {"pull"}
SPECIFICATION HalfwaySpec
INVARIANT NoLostEdit
