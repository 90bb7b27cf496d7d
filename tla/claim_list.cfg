CONSTANTS
  c1 = c1
  c2 = c2
  p1 = p1
  p2 = p2
  Process = {p1}
  Caller = {c1, c2}
  Home <- OneHome
  Reader = {}
  Key = {k1}
  Val = {v1}
  None = None
  Unknown = Unknown
  Faults = {}
  MayBeGarbled = FALSE
SPECIFICATION Spec
INVARIANT ListFindsStored
