CONSTANTS
  c1 = c1
  c2 = c2
  p1 = p1
  p2 = p2
  Process = {p1}
  Caller = {c1, c2, get}
  Home <- OneHome
  Reader = {get}
  Key = {k1, k2}
  Val = {v1, v2}
  None = None
  Unknown = Unknown
  Faults = {"keychain", "file_write", "crash"}
  MayBeGarbled = TRUE
SPECIFICATION Spec
INVARIANT TypeOK
INVARIANT OwnWritesRead
INVARIANT DeletedIsGone
INVARIANT PlaintextOnlyWithWarning
SYMMETRY Renamings
