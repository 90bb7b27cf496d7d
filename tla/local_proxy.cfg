\* One client, asking again and again; three upstreams; three images.
CONSTANTS
  c1 = c1
  nixos = nixos
  other = other
  another = another
  None = None
  Client = {c1}
  Upstreams <- MCUpstreams
  ByHash = {other, another}
  Image = {1, 2, 3}
  FieldsIn <- MCFieldsIn
  Size = 2
  MayFail = TRUE
SPECIFICATION Spec
INVARIANTS TypeOK CompleteIsWhole NotFoundExplained MismatchExplained
CHECK_DEADLOCK FALSE
