\* Files of two chunks, two workers, a path named twice.
CONSTANTS
  p1 = p1
  p2 = p2
  Path = {p1, p2}
  Batches <- MCBatches
  Workers = 2
  Size = 2
  KeepFiles = FALSE
  DumpMayDie = TRUE
SPECIFICATION Spec
INVARIANTS TypeOK UploadsExact LeftoversExplained
CHECK_DEADLOCK FALSE
