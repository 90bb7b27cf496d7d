CONSTANTS
  a = a
  b = b
  c = c
  Path = {a, b, c}
  RefGraphs <- TriangleOnly
  Inputs <- OneRoot
  Upstream = {}
  PrepareMissingRefs = TRUE
  ChunkSize = 2
  Workers = 2
  ForcePush = TRUE
  MaxRuns = 1
SPECIFICATION Spec
CHECK_DEADLOCK FALSE
INVARIANT IndexedClosureUploaded
