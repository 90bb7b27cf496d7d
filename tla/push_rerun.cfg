CONSTANTS
  a = a
  b = b
  c = c
  Path = {a, b, c}
  RefGraphs <- Shapes
  Inputs <- Lists
  Upstream = {c}
  PrepareMissingRefs = TRUE
  ChunkSize = 2
  Workers = 2
  ForcePush = FALSE
  MaxRuns = 2
SPECIFICATION FairSpec
CHECK_DEADLOCK FALSE
INVARIANT TypeOK
INVARIANT NothingSilentlyDropped
INVARIANT SingleRootAllOrNothing
INVARIANT AttachedRefsIndexed
PROPERTY ImplementsContract
PROPERTY EveryRunEnds
