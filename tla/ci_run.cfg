CONSTANTS
  a = a
  b = b
  c = c
  pkg = pkg
  tool = tool
  both = both
  Path = {a, b, c}
  RefGraphs <- Shapes
  Upstream = {b, c}
  PrepareMissingRefs = TRUE
  Installable = {pkg, tool, both}
  Outputs <- OutputsOf
  BuildLists <- Lists
  Caches = 2
SPECIFICATION CISpec
CHECK_DEADLOCK FALSE
INVARIANT CITypeOK
INVARIANT PushedCacheServesBuilds
PROPERTY CIImplementsContract
