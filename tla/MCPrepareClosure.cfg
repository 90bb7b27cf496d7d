\* Every Nix reference graph over four paths, one of them served upstream.
CONSTANTS
  a = a
  b = b
  c = c
  d = d
  Path = {a, b, c, d}
  RefGraphs <- AllGraphs
  Upstream = {d}
  PrepareMissingRefs = TRUE
SPECIFICATION WalkSpec
INVARIANT ResultsAcyclic
INVARIANT ResultsReachable
INVARIANT ClosurePrepared
INVARIANT WalkFindsCompletePaths
