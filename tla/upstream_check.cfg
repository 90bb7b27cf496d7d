CONSTANTS
  x = x
  y = y
  Member = {nixos, own}
  Hash = {x, y}
  Batches <- Lists
  Workers = 2
SPECIFICATION FairSpec
CHECK_DEADLOCK FALSE
INVARIANT NoInventedHits
INVARIANT ReachableMembersCounted
INVARIANT SingleRequest
INVARIANT NoWorkerStranded
PROPERTY EveryWorkerEnds
