\* Two runs of init or configure, a worker with two assets, times in units of about 3 s.
SPECIFICATION Spec
SYMMETRY Symmetry
CONSTANTS
  Interval = 2
  BackOff = 1
  ReqTimeout = 3
  Lifetime = 7
  Proc = {p1, p2}
  Key = {k1}
  None = None
  Blank = Blank
  Given <- MCGiven
  Hosts <- MCHosts
  Bundles <- MCBundles
  Commands <- MCCommands
INVARIANTS
  TypeOK
  CompleteMeansSetUp
  IntervalKept
PROPERTIES
  KeyLostExplained
