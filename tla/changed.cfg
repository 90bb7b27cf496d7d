CONSTANTS
  hello = hello
  hello1 = hello1
  hello2 = hello2
  Output = {hello}
  Drv = {hello1, hello2}
  Absent = Absent
  Throws = Throws
  Broken = Broken
  Tree <- Trees
  AncestryLimit = 2
  EvalMayFail = TRUE
  MaxPushed = 2
  MaxCommits = 3
  MaxRuns = 3
SPECIFICATION Spec
CHECK_DEADLOCK FALSE
INVARIANT TypeOK
INVARIANT HolesExplained
INVARIANT ThrowingNeverGreen
SYMMETRY Symmetry
