CONSTANTS
  r1 = r1
  r2 = r2
  d1 = d1
  d2 = d2
  d3 = d3
  n1 = n1
  n2 = n2
  v1 = v1
  v2 = v2
  Roots = {r1, r2}
  Packages = {d1, d2, d3}
  DepsOf <- MC_DepsOf
  DepName <- MC_DepName
  DepRev <- MC_DepRev
  SemSize = 3
SPECIFICATION FairSpec
INVARIANTS
  PermitsAccounted
  ResultComplete
PROPERTIES
  Termination
CHECK_DEADLOCK FALSE
