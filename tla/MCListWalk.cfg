SPECIFICATION FairSpec
CONSTANTS
  n1 = n1
  n2 = n2
  n3 = n3
  Nodes = {n1, n2, n3}
  Head = Head
  NULL = NULL
  MaxIter = 4
INVARIANTS
  StableReported
  ReportedOnce
  NeverInvents
PROPERTY WalkEnds
CHECK_DEADLOCK FALSE
