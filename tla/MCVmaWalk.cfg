SPECIFICATION FairSpec
CONSTANTS
  Mems <- MCMems
  TornVmas <- MCTornVmas
  TornBounds <- MCTornBounds
  TornEntries <- MCTornEntries
  TornPivots = {0, 1, 5}
  Walkers <- MCWalkers
  Maple <- MCMaple
  TornMaple <- MCTornMaple
  MaxIndex = 5
  DenseSlots = 3
  MaxDepth = 2
  MaxVma = 3
  PageSize = 4096
  None = None
  Err = Err
INVARIANTS
  TypeOK
  WholeSpace
  ViewContract
  SortedAsRead
PROPERTY WalkEnds
CHECK_DEADLOCK FALSE
