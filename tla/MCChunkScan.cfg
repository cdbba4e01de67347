SPECIFICATION FairSpec
CONSTANTS
  ChunkSize = 3
  HugePage = 2
  MaxTotal = 7
  MaxDelta = 1
  HoleSets <- MCHoleSets
  GoodSets <- MCGoodSets
  NoMatch = NoMatch
INVARIANTS
  NothingSkipped
  NoneTriedTwice
  LowestWins
PROPERTY Terminates
CHECK_DEADLOCK FALSE
