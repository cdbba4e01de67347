SPECIFICATION Spec
CONSTANTS
  MaxAddr = 6
  GapSizes <- MCGapSizes
  FlagSets <- MCFlagSets
  MaxVmas = 3
  NoRange = NoRange
INVARIANTS
  NothingLost
  OnlySmallGaps
  RangesInOrder
CHECK_DEADLOCK FALSE
