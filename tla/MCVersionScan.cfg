SPECIFICATION FairSpec
CONSTANTS
  ScanChunk = 4
  MaxBannerLen = 2
  PrefixLen = 2
  VersionLen = 2
  Versions = {"v5", "v6"}
  MaxTotal = 12
  MaxBanners = 3
  HoleSets <- MCHoleSets
INVARIANTS
  LostOnlyToHoles
  VersionsWhole
PROPERTY Terminates
CHECK_DEADLOCK FALSE
