SPECIFICATION FairSpec
CONSTANTS
  b1 = b1
  b2 = b2
  Builders = {b1, b2}
  Images = {"vm"}
  Profiles = {"right", "foreign", "bare", "broken"}
  Configs <- LooseConfigs
  Image <- MCImage
  Profile <- MCProfile
  PathRank <- MCPathRank
  Fingerprints = {"f1", "f2"}
  InitFiles <- MCInitFiles
  Addrs <- MCAddrs
  HugePage = 2
  NoBanner = NoBanner
  NoProfile = NoProfile
  NoAddr = NoAddr
  NoFile = NoFile
  Flaky = TRUE
  MaxBuilds = 2
INVARIANTS
  LoadedHintWasStored
  SelectionSound
PROPERTY BuildEnds
CHECK_DEADLOCK FALSE
