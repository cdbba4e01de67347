SPECIFICATION Spec
CONSTANTS
  b1 = b1
  b2 = b2
  Builders = {b1, b2}
  Images = {"vm", "la57"}
  Profiles = {"right", "sibling", "foreign", "broken", "bogus"}
  Configs <- StrictConfigs
  Image <- MCImage
  Profile <- MCProfile
  PathRank <- MCPathRank
  Fingerprints = {"f1", "f2"}
  InitFiles <- MCInitFiles
  Addrs <- MCAddrs
  HugePage = 2
  NoBanner = NoBanner
  NoProfile = NoProfile
  NoAddr = NoAddr
  NoFile = NoFile
  Flaky = FALSE
  MaxBuilds = 3
INVARIANT EnvProfileFirst
CHECK_DEADLOCK FALSE
