SPECIFICATION Spec
CONSTANTS
  Maps <- MCMaps
  Procs <- MCProcs
  Walkers <- MCWalkers
  Dtbs = {"own", "other", "bad"}
  MergeGap = 2
  Page = 2
  NoFile = NoFile
  None = None
  Err = Err
INVARIANTS
  OneView
  ToldResolves
  ModulesWhole
