SPECIFICATION Spec
CONSTANTS
  MAX_DENTRY_DEPTH = 3
  MAX_MOUNT_DEPTH = 2
  MAX_ENVIRONMENT_BYTES = 8
  MAX_ARGUMENT_BYTES = 5
  NUL = NUL
  EQ = EQ
  BAD = BAD
  NoData = NoData
  WordBits = 5
  HighBit = 2
  MaxAddr = 130
  KernelMin = 100
  TokenIndexWords = 3
  Alignment = 2
  NoLayout = NoLayout
  Worlds <- MCWorlds
  MaxFaults = 1
  VirtText = 104
  KernelDtb = "kernel"
  Page = 4
  COMPAT = "compat"
  CompatArch = "x86"
  LinuxArch = "x64"
  NULL = NULL
  Err = Err
  None = None
INVARIANTS  SymbolsTrue EnvTrue ModulesAgree SizeSound
