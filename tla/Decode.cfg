SPECIFICATION FairSpec
CONSTANTS
  Dlts <- MCDlts
  Raw = TRUE
  Nets <- MCNets
  Ihls = {0, 5, 6}
  Offs = {0, 5, 6}
  PayLens = {0, 8, 256}
  ArpLens = {10}
  OptLens = {2}
  Payloads = {0, 248}
  Cuts = {0, 9, 14}
  MallocFails = TRUE
  MaxPackets = 1
  NULL = NULL
INVARIANTS
  DataInside
  OldLayersDecoded
  StatsNested
  FingerprintShown
  FatalOnlyIp6
PROPERTY EventuallySent
