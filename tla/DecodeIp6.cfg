SPECIFICATION Spec
CONSTANTS
  Dlts <- MCDlts
  Raw = TRUE
  Nets = {"IP6"}
  Ihls = {0, 5, 6}
  Offs = {0, 5, 6}
  PayLens = {0, 8, 256}
  ArpLens = {10}
  OptLens = {2}
  Payloads = {0, 248}
  Cuts = {0}
  MallocFails = FALSE
  MaxPackets = 1
  NULL = NULL
INVARIANT LayersDecoded
