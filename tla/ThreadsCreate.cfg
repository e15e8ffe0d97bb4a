SPECIFICATION Spec
CONSTANTS
  capture = capture
  Main = main
  Workers <- MCWorkers
  Builds = {FALSE}
  CreateFails = TRUE
  NULL = NULL
  LHead = LHead
  None = None
  Off = Off
INVARIANT RegisteredExist
