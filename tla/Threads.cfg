SPECIFICATION FairSpec
CONSTANTS
  capture = capture
  Main = main
  Workers <- MCWorkers
  Builds = {TRUE, FALSE}
  CreateFails = TRUE
  NULL = NULL
  LHead = LHead
  None = None
  Off = Off
INVARIANTS
  RegistrySound
  KillsAll
  FreedUnused
  ReleaseProtected
PROPERTY QuitEnds
