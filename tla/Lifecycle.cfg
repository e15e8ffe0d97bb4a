SPECIFICATION FairSpec
CONSTANTS
  Main = main
  Capture = capture
  Builds = {TRUE, FALSE}
  MaxSignals = 2
  Fails = TRUE
  None = None
INVARIANTS
  TypeOK
  TerminalRestored
  HooksReady
  CaptureStopped
  ErrorReportedLater
PROPERTY ExitEnds
