SPECIFICATION Spec
CONSTANTS
  ui = ui
  cap1 = cap1
  cap2 = cap2
  Threads <- MCThreads
  UI = ui
  MaxMsgs = 2
  BufSize = 2
  MsgLens = {2}
  FlushMax <- MCFlushMax
  C99 = {FALSE}
  NULL = NULL
  QHead = QHead
  None = None
SYMMETRY Writers
INVARIANTS
  Exclusive
  NoDangling
  ListIsPending
  QueueInv
PROPERTY ImplementsQueue
