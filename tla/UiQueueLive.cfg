SPECIFICATION FairSpec
CONSTANTS
  ui = ui
  cap1 = cap1
  cap2 = cap2
  Threads <- MCThreads2
  UI = ui
  MaxMsgs = 2
  BufSize = 50
  MsgLens = {49, 50}
  FlushMax <- MCFlushMax
  C99 = {TRUE}
  NULL = NULL
  QHead = QHead
  None = None
INVARIANT NeverTruncated
PROPERTIES
  FormatEnds
  EventuallyDisplayed
  QuitEnds
