SPECIFICATION FairSpec
CONSTANTS
  t1 = t1
  t2 = t2
  m1 = m1
  m2 = m2
  c1 = c1
  c2 = c2
  c3 = c3
  c4 = c4
  Threads <- MCThreads
  Mutexes <- MCMutexes
  Cells <- MCCells
  MaxDepth = 3
  MallocFails = TRUE
  None = None
  Free = Free
CHECK_DEADLOCK FALSE
INVARIANTS
  HolderOwns
  OwnerHolds
  UnlocksOwn
  RmInv
PROPERTIES
  ImplementsReentrantLock
  ListReleased
