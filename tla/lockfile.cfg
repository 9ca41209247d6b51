SPECIFICATION FairSpec
CONSTANTS
  Procs = {p1, p2, p3}
  NoProc = NoProc
  MaxInode = 2
  MaxPolls = 1
INVARIANTS
  TypeOK
  RecordNamesHolder
PROPERTIES
  ImplementsMutex
  BoundedCallReturns
  BlockedAcquireReturns
