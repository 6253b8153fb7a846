CONSTANTS
  p1 = p1
  p2 = p2
  p3 = p3
  Procs <- MCProcs
  MaxFds = 3
SPECIFICATION Spec
INVARIANT MutualExclusion NoOrphanLock
