CONSTANTS
  a1 = a1  a2 = a2  b1 = b1  p = p  q = q
  Thread = {a1, a2, b1}
  NoThread = NoThread
  Process = {p, q}
  ProcessOf <- MCProcessOf
  Inode = {i1, i2, i3}
  NoInode = NoInode
  MaxDepth = 2
  MaxSweeps = 2
  MaxExits = 1
  Attempts = 2
SPECIFICATION FairSpec
INVARIANTS
  MutualExclusion
PROPERTIES
  IsExclusiveLock
  LockIsPassedOn
