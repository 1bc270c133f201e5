CONSTANTS
  p1 = p1  p2 = p2  p3 = p3  s1 = s1  s2 = s2  k1 = k1  k2 = k2
  Proc = {p1, p2, p3}  Semid = {s1}  NoSem = NoSem  Key = {k1}  NoKey = NoKey
  InitValues = {1}  Creators = {p1, p2}  Unlinkers = {}  Signallers = {}
  Interruptible = {p1, p2}  InodeReuse = TRUE  SEMVMX = 3  MaxInits = 2  MaxUnits = 2
SPECIFICATION FairSpec

INVARIANT LockExclusion
PROPERTY CreatorReturns
CHECK_DEADLOCK FALSE
