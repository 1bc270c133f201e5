CONSTANTS
  p1 = p1  p2 = p2  p3 = p3  s1 = s1  s2 = s2  k1 = k1  k2 = k2
  Proc = {p1, p2}  Semid = {s1, s2}  NoSem = NoSem  Key = {k1, k2}  NoKey = NoKey
  InitValues = {1}  Creators = {p1, p2}  Unlinkers = {p1, p2}  Signallers = {}
  Interruptible = {}  InodeReuse = TRUE  SEMVMX = 2  MaxInits = 2  MaxUnits = 2
SPECIFICATION Spec

INVARIANT DestructionPostponed
CHECK_DEADLOCK FALSE
