CONSTANTS
  p1 = p1  p2 = p2  p3 = p3  s1 = s1  s2 = s2  k1 = k1  k2 = k2
  Proc = {p1, p2, p3}  Semid = {s1, s2}  NoSem = NoSem  Key = {k1, k2}  NoKey = NoKey
  InitValues = {1}  Creators = {p1}  Unlinkers = {p1}  Signallers = {}
  Interruptible = {p1, p2, p3}  InodeReuse = FALSE  SEMVMX = 2  MaxInits = 2  MaxUnits = 2
SPECIFICATION Spec
SYMMETRY SymSets
INVARIANTS DestructionPostponed RecreatedIsNew
CHECK_DEADLOCK FALSE
