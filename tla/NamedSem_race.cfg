CONSTANTS
  p1 = p1  p2 = p2  p3 = p3  s1 = s1  s2 = s2  k1 = k1  k2 = k2
  Proc = {p1, p2}  Semid = {s1, s2}  NoSem = NoSem  Key = {k1, k2}  NoKey = NoKey
  InitValues = {0, 1, 5}  Creators = {p1, p2}  Unlinkers = {p1, p2}  Signallers = {p2}
  Interruptible = {p1}  InodeReuse = TRUE  SEMVMX = 2  MaxInits = 2  MaxUnits = 1
SPECIFICATION Spec
SYMMETRY SymSets
INVARIANTS TypeOK CounterExact CloseNeverSleeps InitialisedOnce NoUnitFromNowhere
CHECK_DEADLOCK FALSE
