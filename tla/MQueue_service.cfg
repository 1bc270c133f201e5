CONSTANTS
  p1 = p1  p2 = p2  p3 = p3
  Proc = {p1, p2}
  Inode = {i1, i2}
  NULL = NULL
  MQ_PRIO_MAX = 2
  QLimit = 2
  OpenArgs <- AllPaths
  Prios = {0, 1}
  Senders = {p1}
  Receivers = {p2}
  Watchers = {p2}
  MallocFails = TRUE
  MaxOpens = 3
  MaxSends = 3
SYMMETRY SymInodes
SPECIFICATION Spec
INVARIANTS TypeOK NothingLost OneQueue NotifiedOnce QueueOutlivesName
PROPERTY ServesByPriority
CHECK_DEADLOCK FALSE
