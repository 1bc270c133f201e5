CONSTANTS
  p1 = p1  p2 = p2  p3 = p3
  Proc = {p1, p2}  Inode = {i1, i2}  NULL = NULL
  MQ_PRIO_MAX = 2  QLimit = 1  Prios = {0}
  OpenArgs <- CreateOrPlain
  Senders = {}  Receivers = {}  Watchers = {}
  MallocFails = FALSE
  MaxOpens = 3  MaxSends = 0
SPECIFICATION Spec
INVARIANT SameQueue
CHECK_DEADLOCK FALSE
