CONSTANTS
  p1 = p1  p2 = p2  p3 = p3
  Proc = {p1, p2, p3}  Inode = {i1}  NULL = NULL
  MQ_PRIO_MAX = 2  QLimit = 2  Prios = {0}
  OpenArgs <- JustCreate
  Senders = {p1, p2}  Receivers = {}  Watchers = {p3}
  MallocFails = FALSE
  MaxOpens = 3  MaxSends = 2
SPECIFICATION Spec
INVARIANT OnlyRegistrant
CHECK_DEADLOCK FALSE
