CONSTANTS
  t1 = t1
  t2 = t2
  NULL = NULL
  Timer = {t1}
  Silent = {}
  USEC = 16
  NSEC = 2
  RES = 2
  timer_max_error = 6
  Values <- SomeTimes
  Intervals <- Period
  Flags = {"TIMER_RELTIME"}
  HandlerCalls = {}
  Late = 1
  MaxTime = 6

SPECIFICATION Spec
PROPERTY NeverEarly
CHECK_DEADLOCK FALSE
