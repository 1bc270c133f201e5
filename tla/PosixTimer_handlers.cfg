CONSTANTS
  t1 = t1
  t2 = t2
  NULL = NULL
  Timer = {t1, t2}
  Silent = {t2}
  USEC = 4
  NSEC = 2
  RES = 2
  timer_max_error = 6
  Values <- ZeroOrShort
  Intervals <- OneShot
  Flags = {"TIMER_RELTIME", "TIMER_ABSTIME"}
  HandlerCalls = {"settime", "delete"}
  Late = 1
  MaxTime = 3

SPECIFICATION Spec
 
INVARIANT AlarmAlmostNormal
INVARIANT ExpiryOrdered
CHECK_DEADLOCK FALSE
