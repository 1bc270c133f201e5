CONSTANTS
  t1 = t1
  t2 = t2
  NULL = NULL
  Timer = {t1, t2}
  Silent = {}
  USEC = 3
  NSEC = 2
  RES = 2
  timer_max_error = 2
  Values <- ShortOrLong
  Intervals <- Period
  Flags = {"TIMER_RELTIME"}
  HandlerCalls = {}
  Late = 1
  MaxTime = 7

SPECIFICATION Spec
SYMMETRY Sym
INVARIANT TypeOK
INVARIANT AssertHolds
INVARIANT ArmedIsScheduled
INVARIANT ListExact
INVARIANT GettimeTruth
PROPERTY EarlyByRounding
PROPERTY OnlyArmedExpire
CHECK_DEADLOCK FALSE
