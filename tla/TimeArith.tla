------------------------------ MODULE TimeArith ------------------------------
(***************************************************************************)
(* compare_time, add_time and subtract_time of posix1b/posix_time.c: the   *)
(* arithmetic on struct timeval that the timers and the timed semaphore    *)
(* wait are built on.                                                      *)
(***************************************************************************)
EXTENDS Integers

CONSTANT USEC   \* microseconds in a second: 1000000 in the code

ASSUME UsecAssumption == USEC \in Nat /\ USEC > 1

Timeval == [sec : Int, usec : Int]
ZERO == [sec |-> 0, usec |-> 0]

(* Fault: the microseconds decide. *)
CompareMicros(t1, t2) == IF t1.usec = t2.usec THEN t1.sec - t2.sec ELSE t1.usec - t2.usec

compare_time(t1, t2) ==
  IF t1.sec < t2.sec THEN -1 ELSE IF t1.sec > t2.sec THEN 1 ELSE t1.usec - t2.usec

(* Fault: no carry. *)
AddPlain(t1, t2) == [sec |-> t1.sec + t2.sec, usec |-> t1.usec + t2.usec]

add_time(t1, t2) ==
  LET s == t1.sec + t2.sec  u == t1.usec + t2.usec  IN
  IF u > USEC THEN [sec |-> s + 1, usec |-> u - USEC] ELSE [sec |-> s, usec |-> u]

subtract_time(t1, t2) ==
  LET s == t1.sec - t2.sec  u == t1.usec - t2.usec  IN
  IF u < 0 THEN [sec |-> s - 1, usec |-> u + USEC] ELSE [sec |-> s, usec |-> u]

-----------------------------------------------------------------------------
(* The number of microseconds a timeval stands for. *)
Us(t) == t.sec * USEC + t.usec

(* What setitimer accepts, and what gettimeofday returns.                  *)
Normal(t) == t.usec \in 0 .. USEC - 1
(* add_time tests > where >= would normalise: one value more is reached.   *)
AlmostNormal(t) == t.usec \in 0 .. USEC
=============================================================================
