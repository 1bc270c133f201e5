-------------------------- MODULE PosixTimerProofs --------------------------
(***************************************************************************)
(* What the arithmetic of posix_time.c computes for every number of        *)
(* microseconds in a second, and how far the alarms of the timers can      *)
(* leave the range that setitimer accepts.                                 *)
(***************************************************************************)
EXTENDS PosixTimer, TLAPS

(* add_time adds the microseconds two timevals stand for, whether or not   *)
(* it carries.                                                             *)
THEOREM AddIsExact ==
  ASSUME NEW a \in Timeval, NEW b \in Timeval
  PROVE  add_time(a, b) \in Timeval /\ Us(add_time(a, b)) = Us(a) + Us(b)
<1>1. PICK s \in Int, u \in Int : s = a.sec + b.sec /\ u = a.usec + b.usec
  BY DEF Timeval
<1>2. USEC \in Int
  BY UsecAssumption
<1>3. Us(a) + Us(b) = s * USEC + u
  BY <1>1, <1>2 DEF Us, Timeval
<1>4. CASE u > USEC
  <2>1. add_time(a, b) = [sec |-> s + 1, usec |-> u - USEC]
    BY <1>1, <1>4 DEF add_time
  <2>2. (s + 1) * USEC + (u - USEC) = s * USEC + u
    BY <1>2
  <2> QED
    BY <1>2, <1>3, <2>1, <2>2 DEF Us, Timeval
<1>5. CASE ~(u > USEC)
  <2>1. add_time(a, b) = [sec |-> s, usec |-> u]
    BY <1>1, <1>5 DEF add_time
  <2> QED
    BY <1>3, <2>1 DEF Us, Timeval
<1> QED
  BY <1>4, <1>5

(* subtract_time subtracts the microseconds two timevals stand for.        *)
THEOREM SubtractIsExact ==
  ASSUME NEW a \in Timeval, NEW b \in Timeval
  PROVE  subtract_time(a, b) \in Timeval /\ Us(subtract_time(a, b)) = Us(a) - Us(b)
<1>1. PICK s \in Int, u \in Int : s = a.sec - b.sec /\ u = a.usec - b.usec
  BY DEF Timeval
<1>2. USEC \in Int
  BY UsecAssumption
<1>3. Us(a) - Us(b) = s * USEC + u
  BY <1>1, <1>2 DEF Us, Timeval
<1>4. CASE u < 0
  <2>1. subtract_time(a, b) = [sec |-> s - 1, usec |-> u + USEC]
    BY <1>1, <1>4 DEF subtract_time
  <2>2. (s - 1) * USEC + (u + USEC) = s * USEC + u
    BY <1>2
  <2> QED
    BY <1>2, <1>3, <2>1, <2>2 DEF Us, Timeval
<1>5. CASE ~(u < 0)
  <2>1. subtract_time(a, b) = [sec |-> s, usec |-> u]
    BY <1>1, <1>5 DEF subtract_time
  <2> QED
    BY <1>3, <2>1 DEF Us, Timeval
<1> QED
  BY <1>4, <1>5

(* The difference of two normal timevals is normal, as timer_settime needs *)
(* for the value of an absolute timer (its seconds may be negative).       *)
LEMMA SubtractNormal ==
  ASSUME NEW a \in Timeval, NEW b \in Timeval, Normal(a), Normal(b)
  PROVE  subtract_time(a, b) \in Timeval /\ Normal(subtract_time(a, b))
BY UsecAssumption DEF Timeval, Normal, subtract_time

(* add_time keeps an almost normal timeval almost normal when the other    *)
(* one is normal; it does not make it normal, since line 437 tests > .     *)
LEMMA AddAlmostNormal ==
  ASSUME NEW a \in Timeval, NEW b \in Timeval, AlmostNormal(a), Normal(b)
  PROVE  add_time(a, b) \in Timeval /\ AlmostNormal(add_time(a, b))
BY UsecAssumption DEF Timeval, Normal, AlmostNormal, add_time

(* On the timevals the timers can hold, also the one that line 437 leaves  *)
(* at a whole second of microseconds, compare_time never inverts the order *)
(* of two times; it may only see a difference where a time is written in   *)
(* both of its forms.                                                      *)
THEOREM CompareAgrees ==
  ASSUME NEW a \in Timeval, NEW b \in Timeval, AlmostNormal(a), AlmostNormal(b)
  PROVE  /\ Us(a) < Us(b) => compare_time(a, b) < 0
         /\ Us(a) > Us(b) => compare_time(a, b) > 0
         /\ Us(a) = Us(b) /\ Normal(a) /\ Normal(b) => compare_time(a, b) = 0
<1>1. PICK p \in Int, i \in Int : p = a.sec /\ i = a.usec /\ 0 <= i /\ i <= USEC
  BY UsecAssumption DEF Timeval, AlmostNormal
<1>2. PICK q \in Int, j \in Int : q = b.sec /\ j = b.usec /\ 0 <= j /\ j <= USEC
  BY UsecAssumption DEF Timeval, AlmostNormal
<1>3. PICK U \in Int : U = USEC /\ U > 1
  BY UsecAssumption
<1>4. PICK x \in Int, y \in Int : x = Us(a) /\ y = Us(b) /\ x = p * U + i /\ y = q * U + j
  BY <1>1, <1>2, <1>3 DEF Us
<1>5. PICK k \in Int : /\ k = compare_time(a, b)
                       /\ k = IF p < q THEN -1 ELSE IF p > q THEN 1 ELSE i - j
  BY <1>1, <1>2 DEF compare_time
<1>6. /\ x < y => k < 0
      /\ x > y => k > 0
      /\ x = y /\ i < U /\ j < U => k = 0
  <2>1. CASE p < q
    <3>1. PICK d \in Nat : q = p + 1 + d
      BY <2>1, q - p - 1 \in Nat
    <3>2. PICK e \in Int : e = d * U /\ e >= 0 /\ q * U = p * U + U + e
      BY <1>3, <3>1
    <3>3. x <= y /\ (i < U => x < y)
      BY <1>1, <1>2, <1>3, <1>4, <3>2
    <3> QED
      BY <1>5, <2>1, <3>3
  <2>2. CASE p > q
    <3>1. PICK d \in Nat : p = q + 1 + d
      BY <2>2, p - q - 1 \in Nat
    <3>2. PICK e \in Int : e = d * U /\ e >= 0 /\ p * U = q * U + U + e
      BY <1>3, <3>1
    <3>3. y <= x /\ (j < U => y < x)
      BY <1>1, <1>2, <1>3, <1>4, <3>2
    <3> QED
      BY <1>5, <2>2, <3>3
  <2>3. CASE p = q
    <3>1. PICK c \in Int : x = c + i /\ y = c + j
      BY <1>3, <1>4, <2>3, p * U \in Int
    <3> QED
      BY <1>5, <2>3, <3>1
  <2> QED
    BY <2>1, <2>2, <2>3
<1>7. (Normal(a) => i < U) /\ (Normal(b) => j < U)
  BY <1>1, <1>2, <1>3 DEF Normal
<1> QED
  BY <1>4, <1>5, <1>6, <1>7

-----------------------------------------------------------------------------
(* The inductive invariant: a struct timer keeps its fields, its interval  *)
(* is normal (it comes from a valid timespec) and its alarm almost normal. *)
Fields(r) ==
  r = [next |-> r.next, interval |-> r.interval, corrected |-> r.corrected,
       alarm |-> r.alarm, ticks |-> r.ticks, running |-> r.running]

TimerOK(r) ==
  /\ Fields(r)
  /\ r.interval \in Timeval /\ Normal(r.interval)
  /\ r.alarm \in Timeval /\ AlmostNormal(r.alarm)

TableOK(f) == f = [t \in Timer |-> f[t]] /\ \A t \in Timer : TimerOK(f[t])

AlarmInv == now \in Nat /\ TableOK(tm)

(* gettimeofday returns a normal time.                                     *)
LEMMA ClockNormal ==
  ASSUME now \in Nat
  PROVE  Clock \in Timeval /\ Normal(Clock)
<1>1. PICK u \in 0 .. USEC - 1, s \in Int : u = now % USEC /\ s = now \div USEC
  BY UsecAssumption
<1>2. Clock = [sec |-> s, usec |-> u]
  BY <1>1 DEF Clock
<1> QED
  BY <1>1, <1>2, UsecAssumption DEF Timeval, Normal

(* Lines 215-219 turn a valid timespec into a normal timeval.              *)
LEMMA FromTimespecNormal ==
  ASSUME NEW ts \in [sec : Nat, nsec : 0 .. USEC * NSEC - 1]
  PROVE  FromTimespec(ts) \in Timeval /\ Normal(FromTimespec(ts))
<1>1. PICK U \in Nat, N \in Nat : U = USEC /\ N = NSEC /\ N > 0 /\ U > 1
  BY UsecAssumption, TimerAssumption
<1>2. PICK n \in Nat : n = ts.nsec /\ n < U * N
  BY <1>1
<1>3. PICK q \in Int : q = n \div N /\ N * q <= n /\ n < N * q + N
  <2>1. n \div N \in Int
    BY <1>1
  <2>2. N * (n \div N) <= n /\ n < N * (n \div N) + N
    BY <1>1, <2>1, Z3T(30)
  <2> QED
    BY <2>1, <2>2
<1>4. q >= 0
  <2>1. CASE q <= -1
    <3>1. N * q <= -N
      BY <1>1, <2>1
    <3> QED
      BY <1>1, <1>2, <1>3, <3>1
  <2> QED
    BY <2>1
<1>5. q < U
  <2>1. CASE q >= U
    <3>1. N * q >= U * N
      BY <1>1, <2>1
    <3> QED
      BY <1>1, <1>2, <1>3, <3>1
  <2> QED
    BY <1>1, <2>1
<1>6. FromTimespec(ts) = [sec |-> ts.sec, usec |-> q] /\ ts.sec \in Int
  BY <1>1, <1>2, <1>3 DEF FromTimespec
<1> QED
  BY <1>1, <1>4, <1>5, <1>6 DEF Timeval, Normal

(* A struct timer stays well formed when its link, its ticks, its          *)
(* corrected interval or its running flag changes.                         *)
LEMMA FieldKeepsOK ==
  ASSUME NEW r, TimerOK(r), NEW v
  PROVE  /\ TimerOK([r EXCEPT !.next = v]) /\ TimerOK([r EXCEPT !.running = v])
         /\ TimerOK([r EXCEPT !.ticks = v]) /\ TimerOK([r EXCEPT !.corrected = v])
<1>1. TimerOK([r EXCEPT !.next = v])
  BY DEF TimerOK, Fields
<1>2. TimerOK([r EXCEPT !.running = v])
  BY DEF TimerOK, Fields
<1>3. TimerOK([r EXCEPT !.ticks = v])
  BY DEF TimerOK, Fields
<1>4. TimerOK([r EXCEPT !.corrected = v])
  BY DEF TimerOK, Fields
<1> QED
  BY <1>1, <1>2, <1>3, <1>4

(* A timer given an alarm or an interval that is in range stays good.      *)
LEMMA TimesKeepOK ==
  ASSUME NEW r, TimerOK(r), NEW v \in Timeval
  PROVE  /\ AlmostNormal(v) => TimerOK([r EXCEPT !.alarm = v])
         /\ Normal(v) => TimerOK([r EXCEPT !.interval = v])
<1>1. ASSUME AlmostNormal(v) PROVE TimerOK([r EXCEPT !.alarm = v])
  BY <1>1 DEF TimerOK, Fields
<1>2. ASSUME Normal(v) PROVE TimerOK([r EXCEPT !.interval = v])
  BY <1>2 DEF TimerOK, Fields
<1> QED
  BY <1>1, <1>2

(* A table of well-formed timers stays one when one entry changes.         *)
LEMMA EntryKeepsOK ==
  ASSUME NEW f, TableOK(f), NEW s, NEW r, s \in Timer => TimerOK(r)
  PROVE  TableOK([f EXCEPT ![s] = r])
BY DEF TableOK

(* Changing a link or a flag of one timer keeps the table good.            *)
LEMMA FieldEntryKeepsOK ==
  ASSUME NEW f, TableOK(f), NEW s, NEW v
  PROVE  /\ TableOK([f EXCEPT ![s].next = v]) /\ TableOK([f EXCEPT ![s].running = v])
         /\ TableOK([f EXCEPT ![s].ticks = v])
<1>1. s \in Timer => TimerOK(f[s])
  BY DEF TableOK
<1>2. TableOK([f EXCEPT ![s] = [f[s] EXCEPT !.next = v]])
  BY <1>1, FieldKeepsOK, EntryKeepsOK
<1>3. TableOK([f EXCEPT ![s] = [f[s] EXCEPT !.running = v]])
  BY <1>1, FieldKeepsOK, EntryKeepsOK
<1>4. TableOK([f EXCEPT ![s] = [f[s] EXCEPT !.ticks = v]])
  BY <1>1, FieldKeepsOK, EntryKeepsOK
<1> QED
  BY <1>2, <1>3, <1>4

(* Taking a timer out of the list, and linking or unlinking the timer that *)
(* timer_settime was called for.                                           *)
LEMMA UnlinkKeepsOK ==
  ASSUME NEW t, NEW f, TableOK(f), Unlink(t, f)
  PROVE  TableOK(tm')
<1> DEFINE i == CHOOSE n \in DOMAIN Chain : Chain[n] = t
<1>1. tm' = IF i = 1 THEN f ELSE [f EXCEPT ![Chain[i - 1]].next = f[t].next]
  BY DEF Unlink
<1>2. TableOK([f EXCEPT ![Chain[i - 1]].next = f[t].next])
  BY FieldEntryKeepsOK
<1> HIDE DEF i
<1> QED
  BY <1>1, <1>2

(* Linking a timer in at the head of the list keeps the table good.        *)
LEMMA RelinkKeepsOK ==
  ASSUME NEW t, NEW f, TableOK(f), NEW single, NEW value, Relink(t, f, single, value)
  PROVE  TableOK(tm')
<1>1. CASE tm' = [f EXCEPT ![t].next = active_timers, ![t].running = TRUE]
  <2>1. PICK g : g = [f EXCEPT ![t].next = active_timers]
    OBVIOUS
  <2>2. TableOK(g)
    BY <2>1, FieldEntryKeepsOK
  <2>3. tm' = [g EXCEPT ![t].running = TRUE]
    BY <1>1, <2>1
  <2> QED
    BY <2>2, <2>3, FieldEntryKeepsOK
<1>2. CASE Unlink(t, [f EXCEPT ![t].running = FALSE])
  <2>1. PICK g : g = [f EXCEPT ![t].running = FALSE]
    OBVIOUS
  <2>2. TableOK(g)
    BY <2>1, FieldEntryKeepsOK
  <2>3. Unlink(t, g)
    BY <1>2, <2>1
  <2> QED
    BY <2>2, <2>3, UnlinkKeepsOK
<1>3. CASE tm' = f
  BY <1>3
<1> QED
  BY <1>1, <1>2, <1>3 DEF Relink

-----------------------------------------------------------------------------
(* timer_settime: the new interval is normal, and so is the value, also    *)
(* when it is what an absolute time leaves.                                *)
LEMMA SettimeKeepsOK ==
  ASSUME AlarmInv, NEW t \in Timer, NEW flag, NEW v \in Values, NEW iv \in Intervals,
         Settime(t, flag, v, iv)
  PROVE  AlarmInv'
<1>1. PICK interval \in Timeval : interval = FromTimespec(iv) /\ Normal(interval)
  BY TimerAssumption, FromTimespecNormal
<1>2. PICK value \in Timeval :
        /\ value = IF flag = "TIMER_ABSTIME" THEN subtract_time(FromTimespec(v), Clock)
                                             ELSE FromTimespec(v)
        /\ Normal(value)
  <2>1. FromTimespec(v) \in Timeval /\ Normal(FromTimespec(v))
    BY TimerAssumption, FromTimespecNormal
  <2>2. Clock \in Timeval /\ Normal(Clock)
    BY ClockNormal DEF AlarmInv
  <2>3. subtract_time(FromTimespec(v), Clock) \in Timeval /\ Normal(subtract_time(FromTimespec(v), Clock))
    BY <2>1, <2>2, SubtractNormal
  <2> QED
    BY <2>1, <2>3
<1>3. PICK alarm \in Timeval : alarm = add_time(Clock, value) /\ AlmostNormal(alarm)
  <2>1. Clock \in Timeval /\ Normal(Clock)
    BY ClockNormal DEF AlarmInv
  <2>2. AlmostNormal(Clock)
    BY <2>1, UsecAssumption DEF Normal, AlmostNormal, Timeval
  <2> QED
    BY <1>2, <2>1, <2>2, AddAlmostNormal
<1>4. PICK f : /\ f = [tm EXCEPT ![t].interval = interval, ![t].corrected = interval, ![t].alarm = alarm]
               /\ TableOK(f)
  <2>1. PICK r : r = [[[tm[t] EXCEPT !.interval = interval] EXCEPT !.corrected = interval] EXCEPT !.alarm = alarm]
    OBVIOUS
  <2>2. TimerOK(tm[t]) /\ TableOK(tm)
    BY DEF AlarmInv, TableOK
  <2>3. TimerOK([tm[t] EXCEPT !.interval = interval])
    BY <1>1, <2>2, TimesKeepOK
  <2>4. TimerOK([[tm[t] EXCEPT !.interval = interval] EXCEPT !.corrected = interval])
    BY <2>3, FieldKeepsOK
  <2>5. TimerOK(r)
    BY <1>3, <2>1, <2>4, TimesKeepOK
  <2>6. [tm EXCEPT ![t].interval = interval, ![t].corrected = interval, ![t].alarm = alarm]
          = [tm EXCEPT ![t] = r]
    BY <2>1, <2>2 DEF TableOK
  <2> QED
    BY <2>2, <2>5, <2>6, EntryKeepsOK
<1>5. TableOK([f EXCEPT ![t].ticks = CorrectionPeriod])
  BY <1>4, FieldEntryKeepsOK
<1>6. \/ Relink(t, [f EXCEPT ![t].ticks = CorrectionPeriod], TRUE, value)
      \/ Relink(t, f, single_timer, value)
      \/ Relink(t, f, FALSE, value)
      \/ tm' = tm
  BY <1>1, <1>2, <1>3, <1>4, Zenon DEF Settime
<1>7. ASSUME Relink(t, [f EXCEPT ![t].ticks = CorrectionPeriod], TRUE, value)
      PROVE  TableOK(tm')
  BY <1>5, <1>7, RelinkKeepsOK
<1>8. ASSUME NEW single, Relink(t, f, single, value)
      PROVE  TableOK(tm')
  BY <1>4, <1>8, RelinkKeepsOK
<1>9. TableOK(tm')
  BY <1>6, <1>7, <1>8 DEF AlarmInv
<1>10. now' = now
  BY DEF Settime, kernel
<1> QED
  BY <1>9, <1>10 DEF AlarmInv

(* The alarm the handler moves on by its interval.                         *)
LEMMA NextAlarmOK ==
  ASSUME NEW r, TimerOK(r)
  PROVE  /\ add_time(r.alarm, r.interval) \in Timeval
         /\ AlmostNormal(add_time(r.alarm, r.interval))
BY AddAlmostNormal DEF TimerOK

(* The handler in single mode keeps the table good.                        *)
LEMMA SingleKeepsOK ==
  ASSUME AlarmInv, timer_handler_single
  PROVE  AlarmInv'
<1>1. now' = now
  BY DEF timer_handler_single
<1>2. TableOK(tm')
  <2>1. CASE tm' = tm
    BY <2>1 DEF AlarmInv
  <2>2. ASSUME NEW t, NEW n, NEW c,
               tm' = [tm EXCEPT ![t].ticks = n, ![t].corrected = c,
                                ![t].alarm = add_time(tm[t].alarm, tm[t].interval)]
        PROVE  TableOK(tm')
    <3>1. PICK a : a = add_time(tm[t].alarm, tm[t].interval)
      OBVIOUS
    <3>2. PICK r : r = [[[tm[t] EXCEPT !.ticks = n] EXCEPT !.corrected = c] EXCEPT !.alarm = a]
      OBVIOUS
    <3>3. ASSUME t \in Timer PROVE TimerOK(r)
      <4>1. TimerOK(tm[t])
        BY <3>3 DEF AlarmInv, TableOK
      <4>2. a \in Timeval /\ AlmostNormal(a)
        BY <3>1, <4>1, NextAlarmOK
      <4>3. TimerOK([tm[t] EXCEPT !.ticks = n])
        BY <4>1, FieldKeepsOK
      <4>4. TimerOK([[tm[t] EXCEPT !.ticks = n] EXCEPT !.corrected = c])
        BY <4>3, FieldKeepsOK
      <4> QED
        BY <3>2, <4>2, <4>4, TimesKeepOK
    <3>4. tm' = [tm EXCEPT ![t] = r]
      BY <2>2, <3>1, <3>2 DEF AlarmInv, TableOK
    <3> QED
      BY <3>3, <3>4, EntryKeepsOK DEF AlarmInv
  <2>3. \/ tm' = tm
        \/ \E n, c : tm' = [tm EXCEPT ![active_timers].ticks = n, ![active_timers].corrected = c,
              ![active_timers].alarm = add_time(tm[active_timers].alarm, tm[active_timers].interval)]
    BY Zenon DEF timer_handler_single
  <2> QED
    BY <2>1, <2>2, <2>3
<1> QED
  BY <1>1, <1>2 DEF AlarmInv

(* The handler in list mode keeps the table good.                          *)
LEMMA MultiKeepsOK ==
  ASSUME AlarmInv, timer_handler_multi
  PROVE  AlarmInv'
<1>1. now' = now
  BY DEF timer_handler_multi
<1>2. TableOK(tm')
  <2>1. CASE tm' = tm
    BY <2>1 DEF AlarmInv
  <2>2. CASE tm' = [t \in Timer |-> IF t \in Listed
                    THEN [tm[t] EXCEPT !.alarm = NextAlarm(t), !.next = NextLink(t),
                                       !.running = @ /\ ~TakenOut(t)]
                    ELSE tm[t]]
    <3>1. ASSUME NEW t \in Timer PROVE TimerOK(tm'[t])
      <4>1. TimerOK(tm[t])
        BY DEF AlarmInv, TableOK
      <4>2. NextAlarm(t) \in Timeval /\ AlmostNormal(NextAlarm(t))
        BY <4>1, NextAlarmOK DEF NextAlarm, TimerOK
      <4>3. PICK a, l, b : a = NextAlarm(t) /\ l = NextLink(t) /\ b = (tm[t].running /\ ~TakenOut(t))
        OBVIOUS
      <4>4. TimerOK([tm[t] EXCEPT !.alarm = a])
        BY <4>1, <4>2, <4>3, TimesKeepOK
      <4>5. TimerOK([[tm[t] EXCEPT !.alarm = a] EXCEPT !.next = l])
        BY <4>4, FieldKeepsOK
      <4>6. PICK r : r = [[[tm[t] EXCEPT !.alarm = a] EXCEPT !.next = l] EXCEPT !.running = b]
        OBVIOUS
      <4>7. TimerOK(r)
        BY <4>5, <4>6, FieldKeepsOK
      <4>8. [tm[t] EXCEPT !.alarm = NextAlarm(t), !.next = NextLink(t),
                          !.running = @ /\ ~TakenOut(t)] = r
        BY <4>1, <4>3, <4>6 DEF TimerOK, Fields
      <4>9. tm'[t] = r \/ tm'[t] = tm[t]
        BY <2>2, <4>8
      <4> QED
        BY <4>1, <4>7, <4>9
    <3>2. tm' = [t \in Timer |-> tm'[t]]
      BY <2>2
    <3> QED
      BY <3>1, <3>2 DEF TableOK
  <2> QED
    BY <2>1, <2>2 DEF timer_handler_multi
<1> QED
  BY <1>1, <1>2 DEF AlarmInv

(* timer_delete keeps the table good.                                      *)
LEMMA DeleteKeepsOK ==
  ASSUME AlarmInv, NEW t, timer_delete(t)
  PROVE  AlarmInv'
<1>1. now' = now
  BY DEF timer_delete, kernel
<1>2. Unlink(t, tm) \/ tm' = tm
  BY DEF timer_delete
<1>3. TableOK(tm')
  BY <1>2, UnlinkKeepsOK DEF AlarmInv
<1> QED
  BY <1>1, <1>3 DEF AlarmInv

(* Every step of the timers keeps the invariant.                           *)
LEMMA AlarmInvariant == Spec => []AlarmInv
<1>1. Init => AlarmInv
  <2> SUFFICES ASSUME Init PROVE AlarmInv
    OBVIOUS
  <2>1. ZERO \in Timeval /\ Normal(ZERO) /\ AlmostNormal(ZERO)
    BY UsecAssumption DEF ZERO, Timeval, Normal, AlmostNormal
  <2>2. tm = [t \in Timer |-> [next |-> NULL, interval |-> ZERO, corrected |-> ZERO,
                               alarm |-> ZERO, ticks |-> 0, running |-> FALSE]]
    BY DEF Init
  <2>3. TableOK(tm)
    BY <2>1, <2>2 DEF TableOK, TimerOK, Fields
  <2> QED
    BY <2>3 DEF Init, AlarmInv
<1>2. AlarmInv /\ [Next]_vars => AlarmInv'
  <2> SUFFICES ASSUME AlarmInv, [Next]_vars PROVE AlarmInv'
    OBVIOUS
  <2>1. CASE Tick
    BY <2>1 DEF Tick, AlarmInv
  <2>2. ASSUME NEW t \in Timer, timer_create(t) PROVE AlarmInv'
    <3>1. now' = now /\ tm' = [tm EXCEPT ![t].running = FALSE]
      BY <2>2 DEF timer_create, kernel
    <3> QED
      BY <3>1, FieldEntryKeepsOK DEF AlarmInv
  <2>3. ASSUME NEW t \in Timer, timer_settime(t) PROVE AlarmInv'
    BY <2>3, SettimeKeepsOK DEF timer_settime
  <2>4. ASSUME NEW t \in Timer, timer_delete(t) PROVE AlarmInv'
    BY <2>4, DeleteKeepsOK
  <2>5. CASE timer_handler_single
    BY <2>5, SingleKeepsOK
  <2>6. CASE timer_handler_multi
    BY <2>6, MultiKeepsOK
  <2>7. CASE Raise \/ sigblock \/ notify \/ UserReturn \/ timer_handler_end
    <3>1. now' = now /\ tm' = tm
      BY <2>7 DEF Raise, sigblock, notify, UserReturn, timer_handler_end, kernel
    <3> QED
      BY <3>1 DEF AlarmInv
  <2>8. CASE UNCHANGED vars
    <3>1. now' = now /\ tm' = tm
      BY <2>8 DEF vars, kernel
    <3> QED
      BY <3>1 DEF AlarmInv
  <2> QED
    BY <2>1, <2>2, <2>3, <2>4, <2>5, <2>6, <2>7, <2>8 DEF Next, timer_handler
<1> QED
  BY <1>1, <1>2, PTL DEF Spec

(* No alarm is ever more than one microsecond out of the normal range, for *)
(* any number of timers and any valid times: setitimer refuses a timeout   *)
(* at most when it is a whole second in microseconds.                      *)
THEOREM AlarmsAlmostNormal == Spec => []AlarmAlmostNormal
<1>1. AlarmInv => AlarmAlmostNormal
  BY DEF AlarmInv, TableOK, TimerOK, AlarmAlmostNormal
<1> QED
  BY <1>1, AlarmInvariant, PTL

(* The clock as a timeval stands for the clock.                            *)
LEMMA ClockExact ==
  ASSUME now \in Nat
  PROVE  Us(Clock) = now
<1>1. PICK U \in Nat, n \in Nat : U = USEC /\ U > 1 /\ n = now
  BY UsecAssumption
<1>2. PICK q \in Int, m \in Int : q = n \div U /\ m = n % U
  BY <1>1
<1>3. q * U + m = n
  BY <1>1, <1>2, Z3T(30)
<1>4. Clock = [sec |-> q, usec |-> m]
  BY <1>1, <1>2 DEF Clock
<1> QED
  BY <1>1, <1>3, <1>4 DEF Us

(* In every state of the timers, for every resolution shorter than a       *)
(* second, the handler's expiry test orders the rounded clock and the      *)
(* alarms as the times they stand for.                                     *)
THEOREM ExpiryTestOrdered == Spec => []ExpiryOrdered
<1>1. AlarmInv => ExpiryOrdered
  <2> SUFFICES ASSUME AlarmInv, NEW t \in Timer
               PROVE  /\ now + RES \div 2 > Us(tm[t].alarm) => Expired(t)
                      /\ now + RES \div 2 < Us(tm[t].alarm) => ~Expired(t)
    BY DEF ExpiryOrdered
  <2>1. PICK h \in Int : h = RES \div 2 /\ 0 <= h /\ h < USEC
    BY UsecAssumption, TimerAssumption
  <2>2. HalfResolution = [sec |-> 0, usec |-> h]
    BY <2>1 DEF HalfResolution
  <2>3. HalfResolution \in Timeval /\ Normal(HalfResolution) /\ Us(HalfResolution) = h
    BY <2>1, <2>2, UsecAssumption DEF Timeval, Normal, Us
  <2>4. now \in Nat /\ Clock \in Timeval /\ AlmostNormal(Clock) /\ Us(Clock) = now
    BY ClockNormal, ClockExact, UsecAssumption DEF AlarmInv, Normal, AlmostNormal, Timeval
  <2>5. PICK r \in Timeval : r = add_time(Clock, HalfResolution) /\ AlmostNormal(r) /\ Us(r) = now + h
    BY <2>3, <2>4, AddIsExact, AddAlmostNormal
  <2>6. PICK a \in Timeval : a = tm[t].alarm /\ AlmostNormal(a)
    BY DEF AlarmInv, TableOK, TimerOK
  <2>7. PICK k \in Int : k = compare_time(r, a)
    BY DEF compare_time, Timeval
  <2>8. (Us(r) < Us(a) => k < 0) /\ (Us(r) > Us(a) => k > 0)
    BY <2>5, <2>6, <2>7, CompareAgrees
  <2>9. Expired(t) <=> k >= 0
    BY <2>5, <2>6, <2>7 DEF Expired
  <2> QED
    BY <2>1, <2>5, <2>6, <2>7, <2>8, <2>9
<1> QED
  BY <1>1, AlarmInvariant, PTL
=============================================================================
