----------------------------- MODULE PosixTimer -----------------------------
(***************************************************************************)
(* The timers of posix1b/posix_time.c: many POSIX timers of one process on *)
(* the one ITIMER_REAL of the kernel.  Armed timers are linked through     *)
(* next_active; while only one is armed (single_timer) the interval timer  *)
(* is left to reload itself, otherwise the SIGALRM handler works out which *)
(* timers expired and sets the interval timer for the next one.            *)
(* The program is single threaded; SIGALRM is blocked inside the handler   *)
(* and inside timer_settime and timer_delete, which are one action each.   *)
(* The program's own handlers, run from timer_handler, may call them too.  *)
(***************************************************************************)
EXTENDS TimeArith, Sequences, SequencesExt, FiniteSets

CONSTANTS
  Timer, NULL,
  Silent,             \* timers created with SIGEV_NONE; the others with SIGEV_SIGNAL
  NSEC,               \* nanoseconds in a microsecond: 1000 in the code
  RES,                \* TIMER_RESOLUTION, in microseconds
  timer_max_error,
  Values, Intervals,  \* timespecs passed as it_value and it_interval
  Flags,              \* subset of {"TIMER_RELTIME", "TIMER_ABSTIME"}
  HandlerCalls,       \* calls the program makes in its handlers
  Late,               \* how late the kernel may raise SIGALRM
  MaxTime             \* bound on the clock

ASSUME TimerAssumption ==
  /\ NULL \notin Timer /\ IsFiniteSet(Timer) /\ Silent \subseteq Timer
  /\ NSEC \in Nat \ {0} /\ RES \in 1 .. USEC - 1 /\ timer_max_error \in Nat
  /\ Late \in Nat /\ MaxTime \in Nat
  /\ Flags \subseteq {"TIMER_RELTIME", "TIMER_ABSTIME"}
  /\ HandlerCalls \subseteq {"settime", "delete"}
  /\ Values \cup Intervals \subseteq [sec : Nat, nsec : 0 .. USEC * NSEC - 1]

VARIABLES
  now,            \* the clock, in microseconds
  itimer,         \* ITIMER_REAL: when it goes off (Never: disarmed), its interval, and
                  \* whether the last setting was refused for its microseconds
  pending,        \* SIGALRM raised and not delivered
  created,        \* timers between timer_create and timer_delete
  tm,             \* struct timer
  active_timers, single_timer, in_handler, timeout,
  pc,             \* "run", "call"; in the handler "notify", "user"; "abort", "hang"
  path,           \* the branch of timer_handler being executed
  expired,        \* timers the handler still has to notify
  callee,         \* the timer whose notification function is running
  due             \* history: the time the next expiry was asked for, or Never

kernel  == <<now, itimer, pending>>
globals == <<active_timers, single_timer, in_handler, timeout>>
control == <<pc, path, expired, callee>>
vars == <<kernel, created, tm, globals, control, due>>

Never == -1
Clock == [sec |-> now \div USEC, usec |-> now % USEC]
Resolution == [sec |-> 0, usec |-> RES]
WholeResolution == [sec |-> 0, usec |-> RES] \* fault: rounded by too much
HalfResolution == [sec |-> 0, usec |-> RES \div 2]

(* Lines 215-219: nanoseconds are cut to microseconds. *)
FromTimespec(ts) == [sec |-> ts.sec, usec |-> ts.nsec \div NSEC]
(* What the caller asked for, rounded up. *)
Asked(ts) == ts.sec * USEC + (ts.nsec + NSEC - 1) \div NSEC

(* setitimer refuses a value that is negative or not normal (the code does *)
(* not look at its result).                                                *)
setitimer(value, interval) ==
  itimer' = IF \A tv \in {value, interval} : tv.sec >= 0 /\ Normal(tv)
              THEN [at |-> IF value = ZERO THEN Never ELSE now + Us(value),
                    every |-> Us(interval), refused |-> FALSE]
              ELSE [itimer EXCEPT !.refused = ~Normal(value)]

(* The list from active_timers, and whether it ends. *)
Link[n \in 0 .. Cardinality(Timer)] ==
  IF n = 0 THEN active_timers
  ELSE IF Link[n - 1] = NULL THEN NULL ELSE tm[Link[n - 1]].next
Endless == Link[Cardinality(Timer)] # NULL
Chain == SelectSeq([n \in 1 .. Cardinality(Timer) |-> Link[n - 1]], LAMBDA t : t # NULL)
Listed == {Chain[i] : i \in DOMAIN Chain}

Init ==
  /\ now = 0 /\ itimer = [at |-> Never, every |-> 0, refused |-> FALSE] /\ pending = FALSE
  /\ created = {}
  /\ tm = [t \in Timer |-> [next |-> NULL, interval |-> ZERO, corrected |-> ZERO,
                            alarm |-> ZERO, ticks |-> 0, running |-> FALSE]]
  /\ active_timers = NULL /\ single_timer = FALSE /\ in_handler = FALSE /\ timeout = ZERO
  /\ pc = "run" /\ path = "multi" /\ expired = <<>> /\ callee = NULL
  /\ due = [t \in Timer |-> Never]

-----------------------------------------------------------------------------
(* The kernel. *)
Tick ==
  /\ now < MaxTime /\ (itimer.at # Never => now < itimer.at + Late)
  /\ pc \notin {"abort", "hang"}
  /\ now' = now + 1
  /\ UNCHANGED <<itimer, pending, created, tm, globals, control, due>>

Raise ==
  /\ itimer.at # Never /\ now >= itimer.at /\ pc \notin {"abort", "hang"}
  /\ pending' = TRUE
  /\ itimer' = [itimer EXCEPT !.at = IF itimer.every = 0 THEN Never ELSE @ + itimer.every]
  /\ UNCHANGED <<now, created, tm, globals, control, due>>

-----------------------------------------------------------------------------
(* Calls of the program, from its main flow, which a delivered signal      *)
(* interrupts at once, or from a notification, where SIGALRM is blocked.   *)
timer_create(t) ==
  /\ pc = "run" /\ ~pending /\ t \notin created
  /\ created' = created \cup {t}
  /\ tm' = [tm EXCEPT ![t].running = FALSE]
  /\ UNCHANGED <<kernel, globals, control, due>>

(* Lines 201 and 365: the call begins by blocking SIGALRM, which may still *)
(* be raised, and ends by unblocking it.                                   *)
sigblock ==
  /\ pc = "run" /\ ~pending /\ created # {}
  /\ pc' = "call"
  /\ UNCHANGED <<kernel, created, tm, globals, path, expired, callee, due>>

InCall(call) == pc = "call" \/ (pc = "user" /\ call \in HandlerCalls)
sigsetmask == pc' = (IF pc = "call" THEN "run" ELSE pc) /\ UNCHANGED <<path, expired, callee>>

(* Lines 307-317 and 369-378: search the list for t and take it out; f is  *)
(* the structs as assigned so far.                                         *)
UnlinkKeepSingle(t, f) ==                    \* fault: the mode is left as it was
  LET i == CHOOSE n \in DOMAIN Chain : Chain[n] = t
  IN /\ active_timers' = IF i = 1 THEN f[t].next ELSE active_timers
     /\ tm' = IF i = 1 THEN f ELSE [f EXCEPT ![Chain[i - 1]].next = f[t].next]
     /\ UNCHANGED single_timer

UnlinkHead(t, f) ==                          \* fault: t is taken for the first
  active_timers' = f[t].next /\ tm' = f /\ single_timer' = FALSE

Unlink(t, f) ==
  LET i == CHOOSE n \in DOMAIN Chain : Chain[n] = t
  IN /\ active_timers' = IF i = 1 THEN f[t].next ELSE active_timers
     /\ tm' = IF i = 1 THEN f ELSE [f EXCEPT ![Chain[i - 1]].next = f[t].next]
     /\ single_timer' = FALSE

(* Lines 298-319: a timer that starts goes to the front, one that stops is *)
(* taken out; single is the value of single_timer so far.                  *)
Relink(t, f, single, value) ==
  \/ /\ ~f[t].running /\ value # ZERO
     /\ tm' = [f EXCEPT ![t].next = active_timers, ![t].running = TRUE]
     /\ active_timers' = t /\ single_timer' = single
  \/ /\ f[t].running /\ value = ZERO /\ t \in Listed
     /\ Unlink(t, [f EXCEPT ![t].running = FALSE])
  \/ /\ IF f[t].running THEN value # ZERO \/ t \notin Listed ELSE value = ZERO
     /\ tm' = f /\ UNCHANGED active_timers /\ single_timer' = single

(* The sooner of two timeouts, where a zero one means none. *)
Sooner(a, b) == IF a = ZERO \/ compare_time(b, a) < 0 THEN b ELSE a

Alone(t) == active_timers = NULL \/ (active_timers = t /\ tm[t].next = NULL)

(* Lines 263-282: the sooner of value and what the other timers have left. *)
Timeout(t, value) ==
  LET others == SelectSeq(Chain, LAMBDA n : n # t /\ compare_time(tm[n].alarm, Clock) > 0)
  IN FoldLeft(LAMBDA a, n : Sooner(a, subtract_time(tm[n].alarm, Clock)), value, others)

CorrectionPeriod == timer_max_error \div RES

(* The expiry a call asks for: none for a zero it_value. *)
Asks(flag, v) ==
  IF v = [sec |-> 0, nsec |-> 0] THEN Never
  ELSE Asked(v) + IF flag = "TIMER_ABSTIME" THEN 0 ELSE now

Settime(t, flag, v, iv) ==
  LET value == IF flag = "TIMER_ABSTIME" THEN subtract_time(FromTimespec(v), Clock)
                                         ELSE FromTimespec(v)
      interval == FromTimespec(iv)
      f == [tm EXCEPT ![t].interval = interval, ![t].corrected = interval,
                      ![t].alarm = add_time(Clock, value)]
  IN
  \/ /\ Alone(t)
     /\ setitimer(value, interval)
     /\ Relink(t, [f EXCEPT ![t].ticks = CorrectionPeriod], TRUE, value)
     /\ due' = [due EXCEPT ![t] = Asks(flag, v)]
     /\ sigsetmask /\ UNCHANGED <<now, pending, created, in_handler, timeout>>
  \/ /\ ~Alone(t) /\ in_handler /\ ~single_timer
     /\ timeout' = IF timeout = ZERO \/ value # ZERO THEN Sooner(timeout, value) ELSE timeout
     /\ Relink(t, f, single_timer, value)
     /\ due' = [due EXCEPT ![t] = Asks(flag, v)]
     /\ sigsetmask /\ UNCHANGED <<kernel, created, in_handler>>
  \/ /\ ~Alone(t) /\ ~in_handler /\ ~Endless
     /\ setitimer(Timeout(t, value), ZERO)
     /\ Relink(t, f, FALSE, value)
     /\ due' = [due EXCEPT ![t] = Asks(flag, v)]
     /\ sigsetmask /\ UNCHANGED <<now, pending, created, in_handler, timeout>>
  \/ /\ ~Alone(t)                                     \* assert(!single_timer), line 254
     /\ IF in_handler THEN single_timer /\ pc' = "abort" ELSE Endless /\ pc' = "hang"
     /\ UNCHANGED <<kernel, created, tm, globals, path, expired, callee, due>>

timer_settime(t) ==
  /\ InCall("settime") /\ t \in created
  /\ \E flag \in Flags, v \in Values, iv \in Intervals : Settime(t, flag, v, iv)

DeleteLinked(t) ==                           \* fault: freed while it is in the list
  /\ InCall("delete") /\ t \in created
  /\ created' = created \ {t} /\ due' = [due EXCEPT ![t] = Never]
  /\ sigsetmask /\ UNCHANGED <<kernel, tm, globals>>

timer_delete(t) ==
  /\ InCall("delete") /\ t \in created
  /\ IF tm[t].running /\ t \in Listed THEN Unlink(t, tm)
                                       ELSE UNCHANGED <<active_timers, tm, single_timer>>
  /\ IF tm[t].running /\ t \notin Listed THEN UNCHANGED <<created, due>>     \* EINVAL
       ELSE created' = created \ {t} /\ due' = [due EXCEPT ![t] = Never]
  /\ sigsetmask /\ UNCHANGED <<kernel, in_handler, timeout>>

-----------------------------------------------------------------------------
(* timer_handler, run when SIGALRM is delivered.  One timer: every         *)
(* correction_period signals compare it with the clock and lengthen or     *)
(* shorten the interval of the interval timer when it drifted too far.     *)
OneInList == active_timers # NULL /\ tm[active_timers].next = NULL

Behind(t) == compare_time(tm[t].alarm, Clock) < 0
Drifted(t) ==
  /\ tm[t].ticks = 1
  /\ Us(IF Behind(t) THEN subtract_time(Clock, tm[t].alarm)
                     ELSE subtract_time(tm[t].alarm, Clock)) > timer_max_error

CorrectedAtLeast(t) ==                       \* fault: shortened to nothing
  CASE ~Behind(t) -> add_time(tm[t].corrected, Resolution)
    [] Behind(t) /\ compare_time(tm[t].corrected, Resolution) >= 0
         -> subtract_time(tm[t].corrected, Resolution)
    [] OTHER -> tm[t].corrected

Corrected(t) ==
  CASE ~Behind(t) -> add_time(tm[t].corrected, Resolution)
    [] Behind(t) /\ compare_time(tm[t].corrected, Resolution) > 0
         -> subtract_time(tm[t].corrected, Resolution)
    [] OTHER -> tm[t].corrected

TicksRunOut(t) == tm[t].ticks - 1            \* fault: the count is not renewed
TicksLeft(t) == IF tm[t].ticks = 1 THEN CorrectionPeriod ELSE tm[t].ticks - 1

timer_handler_single ==
  LET t == active_timers IN
  /\ pc = "run" /\ pending /\ single_timer
  /\ pending' = FALSE /\ in_handler' = TRUE /\ path' = "single"
  /\ \/ /\ ~OneInList                                        \* assert, line 98
        /\ pc' = "abort" /\ UNCHANGED <<itimer, tm, expired>>
     \/ /\ OneInList
        /\ IF Drifted(t) THEN setitimer(Corrected(t), Corrected(t)) ELSE UNCHANGED itimer
        /\ tm' = [tm EXCEPT ![t].ticks = TicksLeft(t),
                            ![t].corrected = IF Drifted(t) THEN Corrected(t) ELSE @,
                            ![t].alarm = add_time(tm[t].alarm, tm[t].interval)]
        /\ expired' = <<t>> /\ pc' = "notify"
  /\ UNCHANGED <<now, created, active_timers, single_timer, timeout, callee, due>>

(* Several timers: walk the list, collect the expired ones (the clock is   *)
(* rounded up by half a resolution), move periodic ones on, take one-shots *)
(* out, and find the next timeout.  Line 137 goes on from the timer just   *)
(* taken out, so the link changed for the next one is that timer's own.    *)
Expired(t) == compare_time(add_time(Clock, HalfResolution), tm[t].alarm) >= 0
Periodic(t) == tm[t].interval # ZERO
TakenOut(t) == Expired(t) /\ ~Periodic(t)
NextAlarm(t) == IF Expired(t) /\ Periodic(t) THEN add_time(tm[t].alarm, tm[t].interval) ELSE tm[t].alarm
Left(t) == IF Expired(t) /\ compare_time(NextAlarm(t), Clock) <= 0
             THEN Resolution ELSE subtract_time(NextAlarm(t), Clock)

FirstLink == IF Chain # <<>> /\ TakenOut(Chain[1]) THEN tm[Chain[1]].next ELSE active_timers

NextLink(t) ==
  LET after == {i \in DOMAIN Chain : i > 1 /\ Chain[i - 1] = t /\ TakenOut(Chain[i])}
  IN IF after = {} THEN tm[t].next ELSE tm[Chain[CHOOSE i \in after : TRUE]].next

timer_handler_multi ==
  /\ pc = "run" /\ pending /\ ~single_timer
  /\ pending' = FALSE /\ in_handler' = TRUE /\ path' = "multi"
  /\ \/ Endless /\ pc' = "hang" /\ UNCHANGED <<tm, active_timers, timeout, expired>>
     \/ /\ ~Endless
        /\ timeout' = FoldLeft(LAMBDA a, t : Sooner(a, Left(t)), ZERO,
                               SelectSeq(Chain, LAMBDA t : ~TakenOut(t)))
        /\ active_timers' = FirstLink
        /\ tm' = [t \in Timer |-> IF t \in Listed
                    THEN [tm[t] EXCEPT !.alarm = NextAlarm(t), !.next = NextLink(t),
                                       !.running = @ /\ ~TakenOut(t)]
                    ELSE tm[t]]
        /\ expired' = Reverse(SelectSeq(Chain, Expired)) /\ pc' = "notify"
  /\ UNCHANGED <<now, itimer, created, single_timer, callee, due>>

(* notify calls the handler the program installed, which returns later.    *)
notify ==
  LET t == Head(expired) IN
  /\ pc = "notify" /\ expired # <<>>
  /\ expired' = Tail(expired)
  /\ due' = [due EXCEPT ![t] = IF @ = Never \/ ~Periodic(t) THEN Never ELSE @ + Us(tm[t].interval)]
  /\ IF t \in Silent THEN UNCHANGED <<pc, callee>> ELSE pc' = "user" /\ callee' = t
  /\ UNCHANGED <<kernel, created, tm, globals, path>>

UserReturn ==
  /\ pc = "user" /\ pc' = "notify" /\ callee' = NULL
  /\ UNCHANGED <<kernel, created, tm, globals, path, expired, due>>

timer_handler_end ==
  /\ pc = "notify" /\ expired = <<>>
  /\ IF path = "multi" /\ ~single_timer THEN setitimer(timeout, ZERO) ELSE UNCHANGED itimer
  /\ in_handler' = FALSE /\ pc' = "run"
  /\ timeout' = ZERO /\ path' = "multi"             \* not read before they are set again
  /\ UNCHANGED <<now, pending, created, tm, active_timers, single_timer, expired, callee, due>>

timer_handler == timer_handler_single \/ timer_handler_multi \/ notify \/ UserReturn \/ timer_handler_end

Next ==
  \/ Tick \/ Raise \/ timer_handler \/ sigblock
  \/ \E t \in Timer : timer_create(t) \/ timer_settime(t) \/ timer_delete(t)

Spec == Init /\ [][Next]_vars

-----------------------------------------------------------------------------
(* getitimer: 0 when disarmed, at least 1 while the timer is set. *)
getitimer == IF itimer.at = Never THEN 0 ELSE IF itimer.at > now THEN itimer.at - now ELSE 1

(* Line 343: the alarm has come, and its signal is still to be handled. *)
AlarmIsOver(t) == compare_time(Clock, tm[t].alarm) > 0    \* fault: not at the alarm itself
AlarmHasCome(t) == compare_time(Clock, tm[t].alarm) >= 0

(* The value timer_gettime reports, in microseconds. *)
GetValue(t) ==
  CASE ~tm[t].running -> 0
    [] tm[t].running /\ single_timer -> getitimer
    [] tm[t].running /\ ~single_timer ->
         IF AlarmHasCome(t) THEN Us(tm[t].interval) ELSE Us(subtract_time(tm[t].alarm, Clock))

Notified(t) == pc # "user" /\ pc' = "user" /\ callee' = t

(* Every field has the type the struct timer declares, and ticks stays a   *)
(* count: timer_handler renews it from correction_period when it runs out. *)
TypeOK ==
  /\ now \in 0 .. MaxTime /\ pending \in BOOLEAN /\ created \subseteq Timer
  /\ itimer \in [at : Int, every : Nat, refused : BOOLEAN]
  /\ \A t \in Timer : tm[t] \in [next : Timer \cup {NULL}, interval : Timeval,
                                corrected : Timeval, alarm : Timeval, ticks : Nat, running : BOOLEAN]
  /\ active_timers \in Timer \cup {NULL} /\ single_timer \in BOOLEAN /\ in_handler \in BOOLEAN
  /\ timeout \in Timeval /\ pc \in {"run", "call", "notify", "user", "abort", "hang"}
  /\ path \in {"single", "multi"} /\ Len(expired) <= Cardinality(Timer) + 1
  /\ callee \in Timer \cup {NULL} /\ due \in [Timer -> Int]

(* The assertions of timer_handler (line 98) and timer_settime (line 254)  *)
(* hold whenever they are reached.                                         *)
AssertHolds == pc # "abort"

(* The list from active_timers ends, and links exactly the timers that     *)
(* exist and are running: timer_settime, timer_delete and the handler      *)
(* relink it together.                                                     *)
ListExact == ~Endless /\ pc # "hang" /\ Listed = {t \in created : tm[t].running}


(* next_alarm leaves the normal range by at most one microsecond: add_time *)
(* is given a normal interval and an alarm it produced itself.             *)
AlarmAlmostNormal == \A t \in Timer : AlmostNormal(tm[t].alarm)

(* The test of line 138 never mistakes the order of two times, although    *)
(* the clock it rounds up and the alarm may both be a whole second of      *)
(* microseconds: a timer whose alarm the rounded clock has passed is taken *)
(* for expired, and one whose alarm is still ahead of it is not.           *)
ExpiryOrdered ==
  \A t \in Timer : LET rounded == now + RES \div 2  alarm == Us(tm[t].alarm)  IN
    (rounded > alarm => Expired(t)) /\ (rounded < alarm => ~Expired(t))

(* While a timer is armed and the program runs, SIGALRM is pending or the  *)
(* interval timer is set: otherwise the timer would never expire.  The one *)
(* exception is a time that add_time left at a whole second of             *)
(* microseconds (line 437): setitimer refused it and nobody looked.        *)
ArmedIsScheduled ==
  pc \in {"run", "call"} /\ (\E t \in created : due[t] # Never)
    => pending \/ itimer.at # Never \/ itimer.refused

(* With several timers armed the handler notifies a timer early by its own *)
(* rounding at most: half a resolution (line 135) and the nanoseconds cut  *)
(* off (line 219).  That is more than the standard allows (NeverEarly).    *)
EarlyByRounding ==
  [][\A t \in Timer : Notified(t) /\ path = "multi" /\ due[t] # Never
       => now + RES \div 2 + 1 >= due[t]]_vars

(* A timer is never notified before the time it was set for.               *)
NeverEarly == [][\A t \in Timer : Notified(t) => now >= due[t]]_vars

(* Only a timer that was set, and neither disarmed nor deleted since, is   *)
(* notified, although its SIGALRM may have been raised before.             *)
OnlyArmedExpire == [][\A t \in Timer : Notified(t) => due[t] # Never]_vars

(* A timer that timer_delete has freed is not notified.                    *)
NoFreedNotify == [][\A t \in Timer : Notified(t) => t \in created]_vars

(* timer_gettime reports zero for a timer that is not armed and only for   *)
(* one, whichever of its ways of finding the value it takes: a program     *)
(* that polls a periodic timer never finds it stopped.                     *)
GettimeTruth ==
  pc = "run" /\ ~pending => \A t \in created : GetValue(t) = 0 <=> due[t] = Never
=============================================================================
