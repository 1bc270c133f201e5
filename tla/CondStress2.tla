----------------------------- MODULE CondStress2 -----------------------------
(***************************************************************************)
(* stress/threads/pthread_cond_timedwait/stress2.c, one cell: the manager  *)
(* starts workers that all wait on one condition variable, sets a boolean  *)
(* without the mutex, and cancels a worker while a signaler wakes one.     *)
(* The woken worker broadcasts.  A worker that is never woken reports a    *)
(* lost signal when it times out.                                          *)
(***************************************************************************)
EXTENDS Threads

CONSTANT NCHILDREN

NWorkers == NCHILDREN + 2
Worker == 0 .. NWorkers - 1
manager == NWorkers
signaler_ == NWorkers + 1
helper == NWorkers + 2   \* stress/threads/helper.c, which sends SIGUSR1
Thread == {main, manager, signaler_, helper} \cup Worker

Init ==
  /\ pc = [t \in Thread |-> CASE t = main -> 526 [] t = manager -> 282 [] t = helper -> 79 [] OTHER -> Ended]
  /\ loc = <<>>
  /\ mem = [do_it |-> TRUE, boolean |-> 0, count |-> 0, cancel |-> {}]
  /\ sem = <<>> /\ mtx = [mtx |-> NoThread] /\ cnd = [cnd |-> {}]
  /\ verdict = "none"

(* Cancellation waits for the cancellation point of line 213.  A request   *)
(* that is there on entry is acted on with the mutex held; a sleeper takes *)
(* the mutex again first; a worker that was already woken passes the       *)
(* wake-up on, as the standard asks, or returns as if it had not been      *)
(* cancelled.                                                              *)
act_on_cancel(t) ==
  /\ t \in mem.cancel
  /\ \/ Step(t, 213, 184) /\ UNCHANGED cnd
     \/ t \in cnd.cnd /\ Step(t, -213, -184) /\ WakeUp(t, "cnd")
     \/ t \notin cnd.cnd /\ Step(t, -213, -184) /\ Signal("cnd")
  /\ UNCHANGED <<data, sem, mtx, verdict>>

cleanup(t) == MutexLock(t, -184, 184, "mtx") \/ MutexUnlock(t, 184, Ended, "mtx")

(* Mutant: the worker that was woken does not broadcast.                   *)
pass_on_not(t) == Goto(t, 226, 233)

pass_on(t) == Wake(t, 226, 233, Broadcast("cnd"))

worker(t) ==
  \/ MutexLock(t, 196, 200, "mtx")
  \/ Assign(t, 200, 213, [mem EXCEPT !.count = @ + 1])
  \/ t \notin mem.cancel /\ CondSleep(t, 213, "cnd", "mtx")
  \/ CondReturn(t, 213, 223, "cnd", "mtx")
  \/ act_on_cancel(t)
  \/ Goto(t, 223, IF mem.boolean = 0 THEN 213 ELSE 226)
  \/ pass_on(t)
  \/ MutexUnlock(t, 233, Ended, "mtx")
  \/ cleanup(t)

signaler(t) ==
  \/ Goto(t, 245, IF mem.boolean = -1 THEN 247 ELSE 252)
  \/ MutexLock(t, 247, 252, "mtx")
  \/ Wake(t, 256, 260, Signal("cnd"))
  \/ Goto(t, 260, IF mem.boolean = -1 THEN 262 ELSE Ended)
  \/ MutexUnlock(t, 262, Ended, "mtx")

start_workers(t) ==
  /\ pc[t] = 285
  /\ pc' = [u \in Thread |-> IF u \in Worker THEN 196 ELSE IF u = t THEN 304 ELSE pc[u]]
  /\ mem' = [mem EXCEPT !.boolean = 0, !.count = 0, !.cancel = {}]
  /\ UNCHANGED loc /\ Compute

start_signaler(t) ==
  /\ pc[t] = 317
  /\ pc' = [pc EXCEPT ![t] = 321, ![signaler_] = 245]
  /\ UNCHANGED data /\ Compute

(* Both calls of pthread_barrier_wait return together.                     *)
barrier(t) ==
  /\ pc[t] = 321 /\ pc[signaler_] = 252
  /\ pc' = [pc EXCEPT ![t] = 325, ![signaler_] = 256]
  /\ UNCHANGED data /\ Compute

(* randval of line 299 is used here only; a worker that ended is left      *)
(* alone.                                                                  *)
cancel(t) ==
  \E w \in Worker :
    Assign(t, 325, 337, [mem EXCEPT !.cancel = IF pc[w] = Ended THEN {} ELSE {w}])

join_cell(t) ==
  /\ \A u \in Worker \cup {signaler_} : pc[u] = Ended
  /\ Goto(t, 337, 282)

cellmanager(t) ==
  \/ Goto(t, 282, IF mem.do_it THEN 285 ELSE Ended)
  \/ start_workers(t)
  \/ MutexLock(t, 304, 309, "mtx")
  \/ MutexUnlock(t, 309, IF mem.count < NWorkers THEN 304 ELSE 314, "mtx")
  \/ \E b \in {-1, 1} : Assign(t, 314, 317, [mem EXCEPT !.boolean = b])
  \/ start_signaler(t)
  \/ barrier(t)
  \/ cancel(t)
  \/ join_cell(t)

sighdl == Assign(helper, 79, Ended, [mem EXCEPT !.do_it = FALSE])

join == pc[manager] = Ended /\ Step(main, 526, Ended) /\ Exit("PASS")

ThreadStep(t) ==
  /\ Running
  /\ CASE t \in Worker -> worker(t) [] t = signaler_ -> signaler(t) [] t = manager -> cellmanager(t)
       [] t = main -> join [] t = helper -> sighdl

Spurious == Running /\ \E t \in Worker : WakeUp(t, "cnd") /\ UNCHANGED <<pc, data, sem, mtx, verdict>>

Next == Spurious \/ \E t \in Thread : ThreadStep(t)

(* Nobody sleeps for ever, so the FAILED of line 218 ("A condition signal  *)
(* was probably lost") never blames a host that lost none: once the        *)
(* signaler has signalled, some other worker is on its way to line 226     *)
(* whenever one is asleep, even when the one that was woken is the one     *)
(* that is cancelled.                                                      *)
SomeoneWillBroadcast ==
  /\ pc[manager] \in {325, 337} /\ pc[signaler_] \in {260, 262, Ended}
  /\ cnd.cnd # {}
  => \E w \in Worker \ cnd.cnd : pc[w] \in {-213, 223, 226}
=============================================================================
