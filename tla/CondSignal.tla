------------------------------ MODULE CondSignal ------------------------------
(***************************************************************************)
(* conformance/interfaces/pthread_cond_signal/1-2.c: the children wait on  *)
(* a condition variable, main() signals it once and every woken child      *)
(* signals the next.  The test is to pass on a host that loses no signal   *)
(* and to fail, by its timeout, on one that does; which of the two it runs *)
(* on is chosen at the start.                                              *)
(***************************************************************************)
EXTENDS Threads

CONSTANTS NTHREADS, NSCENAR

Child == 0 .. NTHREADS - 1
timer_ == NTHREADS
Thread == {main, timer_} \cup Child

Init ==
  /\ pc = [t \in Thread |-> IF t = main THEN 417 ELSE Ended]
  /\ loc = <<>>
  /\ mem \in [count : {0}, predicate : {0}, scenar : {0}, host : {"sound", "lossy"}, lost : {FALSE}]
  /\ sem = <<>> /\ mtx = [mtx |-> NoThread] /\ cnd = [cnd |-> {}]
  /\ verdict = "none"

(* pthread_cond_signal of the host under test, with M the memory after the *)
(* statement: a lossy host may drop a signal somebody waits for.           *)
signal(t, l, m, M) ==
  /\ Step(t, l, m)
  /\ \/ Signal("cnd") /\ mem' = M
     \/ mem.host = "lossy" /\ cnd.cnd # {} /\ mem' = [M EXCEPT !.lost = TRUE] /\ UNCHANGED cnd
  /\ UNCHANGED <<loc, sem, mtx, verdict>>

child(t) ==
  \/ MutexLock(t, 189, 193, "mtx")
  \/ Assign(t, 193, 207, [mem EXCEPT !.count = @ + 1])
  \/ CondSleep(t, 207, "cnd", "mtx")
  \/ CondReturn(t, 207, 214, "cnd", "mtx")
  \/ Goto(t, 214, IF mem.predicate = 0 THEN 207 ELSE 222)
  \/ signal(t, 222, 226, mem)
  \/ MutexUnlock(t, 226, Ended, "mtx")

(* TIMEOUT seconds pass only when nothing else can happen.                 *)
Stuck == pc[main] = 492 /\ \A t \in Child : pc[t] = Ended \/ t \in cnd.cnd

timer(t) ==
  /\ pc[t] = 237
  /\ Stuck /\ cnd.cnd # {}
  /\ Exit("FAIL") /\ UNCHANGED pc

(* Mutant: the count of the last scenario is kept.                         *)
start_children_counted ==
  /\ pc[main] = 417
  /\ pc' = [t \in Thread |-> IF t \in Child THEN 189 ELSE IF t = main THEN 449 ELSE pc[t]]
  /\ UNCHANGED data /\ Compute

start_children ==
  /\ pc[main] = 417
  /\ pc' = [t \in Thread |-> IF t \in Child THEN 189 ELSE IF t = main THEN 449 ELSE pc[t]]
  /\ mem' = [mem EXCEPT !.count = 0]
  /\ UNCHANGED loc /\ Compute

start_timer ==
  /\ pc[main] = 468
  /\ pc' = [pc EXCEPT ![main] = 473, ![timer_] = 237]
  /\ UNCHANGED data /\ Compute

join == (\A t \in Child : pc[t] = Ended) /\ Goto(main, 492, 527)

cancel_timer ==
  /\ pc[main] = 527
  /\ pc' = [pc EXCEPT ![main] = 539, ![timer_] = Ended]
  /\ UNCHANGED data /\ Compute

next_scenario ==
  LET s == mem.scenar + 1 IN
    \/ s < NSCENAR /\ Assign(main, 539, 417, [mem EXCEPT !.scenar = s])
    \/ s = NSCENAR /\ Step(main, 539, Ended) /\ Exit("PASS")

main_ ==
  \/ start_children
  \/ MutexLock(main, 449, 452, "mtx")
  \/ mem.count < NTHREADS /\ MutexUnlock(main, 452, 449, "mtx")
  \/ mem.count >= NTHREADS /\ Goto(main, 452, 468)
  \/ start_timer
  \/ signal(main, 473, 480, [mem EXCEPT !.predicate = 1])
  \/ MutexUnlock(main, 480, 492, "mtx")
  \/ join
  \/ cancel_timer
  \/ next_scenario

ThreadStep(t) ==
  Running /\ CASE t = main -> main_ [] t = timer_ -> timer(t) [] t \in Child -> child(t)

(* A sound host may also wake a waiter for no reason.                      *)
Spurious ==
  /\ Running /\ mem.host = "sound"
  /\ \E t \in Child : WakeUp(t, "cnd")
  /\ UNCHANGED <<pc, data, sem, mtx, verdict>>

Next == Spurious \/ \E t \in Thread : ThreadStep(t)

(* The verdict is about the host: FAIL ("A signal was lost", line 239)     *)
(* exactly when the host lost one, in whichever scenario, although the     *)
(* predicate is still set from the scenario before (lines 417 and 472).    *)
SignalVerdict == ~Running => (verdict = "FAIL" <=> mem.lost)
=============================================================================
