---------------------------- MODULE CondBroadcast ----------------------------
(***************************************************************************)
(* conformance/interfaces/pthread_cond_broadcast/1-2.c: as many children   *)
(* as can be created wait on a condition variable and main() broadcasts    *)
(* it.  A timer thread, started by a semaphore, reports the broadcast as   *)
(* lost.  The host the test runs on is sound or loses wake-ups.            *)
(***************************************************************************)
EXTENDS Threads

CONSTANTS MAX_CHILDREN, NSCENAR

Child == 0 .. MAX_CHILDREN - 1
timer_ == MAX_CHILDREN
Thread == {main, timer_} \cup Child

Init ==
  /\ pc = [t \in Thread |-> IF t = main THEN 462 ELSE Ended]
  /\ loc = <<>>
  /\ mem \in [count : {0}, child_count : {0}, predicate : {0}, scenar : {0},
              host : {"sound", "lossy"}, lost : {FALSE}]
  /\ sem = [sem_tmr |-> 0] /\ mtx = [mtx |-> NoThread] /\ cnd = [cnd |-> {}]
  /\ verdict = "none"

child(t) ==
  \/ MutexLock(t, 202, 206, "mtx")
  \/ Assign(t, 206, 220, [mem EXCEPT !.count = @ + 1])
  \/ CondSleep(t, 220, "cnd", "mtx")
  \/ CondReturn(t, 220, 227, "cnd", "mtx")
  \/ Goto(t, 227, IF mem.predicate = 0 THEN 220 ELSE 235)
  \/ MutexUnlock(t, 235, Ended, "mtx")

(* TIMEOUT seconds pass only when nothing else can happen.                 *)
Stuck == pc[main] = 588 /\ \A t \in Child : pc[t] = Ended \/ t \in cnd.cnd

timer(t) ==
  \/ SemWait(t, 265, 269, "sem_tmr")
  \/ pc[t] = 269 /\ Stuck /\ cnd.cnd # {} /\ Exit("FAIL") /\ UNCHANGED pc

(* Lines 471 to 540 create children until the host refuses another one.    *)
create ==
  \E n \in 1 .. MAX_CHILDREN :
    /\ pc[main] = 462
    /\ pc' = [t \in Thread |-> CASE t = main -> 543 [] t = timer_ -> 265
                                 [] t \in Child -> IF t < n THEN 202 ELSE Ended]
    /\ mem' = [mem EXCEPT !.count = 0, !.child_count = n]
    /\ UNCHANGED loc /\ Compute

(* A lossy host leaves some of the waiters asleep.                         *)
broadcast ==
  /\ Step(main, 566, 574)
  /\ \E W \in IF mem.host = "lossy" THEN SUBSET cnd.cnd ELSE {{}} :
       /\ cnd' = [cnd EXCEPT !.cnd = W]
       /\ mem' = [mem EXCEPT !.predicate = 1, !.lost = W # {}]
  /\ UNCHANGED <<loc, sem, mtx, verdict>>

join == (\A t \in Child : pc[t] = Ended) /\ Goto(main, 588, 620)

cancel_timer ==
  /\ pc[main] = 620
  /\ pc' = [pc EXCEPT ![main] = 632, ![timer_] = Ended]
  /\ UNCHANGED data /\ Compute

next_scenario ==
  LET s == mem.scenar + 1 IN
    \/ s < NSCENAR /\ Assign(main, 632, 462, [mem EXCEPT !.scenar = s])
    \/ s = NSCENAR /\ Step(main, 632, Ended) /\ Exit("PASS")

main_ ==
  \/ create
  \/ MutexLock(main, 543, 546, "mtx")
  \/ mem.count < mem.child_count /\ MutexUnlock(main, 546, 543, "mtx")
  \/ mem.count >= mem.child_count /\ Goto(main, 546, 561)
  \/ SemPost(main, 561, 566, "sem_tmr")
  \/ broadcast
  \/ MutexUnlock(main, 574, 588, "mtx")
  \/ join
  \/ cancel_timer
  \/ next_scenario

ThreadStep(t) ==
  Running /\ CASE t = main -> main_ [] t = timer_ -> timer(t) [] t \in Child -> child(t)

(* A sound host may also wake a waiter for no reason.                      *)
Spurious ==
  /\ Running /\ mem.host = "sound"
  /\ \E t \in Child : WakeUp(t, "cnd")
  /\ UNCHANGED <<pc, data, sem, mtx, verdict>>

Next == Spurious \/ \E t \in Thread : ThreadStep(t)

(* FAIL ("A signal was lost", line 271) exactly when the host left a       *)
(* waiter asleep, although main() wakes them with the predicate still set  *)
(* from the scenario before (lines 462 and 566).                           *)
BroadcastVerdict == ~Running => (verdict = "FAIL" <=> mem.lost)
=============================================================================
