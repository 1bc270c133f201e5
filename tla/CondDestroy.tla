----------------------------- MODULE CondDestroy -----------------------------
(***************************************************************************)
(* conformance/interfaces/pthread_cond_destroy/2-1.c: main() broadcasts    *)
(* and destroys the condition variable at once, while its children are     *)
(* still on their way out of the wait, then initialises it again for a     *)
(* second pass.  The host is safe, or its destroy keeps threads that are   *)
(* still inside the wait.                                                  *)
(***************************************************************************)
EXTENDS Threads

CONSTANTS NTHREADS, NSCENAR

Child == 0 .. NTHREADS - 1
timer_ == NTHREADS
Thread == {main, timer_} \cup Child

(* alive: cnd is initialised; kept: the host kept a thread.                *)
Init ==
  /\ pc = [t \in Thread |-> IF t = main THEN 438 ELSE Ended]
  /\ loc = <<>>
  /\ mem \in [count1 : {0}, count2 : {0}, predicate1 : {0}, predicate2 : {0}, scenar : {0},
              alive : {FALSE}, host : {"safe", "unsafe"}, kept : {FALSE}]
  /\ sem = <<>> /\ mtx = [mtx1 |-> NoThread, mtx2 |-> NoThread] /\ cnd = [cnd |-> {}]
  /\ verdict = "none"

(* The first pass is left with count1 decremented, the second one is not.  *)
child(t) ==
  \/ MutexLock(t, 192, 196, "mtx1")
  \/ Assign(t, 196, 211, [mem EXCEPT !.count1 = @ + 1])
  \/ CondSleep(t, 211, "cnd", "mtx1")
  \/ CondReturn(t, 211, 214, "cnd", "mtx1")
  \/ Goto(t, 214, IF mem.predicate1 = 0 THEN 211 ELSE 222)
  \/ Assign(t, 222, 225, [mem EXCEPT !.count1 = @ - 1])
  \/ MutexUnlock(t, 225, 231, "mtx1")
  \/ MutexLock(t, 231, 235, "mtx2")
  \/ Assign(t, 235, 250, [mem EXCEPT !.count2 = @ + 1])
  \/ CondSleep(t, 250, "cnd", "mtx2")
  \/ CondReturn(t, 250, 253, "cnd", "mtx2")
  \/ Goto(t, 253, IF mem.predicate2 = 0 THEN 250 ELSE 262)
  \/ MutexUnlock(t, 262, Ended, "mtx2")

(* TIMEOUT seconds pass only when nothing else can happen.  A child in a   *)
(* timed wait reports the same failure (lines 215 and 254).                *)
timer(t) ==
  /\ pc[t] = 274 /\ pc[main] \in {532, 599} /\ cnd.cnd # {}
  /\ \A u \in Child : pc[u] = Ended \/ pc[u] = 231 \/ u \in cnd.cnd
  /\ Exit("FAIL") /\ UNCHANGED pc

(* Mutant: main() does not hold mtx2 during the first pass.                *)
set_up_unlocked ==
  /\ pc[main] = 438
  /\ pc' = [t \in Thread |-> CASE t = main -> 491 [] t \in Child -> 192 [] t = timer_ -> Ended]
  /\ mem' = [mem EXCEPT !.count1 = 0, !.count2 = 0, !.predicate1 = 0, !.predicate2 = 0, !.alive = TRUE]
  /\ UNCHANGED <<loc, objects, verdict>>

(* The mutexes and the condition variable are new in every scenario, and   *)
(* main() holds mtx2 when it creates the children.                         *)
set_up ==
  /\ pc[main] = 438
  /\ pc' = [t \in Thread |-> CASE t = main -> 491 [] t \in Child -> 192 [] t = timer_ -> Ended]
  /\ mem' = [mem EXCEPT !.count1 = 0, !.count2 = 0, !.predicate1 = 0, !.predicate2 = 0, !.alive = TRUE]
  /\ Lock(main, "mtx2")
  /\ UNCHANGED <<loc, sem, cnd, verdict>>

start_timer ==
  /\ pc[main] = 509
  /\ pc' = [pc EXCEPT ![main] = 513, ![timer_] = 274]
  /\ UNCHANGED data /\ Compute

broadcast(l, m, M) ==
  Step(main, l, m) /\ mem' = M /\ Broadcast("cnd") /\ UNCHANGED <<loc, sem, mtx, verdict>>

(* pthread_cond_destroy and the memset that follows.                       *)
destroy(l, m) ==
  /\ Step(main, l, m)
  /\ \E W \in IF mem.host = "unsafe" THEN SUBSET {t \in Child : pc[t] \in {-211, -250}} ELSE {{}} :
       /\ cnd' = [cnd EXCEPT !.cnd = @ \cup W]
       /\ mem' = [mem EXCEPT !.alive = FALSE, !.kept = @ \/ W # {}]
  /\ UNCHANGED <<loc, sem, mtx, verdict>>

join == (\A t \in Child : pc[t] = Ended) /\ Goto(main, 599, 638)

cancel_timer ==
  /\ pc[main] = 638
  /\ pc' = [pc EXCEPT ![main] = 650, ![timer_] = Ended]
  /\ UNCHANGED data /\ Compute

(* Line 650 destroys the variable that line 584 destroyed already and line *)
(* 588 filled with zeros: the host may take it for an initialised one or   *)
(* refuse.                                                                 *)
destroy_again ==
  \/ Goto(main, 650, 653)
  \/ Step(main, 650, Ended) /\ Exit("UNRESOLVED")

next_scenario ==
  LET s == mem.scenar + 1 IN
    \/ s < NSCENAR /\ Assign(main, 653, 438, [mem EXCEPT !.scenar = s])
    \/ s = NSCENAR /\ Step(main, 653, Ended) /\ Exit("PASS")

main_ ==
  \/ set_up
  \/ MutexLock(main, 491, 494, "mtx1")
  \/ mem.count1 < NTHREADS /\ MutexUnlock(main, 494, 491, "mtx1")
  \/ mem.count1 >= NTHREADS /\ Goto(main, 494, 509)
  \/ start_timer
  \/ broadcast(513, 517, [mem EXCEPT !.predicate1 = 1])
  \/ MutexUnlock(main, 517, 521, "mtx1")
  \/ destroy(521, 532)
  \/ MutexLock(main, 532, 535, "mtx1")
  \/ MutexUnlock(main, 535, IF mem.count1 > 0 THEN 532 ELSE 551, "mtx1")
  \/ Assign(main, 551, 560, [mem EXCEPT !.alive = TRUE])
  \/ mem.count2 < NTHREADS /\ MutexUnlock(main, 560, 565, "mtx2")
  \/ MutexLock(main, 565, 560, "mtx2")
  \/ mem.count2 >= NTHREADS /\ Goto(main, 560, 575)
  \/ broadcast(575, 580, [mem EXCEPT !.predicate2 = 1])
  \/ MutexUnlock(main, 580, 584, "mtx2")
  \/ destroy(584, 599)
  \/ join
  \/ cancel_timer
  \/ destroy_again
  \/ next_scenario

ThreadStep(t) ==
  Running /\ CASE t = main -> main_ [] t = timer_ -> timer(t) [] t \in Child -> child(t)

(* A safe host may also wake a waiter for no reason.                       *)
Spurious ==
  /\ Running /\ mem.host = "safe"
  /\ \E t \in Child : WakeUp(t, "cnd")
  /\ UNCHANGED <<pc, data, sem, mtx, verdict>>

Next == Spurious \/ \E t \in Thread : ThreadStep(t)

(* "It is safe to destroy a condition variable when no thread is blocked   *)
(* on it" (line 20): the test itself keeps to that.  No child is blocked   *)
(* when main() destroys the variable, not one woken before its time, no    *)
(* child comes to wait before it is initialised again (lines 444, 521 to   *)
(* 551 and 584), and main() does not broadcast or destroy it in between    *)
(* but for line 650, which destroys it a second time.                      *)
DestroyedUnused ==
  /\ pc[main] \in {521, 584} => cnd.cnd = {}
  /\ ~mem.alive => /\ pc[main] \notin {513, 521, 575, 584}
                   /\ \A t \in Child : pc[t] \notin {211, 250}

(* FAIL ("Test failed (hang)", line 276) exactly when the host kept a      *)
(* thread that a broadcast had woken.                                      *)
DestroyVerdict == ~Running => (verdict = "FAIL" <=> mem.kept)
=============================================================================
