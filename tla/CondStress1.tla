----------------------------- MODULE CondStress1 -----------------------------
(***************************************************************************)
(* stress/threads/pthread_cond_timedwait/stress1.c: a child and its grand  *)
(* child wake each other through one condition variable until SIGUSR1      *)
(* sets the boolean both of them poll.  The handler takes no mutex and     *)
(* signals nobody.                                                         *)
(***************************************************************************)
EXTENDS Threads

A == 0
B == 1
helper == 2        \* stress/threads/helper.c, which sends SIGUSR1
Thread == {main, A, B, helper}

Init ==
  /\ pc = [t \in Thread |-> CASE t = main -> 583 [] t = A -> 249 [] t = B -> Ended [] t = helper -> 79]
  /\ loc = <<>>
  /\ mem = [boolean |-> 0]
  /\ sem = <<>> /\ mtx = [mtx |-> NoThread] /\ cnd = [cnd |-> {}]
  /\ verdict = "none"

(* A loop test of line l: on to line m while the boolean is 0, else to n.  *)
test_bool(t, l, m, n) == Goto(t, l, IF mem.boolean = 0 THEN m ELSE n)

threaded_B(t) ==
  \/ MutexLock(t, 206, 209, "mtx")
  \/ test_bool(t, 209, 211, 228)
  \/ Wake(t, 211, 219, Broadcast("cnd"))
  \/ CondSleep(t, 219, "cnd", "mtx")
  \/ CondReturn(t, 219, 209, "cnd", "mtx")
  \/ Wake(t, 228, 231, Broadcast("cnd"))
  \/ MutexUnlock(t, 231, Ended, "mtx")

create_B(t) ==
  /\ pc[t] = 255
  /\ pc' = [pc EXCEPT ![t] = 270, ![B] = 206]
  /\ UNCHANGED data /\ Compute

join_B(t) == pc[B] = Ended /\ Goto(t, 294, Ended)

threaded_A(t) ==
  \/ MutexLock(t, 249, 255, "mtx")
  \/ create_B(t)
  \/ test_bool(t, 270, 277, 288)
  \/ CondSleep(t, 277, "cnd", "mtx")
  \/ CondReturn(t, 277, 284, "cnd", "mtx")
  \/ Wake(t, 284, 270, Signal("cnd"))
  \/ MutexUnlock(t, 288, 294, "mtx")
  \/ join_B(t)

sighdl == Assign(helper, 79, Ended, [mem EXCEPT !.boolean = 1])

join == pc[A] = Ended /\ Step(main, 583, Ended) /\ Exit("PASS")

ThreadStep(t) ==
  /\ Running
  /\ CASE t = A -> threaded_A(t) [] t = B -> threaded_B(t) [] t = main -> join [] t = helper -> sighdl

Spurious == Running /\ \E t \in {A, B} : WakeUp(t, "cnd") /\ UNCHANGED <<pc, data, sem, mtx, verdict>>

Next == Spurious \/ \E t \in Thread : ThreadStep(t)

(* "This means a cond signal was lost" (line 222) would be wrong of a host *)
(* that loses none: the two threads are never asleep together, and none    *)
(* sleeps once the other one is past its last wake-up.                     *)
NobodyForgotten ==
  \A t \in cnd.cnd : LET u == 1 - t IN u \notin cnd.cnd /\ pc[u] \notin {231, 288, 294, Ended}
=============================================================================
