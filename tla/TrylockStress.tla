---------------------------- MODULE TrylockStress ----------------------------
(***************************************************************************)
(* stress/threads/pthread_mutex_trylock/stress.c: in each round main()     *)
(* unlocks the next mutex and tries to lock it again until it is busy; the *)
(* child that got it meets main() at a barrier of two and tells the others *)
(* to stop.  The host is sound, or pthread_mutex_trylock may answer EBUSY  *)
(* to the thread that it gives the mutex to.                               *)
(***************************************************************************)
EXTENDS Threads

CONSTANTS NCHILDREN,
          NMUTEX    \* NSCENAR + 2, the mutexes the rounds go through

Child == 0 .. NCHILDREN - 1
helper == NCHILDREN      \* stress/threads/helper.c, which sends SIGUSR1
timer_thread == NCHILDREN + 1
Thread == {main, helper, timer_thread} \cup Child

Init ==
  /\ pc = [t \in Thread |-> CASE t = main -> 283 [] t = helper -> 79 [] OTHER -> Ended]
  /\ loc = <<>>
  /\ mem \in [do_it : {TRUE}, go_on : {FALSE}, i : {0}, lied : {"never"}, host : {"sound", "lies"}]
  /\ sem = <<>> /\ mtx = [i \in 0 .. NMUTEX - 1 |-> NoThread] /\ cnd = <<>>
  /\ verdict = "none"

busy == mtx[mem.i] # NoThread

(* The host gives the mutex away and answers EBUSY, once.                  *)
lie(t, l, m) ==
  /\ mem.host = "lies" /\ mem.lied = "never"
  /\ Step(t, l, m) /\ Lock(t, mem.i)
  /\ mem' = [mem EXCEPT !.lied = IF mem.go_on THEN "in the round" ELSE "after it"]
  /\ UNCHANGED <<loc, sem, cnd, verdict>>

(* EBUSY while go_on is set only repeats the loop of line 164.  A child    *)
(* that reads go_on after the mutex was unlocked ends as if it had read it *)
(* just before.                                                            *)
threaded(t) ==
  \/ MutexLock(t, 167, 177, mem.i)
  \/ lie(t, 167, 167)
  \/ busy /\ ~mem.go_on /\ Goto(t, 167, Ended)
  \/ Goto(t, 177, IF mem.go_on THEN 184 ELSE 195)
  \/ Assign(t, 188, 195, [mem EXCEPT !.go_on = FALSE])
  \/ MutexUnlock(t, 195, Ended, mem.i)

barrier(t) ==
  /\ pc[main] = 331 /\ pc[t] = 184
  /\ pc' = [pc EXCEPT ![main] = 335, ![t] = 188]
  /\ UNCHANGED data /\ Compute

(* TIMEOUT is over: nobody of the round can go on.                         *)
timer ==
  /\ \/ pc[main] = 293 /\ busy
     \/ pc[main] = 331 /\ \A t \in Child : pc[t] # 184
  /\ \A t \in Child : pc[t] = Ended \/ (pc[t] = 167 /\ busy /\ mem.go_on)
  /\ Step(timer_thread, 116, Ended) /\ Exit("FAIL")

start_timer ==
  /\ mem.do_it /\ pc[main] = 283
  /\ pc' = [pc EXCEPT ![main] = 293, ![timer_thread] = 116]
  /\ UNCHANGED data /\ Compute

start_children ==
  /\ pc[main] = 297
  /\ pc' = [t \in Thread |-> IF t \in Child THEN 167 ELSE IF t = main THEN 313 ELSE pc[t]]
  /\ mem' = [mem EXCEPT !.go_on = TRUE]
  /\ UNCHANGED loc /\ Compute

(* Mutant: the loop of line 310 ends when the lock succeeds, too.          *)
trylock_again_once ==
  \/ MutexUnlock(main, 313, 320, mem.i)
  \/ MutexLock(main, 320, 331, mem.i)
  \/ lie(main, 320, 331)
  \/ busy /\ Goto(main, 320, 331)

trylock_again ==
  \/ MutexUnlock(main, 313, 320, mem.i)
  \/ MutexLock(main, 320, 313, mem.i)
  \/ lie(main, 320, 331)
  \/ busy /\ Goto(main, 320, 331)

cancel_timer ==
  /\ pc[main] = 335
  /\ pc' = [pc EXCEPT ![main] = 343, ![timer_thread] = Ended]
  /\ UNCHANGED data /\ Compute

join ==
  /\ \A t \in Child : pc[t] = Ended
  /\ Assign(main, 343, 283, [mem EXCEPT !.i = (@ + 1) % NMUTEX])

main_ ==
  \/ start_timer
  \/ ~mem.do_it /\ Step(main, 283, Ended) /\ Exit("PASS")
  \/ MutexLock(main, 293, 297, mem.i)
  \/ start_children
  \/ trylock_again
  \/ \E t \in Child : barrier(t)
  \/ cancel_timer
  \/ join

sighdl == Assign(helper, 79, Ended, [mem EXCEPT !.do_it = FALSE])

ThreadStep(t) ==
  Running /\ CASE t = main -> main_ [] t = helper -> sighdl [] t = timer_thread -> timer
               [] t \in Child -> threaded(t)

Next == \E t \in Thread : ThreadStep(t)

(* "EBUSY was returned while a thread acquired the mutex" (line 118) is    *)
(* said only of a host that did so, and always when it did so before the   *)
(* children were told to stop: neither a child that takes the mutex after  *)
(* the barrier nor one that comes late can hold up the round.              *)
TrylockVerdict ==
  ~Running => /\ verdict = "FAIL" => mem.lied # "never"
              /\ verdict = "PASS" => mem.lied # "in the round"
=============================================================================
