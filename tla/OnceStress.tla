----------------------------- MODULE OnceStress -----------------------------
(***************************************************************************)
(* stress/threads/pthread_once/stress.c: in each round NTHREADS threads    *)
(* leave a barrier together and call pthread_once; main() then looks at    *)
(* how often the initializer ran.  The host is sound, or runs the          *)
(* initializer again for a caller that comes before its first run is over. *)
(***************************************************************************)
EXTENDS Threads

CONSTANT NTHREADS

Worker == 0 .. NTHREADS - 1
helper == NTHREADS       \* stress/threads/helper.c, which sends SIGUSR1
Thread == {main, helper} \cup Worker

Init ==
  /\ pc = [t \in Thread |-> CASE t = main -> 194 [] t = helper -> 79 [] OTHER -> Ended]
  /\ loc = [t \in Worker |-> 0]
  /\ mem \in [do_it : {TRUE}, once_ctl : {"init"}, once_chk : {0}, runs : {0}, host : {"sound", "twice"}]
  /\ sem = <<>> /\ mtx = [mtx |-> NoThread] /\ cnd = <<>>
  /\ verdict = "none"

barrier(t) ==
  /\ pc[t] = 130 /\ \A u \in Worker : pc[u] = 130
  /\ pc' = [u \in Thread |-> IF u \in Worker THEN 138 ELSE pc[u]]
  /\ UNCHANGED data /\ Compute

(* pthread_once: who comes first runs the initializer, the others wait for *)
(* its end.                                                                *)
pthread_once(t) ==
  \/ /\ mem.once_ctl = "init" \/ (mem.host = "twice" /\ mem.once_ctl = "running" /\ mem.runs = 1)
     /\ Assign(t, 138, 104, [mem EXCEPT !.once_ctl = "running", !.runs = @ + 1])
  \/ mem.once_ctl = "done" /\ Goto(t, 138, Ended)
  \/ Assign(t, -138, Ended, [mem EXCEPT !.once_ctl = "done"])

(* once_chk++ is a read and a write.                                       *)
increment(t) ==
  \/ Step(t, 111, -111) /\ loc' = [loc EXCEPT ![t] = mem.once_chk] /\ UNCHANGED mem /\ Compute
  \/ /\ Step(t, -111, 113)
     /\ mem' = [mem EXCEPT !.once_chk = loc[t] + 1]
     /\ loc' = [loc EXCEPT ![t] = 0]
     /\ Compute

(* Mutant: the counter is not protected.                                   *)
init_routine_unlocked(t) == Goto(t, 104, 111) \/ increment(t) \/ Goto(t, 113, -138)

init_routine(t) ==
  \/ MutexLock(t, 104, 111, "mtx")
  \/ increment(t)
  \/ MutexUnlock(t, 113, -138, "mtx")

threaded(t) == barrier(t) \/ pthread_once(t) \/ init_routine(t)

start_threads ==
  /\ pc[main] = 197
  /\ pc' = [t \in Thread |-> IF t \in Worker THEN 130 ELSE IF t = main THEN 215 ELSE pc[t]]
  /\ mem' = [mem EXCEPT !.once_ctl = "init", !.once_chk = 0, !.runs = 0]
  /\ UNCHANGED loc /\ Compute

join == (\A t \in Worker : pc[t] = Ended) /\ Goto(main, 215, 224)

check ==
  \/ mem.once_chk = 1 /\ Goto(main, 231, 237)
  \/ mem.once_chk # 1 /\ Step(main, 231, Ended) /\ Exit("FAIL")

main_ ==
  \/ mem.do_it /\ Goto(main, 194, 197)
  \/ ~mem.do_it /\ Step(main, 194, Ended) /\ Exit("PASS")
  \/ start_threads
  \/ join
  \/ MutexLock(main, 224, 231, "mtx")
  \/ check
  \/ MutexUnlock(main, 237, 194, "mtx")

sighdl == Assign(helper, 79, Ended, [mem EXCEPT !.do_it = FALSE])

ThreadStep(t) ==
  Running /\ CASE t = main -> main_ [] t = helper -> sighdl [] t \in Worker -> threaded(t)

Next == \E t \in Thread : ThreadStep(t)

(* FAIL ("The initializer function did not execute once", line 234)        *)
(* exactly when the host ran the initializer more than once in a round:    *)
(* two runs at the same time are not counted as one (lines 104 to 113),    *)
(* and the last round is clean whenever the test passes.                   *)
OnceVerdict == ~Running => (verdict = "FAIL" <=> mem.runs > 1)
=============================================================================
