----------------------------- MODULE MutexStress -----------------------------
(***************************************************************************)
(* stress/threads/pthread_mutex_lock/stress.c, one cell: workers lock a    *)
(* mutex over and over while the signal thread sends SIGUSR2 to one after  *)
(* the other, each time once the handler of the last signal has posted     *)
(* semsig.  SIGUSR1 stops the cell.                                        *)
(***************************************************************************)
EXTENDS Threads

CONSTANTS NWorkers,   \* 9 in the code: 5 lock, 2 timedlock and 2 trylock threads
          Timed, Try  \* the workers that run timedlockthr and trylockthr

sigthr_ == 0
Worker == 1 .. NWorkers
helper == NWorkers + 1   \* stress/threads/helper.c, which sends SIGUSR1
Thread == {main, sigthr_, helper} \cup Worker

Init ==
  /\ pc = [t \in Thread |-> CASE t = main -> 441 [] t = sigthr_ -> 151 [] t = helper -> 79
             [] t \in Timed -> 273 [] t \in Try -> 322 [] OTHER -> 231]
  /\ loc = [t \in Worker |-> 0]
  /\ mem = [do_it |-> TRUE, sigok |-> FALSE, ctrl |-> 0, tcnt |-> 0, i |-> 0, key |-> {}, pending |-> {}]
  /\ sem = [semsig |-> 0] /\ mtx = [tmtx |-> NoThread, mtx |-> NoThread] /\ cnd = <<>>
  /\ verdict = "none"

(* The target of the next signal, threads[++i] after i %= 9 (167 and 168). *)
target == (mem.i % NWorkers) + 1

sigthr(t) ==
  \/ MutexLock(t, 151, 153, "tmtx")
  \/ Assign(t, 153, 154, [mem EXCEPT !.i = mem.tcnt])
  \/ MutexUnlock(t, 154, IF mem.i < NWorkers THEN 151 ELSE 159, "tmtx")
  \/ Goto(t, 159, IF mem.do_it THEN 162 ELSE 177)
  \/ SemWait(t, 162, 168, "semsig")
  \/ Assign(t, 168, 159, [mem EXCEPT !.i = target, !.pending = @ \cup {target}])
  \/ Assign(t, 177, Ended, [mem EXCEPT !.sigok = TRUE])

(* SIGUSR2 interrupts a worker anywhere before its end.                    *)
sighdl(t) ==
  /\ t \in mem.pending /\ pc[t] # Ended
  /\ mem' = [mem EXCEPT !.pending = @ \ {t}]
  /\ Post("semsig")
  /\ UNCHANGED <<pc, loc, mtx, cnd, verdict>>

(* Mutant: a worker ends without waiting for the signal thread.            *)
waitsigend_not(t, l) == Goto(t, l, Ended)

waitsigend(t, l) == mem.sigok /\ Goto(t, l, Ended)

(* control(), with the mutex held, of the call at line l.  Line 206 moves  *)
(* the pointer, not the value, so what line 209 reads is whatever byte     *)
(* follows the local variable.                                             *)
control(t, l, m) ==
  /\ UNCHANGED objects
  /\ \/ /\ pc[t] = l
        /\ IF mem.ctrl # 0 THEN verdict' = "FAIL" /\ UNCHANGED <<pc, data>>
           ELSE \E v \in {0, 1} : /\ pc' = [pc EXCEPT ![t] = -l]
                                  /\ loc' = [loc EXCEPT ![t] = v]
                                  /\ mem' = [mem EXCEPT !.ctrl = v]
                                  /\ UNCHANGED verdict
     \/ /\ pc[t] = -l
        /\ IF mem.ctrl # loc[t] THEN verdict' = "FAIL" /\ UNCHANGED <<pc, data>>
           ELSE /\ pc' = [pc EXCEPT ![t] = m]
                /\ loc' = [loc EXCEPT ![t] = 0]
                /\ mem' = [mem EXCEPT !.ctrl = 0]
                /\ UNCHANGED verdict

(* The three worker functions differ in the call that takes the mutex; an  *)
(* attempt that times out or finds the mutex busy is repeated and changes  *)
(* nothing.  Their lines: setspecific, tmtx, tcnt, unlock, lock, control,  *)
(* unlock, loop test, waitsigend.                                          *)
body(t, L) ==
  \/ Assign(t, L[1], L[2], [mem EXCEPT !.key = @ \cup {t}])
  \/ MutexLock(t, L[2], L[3], "tmtx")
  \/ Assign(t, L[3], L[4], [mem EXCEPT !.tcnt = @ + 1])
  \/ MutexUnlock(t, L[4], L[5], "tmtx")
  \/ MutexLock(t, L[5], L[6], "mtx")
  \/ control(t, L[6], L[7])
  \/ MutexUnlock(t, L[7], L[8], "mtx")
  \/ Goto(t, L[8], IF mem.do_it THEN L[5] ELSE L[9])
  \/ waitsigend(t, L[9])

lockthr(t) == body(t, <<231, 236, 238, 239, 245, 249, 251, 258, 261>>)
timedlockthr(t) == body(t, <<273, 278, 280, 281, 293, 298, 300, 307, 310>>)
trylockthr(t) == body(t, <<322, 326, 328, 329, 337, 342, 344, 351, 354>>)

globalsig == Assign(helper, 79, Ended, [mem EXCEPT !.do_it = FALSE])

join == (\A t \in Worker \cup {sigthr_} : pc[t] = Ended) /\ Step(main, 466, Ended) /\ Exit("PASS")

cell_init_main ==
  \/ SemPost(main, 441, 595, "semsig")
  \/ ~mem.do_it /\ Goto(main, 595, 466)
  \/ join

ThreadStep(t) ==
  /\ Running
  /\ CASE t = main -> cell_init_main [] t = sigthr_ -> sigthr(t) [] t = helper -> globalsig
       [] t \in Timed -> timedlockthr(t) [] t \in Try -> trylockthr(t) [] OTHER -> lockthr(t)

Handler == Running /\ \E t \in Worker : sighdl(t)

Next == Handler \/ \E t \in Thread : ThreadStep(t)

(* There is one baton: once main() has posted semsig and until the signal  *)
(* thread leaves its loop it is in the semaphore, in a signal under way or *)
(* in the hands of the signal thread, so no signal is sent while another   *)
(* is pending and the signal thread never waits for a post that will not   *)
(* come (lines 162, 168, 189 and 441).  It is handed only to a worker that *)
(* can pass it on, one that has set the key its handler reads and has not  *)
(* ended (comment of line 195, lines 153 to 168, 188 and 198).             *)
OneBaton ==
  /\ pc[main] # 441 /\ pc[sigthr_] \notin {177, Ended} =>
       sem.semsig + Cardinality(mem.pending) + (IF pc[sigthr_] = 168 THEN 1 ELSE 0) = 1
  /\ pc[sigthr_] = 168 => target \in mem.key /\ pc[target] # Ended
=============================================================================
