----------------------------- MODULE MCPrograms -----------------------------
(***************************************************************************)
(* The programs of the suite on small instances.  The suite runs one       *)
(* program at a time; prog says which one a behaviour is of.               *)
(***************************************************************************)
EXTENDS Threads, TLC

VARIABLE prog

ConPro == INSTANCE SemConPro WITH BUF_SIZE <- 2, Max_Num <- 5
Multi == INSTANCE MultiConPro WITH BUF_SIZE <- 2, Max_Num <- 3, num <- 2
Philosophers == INSTANCE SemPhilosopher WITH PH_NUM <- 4, LOOP_NUM <- 2
ReaderWriter == INSTANCE SemReaderWriter WITH READ_NUM <- 3, WRITE_NUM <- 2
Barber == INSTANCE SemBarber WITH CHAIR_NUM <- 2, CUS_NUM <- 3, LOOP_NUM <- 4
Stress1 == INSTANCE CondStress1
Stress2 == INSTANCE CondStress2 WITH NCHILDREN <- 1
LockStress == INSTANCE MutexStress WITH NWorkers <- 3, Timed <- {2}, Try <- {3}
Once == INSTANCE OnceStress WITH NTHREADS <- 3
Trylock == INSTANCE TrylockStress WITH NCHILDREN <- 3, NMUTEX <- 2
SignalTest == INSTANCE CondSignal WITH NTHREADS <- 3, NSCENAR <- 2
BroadcastTest == INSTANCE CondBroadcast WITH MAX_CHILDREN <- 3, NSCENAR <- 2
DestroyTest == INSTANCE CondDestroy WITH NTHREADS <- 3, NSCENAR <- 2
PriorityTest == INSTANCE SemPriority
Monitor == INSTANCE Helper

(* Two clients of the unnamed semaphores: a shared semaphore of process 0, *)
(* which has two threads, used by process 1 too; and two threads with two  *)
(* private semaphores and a shared one, whose key belongs into the same    *)
(* list.  They stop after the creation of MaxSets sets.                    *)
Shared == INSTANCE SemTable WITH
  Sem <- {"shared"}, key <- [shared |-> 4], Owner <- [shared |-> 0],
  proc <- (0 :> 0 @@ 1 :> 0 @@ 2 :> 1), HASH_TABLE_SIZE <- 3, SEMVMX <- 1,
  Calls <- {"sem_post", "sem_wait", "sem_trywait", "sem_getvalue", "sem_destroy"},
  Leftover <- <<>>, MaxSets <- 2
OneList == INSTANCE SemTable WITH
  Sem <- {"private", "other", "shared"},
  key <- [private |-> Shared!IPC_PRIVATE, other |-> Shared!IPC_PRIVATE, shared |-> 3],
  Owner <- [private |-> 0, other |-> 0, shared |-> 0],
  proc <- (0 :> 0 @@ 1 :> 0), HASH_TABLE_SIZE <- 3, SEMVMX <- 1,
  Calls <- {"sem_post", "sem_destroy"}, Leftover <- <<3>>, MaxSets <- 3

Init ==
  \/ prog = "sem_conpro" /\ ConPro!Init
  \/ prog = "multi_con_pro" /\ Multi!Init
  \/ prog = "sem_philosopher" /\ Philosophers!Init
  \/ prog = "sem_readerwriter" /\ ReaderWriter!Init
  \/ prog = "sem_sleepingbarber" /\ Barber!Init
  \/ prog = "pthread_cond_timedwait/stress1" /\ Stress1!Init
  \/ prog = "pthread_cond_timedwait/stress2" /\ Stress2!Init
  \/ prog = "pthread_mutex_lock/stress" /\ LockStress!Init
  \/ prog = "pthread_once/stress" /\ Once!Init
  \/ prog = "pthread_mutex_trylock/stress" /\ Trylock!Init
  \/ prog = "pthread_cond_signal/1-2" /\ SignalTest!Init
  \/ prog = "pthread_cond_broadcast/1-2" /\ BroadcastTest!Init
  \/ prog = "pthread_cond_destroy/2-1" /\ DestroyTest!Init
  \/ prog = "sem_post/8-1" /\ PriorityTest!Init
  \/ prog = "helper" /\ Monitor!Init
  \/ prog = "shared semaphore" /\ Shared!Init
  \/ prog = "semaphores of one list" /\ OneList!Init

Clients == {"shared semaphore", "semaphores of one list"}

Number == -1 .. 5     \* the threads of all the programs

SemThread(t) ==
  /\ t \in DOMAIN pc
  /\ \/ prog = "sem_conpro" /\ ConPro!ThreadStep(t)
     \/ prog = "multi_con_pro" /\ Multi!ThreadStep(t)
     \/ prog = "sem_philosopher" /\ Philosophers!ThreadStep(t)
     \/ prog = "sem_readerwriter" /\ ReaderWriter!ThreadStep(t)
     \/ prog = "sem_sleepingbarber" /\ Barber!ThreadStep(t)
     \/ prog = "sem_post/8-1" /\ PriorityTest!ThreadStep(t)
     \/ prog = "helper" /\ Monitor!ThreadStep(t)
  /\ UNCHANGED prog

MutexThread(t) ==
  /\ t \in DOMAIN pc
  /\ \/ prog = "pthread_cond_timedwait/stress1" /\ Stress1!ThreadStep(t)
     \/ prog = "pthread_cond_timedwait/stress2" /\ Stress2!ThreadStep(t)
     \/ prog = "pthread_mutex_lock/stress" /\ LockStress!ThreadStep(t)
     \/ prog = "pthread_once/stress" /\ Once!ThreadStep(t)
     \/ prog = "pthread_mutex_trylock/stress" /\ Trylock!ThreadStep(t)
     \/ prog = "pthread_cond_signal/1-2" /\ SignalTest!ThreadStep(t)
     \/ prog = "pthread_cond_broadcast/1-2" /\ BroadcastTest!ThreadStep(t)
     \/ prog = "pthread_cond_destroy/2-1" /\ DestroyTest!ThreadStep(t)
  /\ UNCHANGED prog

(* The handler of a signal that was sent runs.                             *)
Handler == prog = "pthread_mutex_lock/stress" /\ LockStress!Handler /\ UNCHANGED prog

(* What nothing obliges to happen: a wake-up without a signal, a call.     *)
Optional ==
  /\ \/ prog = "pthread_cond_timedwait/stress1" /\ Stress1!Spurious
     \/ prog = "pthread_cond_timedwait/stress2" /\ Stress2!Spurious
     \/ prog = "pthread_cond_signal/1-2" /\ SignalTest!Spurious
     \/ prog = "pthread_cond_broadcast/1-2" /\ BroadcastTest!Spurious
     \/ prog = "pthread_cond_destroy/2-1" /\ DestroyTest!Spurious
     \/ prog = "shared semaphore" /\ Shared!Next
     \/ prog = "semaphores of one list" /\ OneList!Next
  /\ UNCHANGED prog

Next == Handler \/ Optional \/ \E t \in Number : SemThread(t) \/ MutexThread(t)

allvars == <<vars, prog>>

(* A thread that can go on goes on; one that shares a mutex also if the    *)
(* mutex is taken from it in between: the host does not give a mutex to    *)
(* the same thread for ever.                                               *)
Spec ==
  /\ Init /\ [][Next]_allvars
  /\ WF_allvars(Handler) /\ \A t \in Number : WF_allvars(SemThread(t)) /\ SF_allvars(MutexThread(t))

(* The client of the shared semaphore alone.                               *)
SharedSpec == prog = "shared semaphore" /\ Shared!Init /\ [][Next]_allvars

(* What each program promises of itself; see the modules.                  *)

(* sem_conpro.c: every item is consumed once, in the order of production.  *)
ConsumedInOrder == prog = "sem_conpro" => ConPro!ConsumedInOrder

(* multi_con_pro.c: the same with several producers and consumers, of      *)
(* which each may stop at the other's end marker.                          *)
ConsumedOnce == prog = "multi_con_pro" => Multi!ConsumedOnce

(* sem_philosopher.c: neighbours never eat together, and no permission to  *)
(* eat is lost or given twice.                                             *)
NeighboursApart == prog = "sem_philosopher" => Philosophers!NeighboursApart

(* sem_readerwriter.c: a writer has the board for itself.                  *)
BoardExclusion == prog = "sem_readerwriter" => ReaderWriter!BoardExclusion

(* sem_sleepingbarber.c: the count of waiting customers, the semaphores    *)
(* and the haircuts agree.                                                 *)
CustomersExact == prog = "sem_sleepingbarber" => Barber!CustomersExact

(* pthread_cond_timedwait/stress1.c and stress2.c: no thread sleeps when   *)
(* nobody is left to wake it, whoever is cancelled.                        *)
NobodyForgotten ==
  /\ prog = "pthread_cond_timedwait/stress1" => Stress1!NobodyForgotten
  /\ prog = "pthread_cond_timedwait/stress2" => Stress2!SomeoneWillBroadcast

(* pthread_mutex_lock/stress.c: there is one SIGUSR2 under way at a time,  *)
(* to a worker that can handle it.                                         *)
OneBaton == prog = "pthread_mutex_lock/stress" => LockStress!OneBaton

(* pthread_once/stress.c: FAIL exactly when the initializer ran twice.     *)
OnceVerdict == prog = "pthread_once/stress" => Once!OnceVerdict

(* pthread_mutex_trylock/stress.c: FAIL only when EBUSY came with the      *)
(* mutex, and always when it did so while the round was on.                *)
TrylockVerdict == prog = "pthread_mutex_trylock/stress" => Trylock!TrylockVerdict

(* pthread_cond_signal/1-2.c, pthread_cond_broadcast/1-2.c and             *)
(* pthread_cond_destroy/2-1.c: FAIL exactly when the host lost a signal,   *)
(* left a waiter asleep or kept a thread it had woken.                     *)
CondVerdict ==
  /\ prog = "pthread_cond_signal/1-2" => SignalTest!SignalVerdict
  /\ prog = "pthread_cond_broadcast/1-2" => BroadcastTest!BroadcastVerdict
  /\ prog = "pthread_cond_destroy/2-1" => DestroyTest!DestroyVerdict

(* pthread_cond_destroy/2-1.c: the condition variable is not waited for,   *)
(* signalled or destroyed between its destruction and its initialisation,  *)
(* but for the second destruction in line 650.                             *)
DestroyedUnused == prog = "pthread_cond_destroy/2-1" => DestroyTest!DestroyedUnused

(* sem_post/8-1.c: every child is released and waited for.                 *)
EveryChildReleased == prog = "sem_post/8-1" => PriorityTest!EveryChildReleased

(* helper.c: the monitor returns the status of a test that has ended.      *)
MonitorReports == prog = "helper" => Monitor!MonitorReports

(* semaphore.c: an operation on an unnamed semaphore reaches its own set.  *)
RightSet ==
  /\ prog = "shared semaphore" => Shared!RightSet
  /\ prog = "semaphores of one list" => OneList!RightSet

(* "If pshared is non-zero, any process that can access the semaphore can  *)
(* use it" (conformance/interfaces/sem_init/3-2.c, line 20), of sem_post,  *)
(* sem_wait, sem_trywait and sem_getvalue of semaphore.c.                  *)
AnyProcessCanUse == prog = "shared semaphore" => Shared!AnyProcessCanUse

(* Every program of the suite ends with a verdict: no thread waits for     *)
(* ever for a unit, a mutex or a wake-up that does not come.               *)
Terminates == prog \notin Clients => <>(verdict # "none")
=============================================================================
