------------------------------- MODULE Threads -------------------------------
(***************************************************************************)
(* The host a test program runs on: one process with threads, unnamed      *)
(* semaphores, mutexes and condition variables, as the programs under      *)
(* functional/, stress/ and conformance/ use them.  The host is not part   *)
(* of the repository; it promises what POSIX does and nothing more, so a   *)
(* waiter may wake up without a signal.  A program module extends this one *)
(* and gives the variables their contents under the names of the C code.   *)
(***************************************************************************)
EXTENDS Integers, FiniteSets

VARIABLES pc,      \* of each thread, the line it executes next; -l inside the call of line l
          loc,     \* of each thread, its local variables
          mem,     \* the global variables of the program
          sem,     \* the value of each semaphore
          mtx,     \* the owner of each mutex, or NoThread
          cnd,     \* of each condition variable, the threads asleep on it
          verdict  \* what the process exited with, "none" while it runs

vars == <<pc, loc, mem, sem, mtx, cnd, verdict>>

main == -1         \* the thread that runs main(); the others are numbered from 0
NoThread == -2
Ended == 0         \* the pc of a thread that returned

data == <<loc, mem>>
objects == <<sem, mtx, cnd>>

(* Thread t goes from line l to line m.                                    *)
Step(t, l, m) == pc[t] = l /\ pc' = [pc EXCEPT ![t] = m]

Running == verdict = "none"

Wait(s) == sem[s] > 0 /\ sem' = [sem EXCEPT ![s] = @ - 1]
Post(s) == sem' = [sem EXCEPT ![s] = @ + 1]

Lock(t, m) == mtx[m] = NoThread /\ mtx' = [mtx EXCEPT ![m] = t]
Unlock(t, m) == mtx[m] = t /\ mtx' = [mtx EXCEPT ![m] = NoThread]

(* A whole statement that waits for, or posts, one semaphore.              *)
SemWait(t, l, m, s) == Step(t, l, m) /\ Wait(s) /\ UNCHANGED <<data, mtx, cnd, verdict>>
SemPost(t, l, m, s) == Step(t, l, m) /\ Post(s) /\ UNCHANGED <<data, mtx, cnd, verdict>>
MutexLock(t, l, m, x) == Step(t, l, m) /\ Lock(t, x) /\ UNCHANGED <<data, sem, cnd, verdict>>
MutexUnlock(t, l, m, x) == Step(t, l, m) /\ Unlock(t, x) /\ UNCHANGED <<data, sem, cnd, verdict>>

(* Statements that only compute: one leaves the global variables as M, the *)
(* other only tests something.                                             *)
Compute == UNCHANGED <<objects, verdict>>
Assign(t, l, m, M) == Step(t, l, m) /\ mem' = M /\ UNCHANGED loc /\ Compute
Goto(t, l, m) == Assign(t, l, m, mem)

(* pthread_cond_wait(c, x) at line l: give up x and fall asleep in one     *)
(* step; once awake, take x again and go on at line m.                     *)
CondSleep(t, l, c, x) ==
  /\ Step(t, l, -l)
  /\ Unlock(t, x)
  /\ cnd' = [cnd EXCEPT ![c] = @ \cup {t}]
  /\ UNCHANGED <<data, sem, verdict>>
CondReturn(t, l, m, c, x) ==
  /\ t \notin cnd[c]
  /\ Step(t, -l, m)
  /\ Lock(t, x)
  /\ UNCHANGED <<data, sem, cnd, verdict>>

(* The states of c after a signal, after a broadcast, a whole statement    *)
(* that does either, and c after t wakes up by itself.                     *)
Signalled(c) == IF cnd[c] = {} THEN {{}} ELSE {cnd[c] \ {u} : u \in cnd[c]}
Signal(c) == \E W \in Signalled(c) : cnd' = [cnd EXCEPT ![c] = W]
Broadcast(c) == cnd' = [cnd EXCEPT ![c] = {}]
Wake(t, l, m, how) == Step(t, l, m) /\ how /\ UNCHANGED <<data, sem, mtx, verdict>>
WakeUp(t, c) == t \in cnd[c] /\ cnd' = [cnd EXCEPT ![c] = @ \ {t}]

(* The process exits: every thread ends with it.                           *)
Exit(v) == verdict' = v /\ UNCHANGED <<loc, mem, objects>>
=============================================================================
