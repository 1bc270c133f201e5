--------------------------- MODULE SemPhilosopher ---------------------------
(***************************************************************************)
(* functional/semaphores/sem_philosopher.c: PH_NUM philosophers eat        *)
(* LOOP_NUM times each.  A philosopher who may not eat at once is woken by *)
(* the neighbour who finishes.                                             *)
(***************************************************************************)
EXTENDS Threads

CONSTANTS PH_NUM, LOOP_NUM

Philosopher == 0 .. PH_NUM - 1
Thread == {main} \cup Philosopher

lock == PH_NUM    \* the key of semaphore lock in sem, after those of ph[0..PH_NUM-1]

Init ==
  /\ pc = [t \in Thread |-> IF t = main THEN 144 ELSE 75]
  /\ loc = [t \in Philosopher |-> 0]
  /\ mem = [state |-> [t \in Philosopher |-> "thinking"]]
  /\ sem = [s \in Philosopher \cup {lock} |-> IF s = lock THEN 1 ELSE 0]
  /\ mtx = <<>> /\ cnd = <<>> /\ verdict = "none"

pre(t) == IF t - 1 < 0 THEN PH_NUM + (t - 1) ELSE (t - 1) % PH_NUM
post(t) == IF t + 1 >= PH_NUM THEN t + 1 - PH_NUM ELSE (t + 1) % PH_NUM

(* Mutant: only one neighbour is looked at.                                *)
MayEat_pre(st, ID) == st[ID] = "hungry" /\ st[pre(ID)] # "eating"

(* test(ID), called with the states st: lets ID eat if it is hungry and    *)
(* neither neighbour eats.                                                 *)
MayEat(st, ID) == st[ID] = "hungry" /\ st[pre(ID)] # "eating" /\ st[post(ID)] # "eating"

test(st, ID) ==
  /\ mem' = [mem EXCEPT !.state = IF MayEat(st, ID) THEN [st EXCEPT ![ID] = "eating"] ELSE st]
  /\ IF MayEat(st, ID) THEN Post(ID) ELSE UNCHANGED sem
  /\ UNCHANGED <<loc, mtx, cnd, verdict>>

get_hungry(t) == Step(t, 79, 81) /\ test([mem.state EXCEPT ![t] = "hungry"], t)

finish(t) == Step(t, 95, 105) /\ test([mem.state EXCEPT ![t] = "thinking"], pre(t))

(* Mutant: the neighbour on the other side is not tested.                  *)
next_philosopher_forgotten(t) == Goto(t, 105, 106)

next_philosopher(t) == Step(t, 105, 106) /\ test(mem.state, post(t))

release(t) ==
  /\ Step(t, 106, IF loc[t] + 1 < LOOP_NUM THEN 75 ELSE Ended)
  /\ loc' = [loc EXCEPT ![t] = @ + 1]
  /\ Post(lock)
  /\ UNCHANGED <<mem, mtx, cnd, verdict>>

philosopher(t) ==
  \/ SemWait(t, 75, 79, lock)
  \/ get_hungry(t)
  \/ SemPost(t, 81, 85, lock)
  \/ SemWait(t, 85, 91, t)
  \/ SemWait(t, 91, 95, lock)
  \/ finish(t)
  \/ next_philosopher(t)
  \/ release(t)

join ==
  /\ \A t \in Philosopher : pc[t] = Ended
  /\ Step(main, 144, Ended)
  /\ Exit("PASS")

ThreadStep(t) == Running /\ IF t = main THEN join ELSE philosopher(t)

Next == \E t \in Thread : ThreadStep(t)

(* A philosopher between lines 89 and 95 eats.                             *)
Eats(t) == pc[t] \in {91, 95}

(* Two neighbours never eat at the same time, and a philosopher eats only  *)
(* while its state says so (line 59).  No permission to eat is lost or     *)
(* given twice: a philosopher whose state is eating has taken its unit of  *)
(* ph or has one unit to take, a hungry one has none (lines 60, 61, 85).   *)
NeighboursApart ==
  \A t \in Philosopher :
    /\ Eats(t) => mem.state[t] = "eating" /\ ~ Eats(post(t))
    /\ sem[t] = IF mem.state[t] = "eating" /\ ~ Eats(t) THEN 1 ELSE 0
=============================================================================
