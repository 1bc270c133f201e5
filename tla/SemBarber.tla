------------------------------ MODULE SemBarber ------------------------------
(***************************************************************************)
(* functional/semaphores/sem_sleepingbarber.c: CUS_NUM customers, a room   *)
(* with CHAIR_NUM chairs and a barber who cuts hair LOOP_NUM times.        *)
(***************************************************************************)
EXTENDS Threads

CONSTANTS CHAIR_NUM, CUS_NUM, LOOP_NUM

Customer == 0 .. CUS_NUM - 1
bar == CUS_NUM
Thread == {main, bar} \cup Customer

Init ==
  /\ pc = [t \in Thread |-> CASE t = main -> 165 [] t = bar -> 57 [] t \in Customer -> 98]
  /\ loc = [t \in {bar} |-> 0]
  /\ mem = [waiting |-> 0]
  /\ sem = [customer |-> 0, barber |-> 0, lock |-> 1, print |-> 1]
  /\ mtx = <<>> /\ cnd = <<>> /\ verdict = "none"

(* my_printf at line l takes a semaphore of its own for the printing.      *)
my_printf(t, l, m) == SemWait(t, l, -l, "print") \/ SemPost(t, -l, m, "print")

look(t) == Goto(t, 61, IF mem.waiting = 0 THEN 62 ELSE 64)

(* Mutant: the chair is not given back.                                    *)
seat_kept(t) == Goto(t, 76, 78)

seat(t) ==
  Assign(t, 76, 78,
    [mem EXCEPT !.waiting = IF @ >= 1 THEN @ - 1 ELSE @])

done(t) ==
  /\ Step(t, 83, IF loc[t] + 1 < LOOP_NUM THEN 57 ELSE Ended)
  /\ loc' = [loc EXCEPT ![t] = @ + 1]
  /\ Post("barber")
  /\ UNCHANGED <<mem, mtx, cnd, verdict>>

barbers(t) ==
  \/ SemWait(t, 57, 61, "lock")
  \/ look(t)
  \/ my_printf(t, 62, 64)
  \/ SemPost(t, 64, 68, "lock")
  \/ SemWait(t, 68, 72, "customer")
  \/ SemWait(t, 72, 76, "lock")
  \/ seat(t)
  \/ my_printf(t, 78, 79)
  \/ SemPost(t, 79, 83, "lock")
  \/ done(t)

sit_down(t) ==
  Assign(t, 103, IF mem.waiting < CHAIR_NUM THEN 105 ELSE 122,
    [mem EXCEPT !.waiting = IF @ < CHAIR_NUM THEN @ + 1 ELSE @])

customers(t) ==
  \/ my_printf(t, 98, 99)
  \/ SemWait(t, 99, 103, "lock")
  \/ sit_down(t)
  \/ SemPost(t, 105, 109, "customer")
  \/ my_printf(t, 109, 110)
  \/ SemPost(t, 110, 114, "lock")
  \/ SemWait(t, 114, 118, "barber")
  \/ my_printf(t, 118, Ended)
  \/ my_printf(t, 122, 123)
  \/ SemPost(t, 123, Ended, "lock")

(* main() waits for the customers and leaves the barber asleep.            *)
join ==
  /\ \A t \in Customer : pc[t] = Ended
  /\ Step(main, 165, Ended)
  /\ Exit("PASS")

ThreadStep(t) ==
  Running /\ CASE t \in Customer -> customers(t) [] t = bar -> barbers(t) [] t = main -> join

Next == \E t \in Thread : ThreadStep(t)

At(L) == Cardinality({t \in DOMAIN pc : pc[t] \in L})

(* The count of waiting customers and the semaphore the barber sleeps on   *)
(* agree whatever is between them, so the test of line 76 never hides a    *)
(* customer the barber was woken for, and the chairs are never overrun     *)
(* (lines 76, 103 to 105).  Every haircut the barber announces has a       *)
(* customer who sits and waits for it, and none of them misses it because  *)
(* another left (lines 83 and 114).                                        *)
CustomersExact ==
  /\ mem.waiting = sem.customer + At({105}) + At({72, 76})
  /\ mem.waiting <= CHAIR_NUM
  /\ sem.barber + sem.customer + At({72, 76, 78, -78, 79, 83}) = At({109, -109, 110, 114})
=============================================================================
