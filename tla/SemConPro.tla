------------------------------ MODULE SemConPro ------------------------------
(***************************************************************************)
(* functional/semaphores/sem_conpro.c: a producer and a consumer share a   *)
(* ring of BUF_SIZE places guarded by three semaphores.                    *)
(***************************************************************************)
EXTENDS Threads, Sequences

CONSTANTS BUF_SIZE, Max_Num

con == 0
pro == 1
Thread == {main, con, pro}

(* main() up to the creation of the threads.  loc[t] is the counter i of   *)
(* the thread's loop, taken what the consumer has printed so far.          *)
Init ==
  /\ pc = [t \in Thread |-> CASE t = main -> 128 [] t = con -> 74 [] t = pro -> 45]
  /\ loc = [t \in {con, pro} |-> 0]
  /\ mem = [buffer |-> [k \in 0 .. BUF_SIZE - 1 |-> 0], in |-> 0, out |-> 0, taken |-> <<>>]
  /\ sem = [occupied |-> BUF_SIZE, empty |-> 0, lock |-> 1]
  /\ mtx = <<>> /\ cnd = <<>> /\ verdict = "none"

(* Back to the head of the loop of line l, or out of it.                   *)
Again(t, l) == IF loc[t] + 1 < Max_Num THEN l ELSE Ended

(* Mutant: in is not moved on.                                             *)
store_in_place == Assign(pro, 54, 57, [mem EXCEPT !.buffer[mem.in] = 100 * loc[pro]])

store ==
  Assign(pro, 54, 57,
    [mem EXCEPT !.buffer[mem.in] = 100 * loc[pro], !.in = (@ + 1) % BUF_SIZE])

post_empty ==
  /\ Step(pro, 61, Again(pro, 45))
  /\ loc' = [loc EXCEPT ![pro] = @ + 1]
  /\ Post("empty")
  /\ UNCHANGED <<mem, mtx, cnd, verdict>>

producer ==
  \/ SemWait(pro, 45, 49, "occupied")
  \/ SemWait(pro, 49, 54, "lock")
  \/ store
  \/ SemPost(pro, 57, 61, "lock")
  \/ post_empty

fetch ==
  Assign(con, 82, 85,
    [mem EXCEPT !.taken = Append(@, mem.buffer[mem.out]), !.out = (@ + 1) % BUF_SIZE])

post_occupied ==
  /\ Step(con, 89, Again(con, 74))
  /\ loc' = [loc EXCEPT ![con] = @ + 1]
  /\ Post("occupied")
  /\ UNCHANGED <<mem, mtx, cnd, verdict>>

consumer ==
  \/ SemWait(con, 74, 78, "empty")
  \/ SemWait(con, 78, 82, "lock")
  \/ fetch
  \/ SemPost(con, 85, 89, "lock")
  \/ post_occupied

(* main() joins both threads and returns.                                  *)
join ==
  /\ pc[con] = Ended /\ pc[pro] = Ended
  /\ Step(main, 128, Ended)
  /\ Exit("PASS")

ThreadStep(t) == Running /\ CASE t = con -> consumer [] t = pro -> producer [] t = main -> join

Next == \E t \in Thread : ThreadStep(t)

(* The consumer takes the items in the order they were produced, none of   *)
(* them twice, and has them all when the program passes (lines 53 to 56    *)
(* and 82 to 84).                                                          *)
ConsumedInOrder ==
  /\ mem.taken = [k \in 1 .. Len(mem.taken) |-> 100 * (k - 1)]
  /\ verdict = "PASS" => Len(mem.taken) = Max_Num
=============================================================================
