----------------------------- MODULE MultiConPro -----------------------------
(***************************************************************************)
(* stress/semaphores/multi_con_pro.c: num producers and num consumers on   *)
(* one ring.  A producer puts Max_Num - 1 items and an end marker into it; *)
(* a consumer ends when it has taken a marker, whoever put it there.       *)
(***************************************************************************)
EXTENDS Threads, Sequences

CONSTANTS BUF_SIZE, Max_Num, num

con == 0 .. num - 1
pro == num .. 2 * num - 1
Thread == {main} \cup con \cup pro

Marker == -1

(* loc[t] is i in a producer and data in a consumer; stored and taken are  *)
(* the outputs of lines 64, 90 and 121.                                    *)
Init ==
  /\ pc = [t \in Thread |-> CASE t = main -> 197 [] t \in con -> 112 [] t \in pro -> 49]
  /\ loc = [t \in con \cup pro |-> 0]
  /\ mem = [buffer |-> [k \in 0 .. BUF_SIZE - 1 |-> 0], in |-> 0, out |-> 0,
            stored |-> <<>>, taken |-> <<>>]
  /\ sem = [full |-> BUF_SIZE, empty |-> 0, lock |-> 1]
  /\ mtx = <<>> /\ cnd = <<>> /\ verdict = "none"

(* Items of the same producer differ, items of different producers too.    *)
Data(t) == IF loc[t] < Max_Num - 1 THEN 100 * (t - num) + loc[t] ELSE Marker

store(t) ==
  Assign(t, 63, 65,
    [mem EXCEPT !.buffer[mem.in] = Data(t), !.stored = Append(@, Data(t))])

advance_in(t) ==
  Assign(t, 65, 66,
    [mem EXCEPT !.in = (@ + 1) % BUF_SIZE])

(* The marker goes the same way (lines 75 to 99) in a round of its own.    *)
post_empty(t) ==
  /\ Step(t, 70, IF loc[t] < Max_Num - 1 THEN 49 ELSE Ended)
  /\ loc' = [loc EXCEPT ![t] = @ + 1]
  /\ Post("empty")
  /\ UNCHANGED <<mem, mtx, cnd, verdict>>

(* Mutant: the producers do not take the lock.                             *)
producer_unlocked(t) ==
  SemWait(t, 49, 63, "full") \/ store(t) \/ advance_in(t) \/ Goto(t, 66, 70) \/ post_empty(t)

producer(t) ==
  \/ SemWait(t, 49, 58, "full")
  \/ SemWait(t, 58, 63, "lock")
  \/ store(t)
  \/ advance_in(t)
  \/ SemPost(t, 66, 70, "lock")
  \/ post_empty(t)

fetch(t) ==
  /\ Step(t, 120, 122)
  /\ loc' = [loc EXCEPT ![t] = mem.buffer[mem.out]]
  /\ mem' = [mem EXCEPT !.taken = Append(@, mem.buffer[mem.out])]
  /\ Compute

advance_out(t) ==
  Assign(t, 122, 123,
    [mem EXCEPT !.out = (@ + 1) % BUF_SIZE])

post_full(t) == SemPost(t, 127, IF loc[t] = Marker THEN Ended ELSE 112, "full")

consumer(t) ==
  \/ SemWait(t, 112, 116, "empty")
  \/ SemWait(t, 116, 120, "lock")
  \/ fetch(t)
  \/ advance_out(t)
  \/ SemPost(t, 123, 127, "lock")
  \/ post_full(t)

join ==
  /\ \A t \in con \cup pro : pc[t] = Ended
  /\ Step(main, 197, Ended)
  /\ Exit("PASS")

ThreadStep(t) ==
  Running /\ CASE t \in con -> consumer(t) [] t \in pro -> producer(t) [] t = main -> join

Next == \E t \in Thread : ThreadStep(t)

(* Whatever the order in which producers and consumers get the lock, items *)
(* are taken in the order they were stored, each of them once, and a       *)
(* consumer that stops at another producer's marker leaves nothing behind: *)
(* when the program passes, everything stored was taken (line 137).        *)
ConsumedOnce ==
  /\ Len(mem.taken) <= Len(mem.stored)
  /\ mem.taken = SubSeq(mem.stored, 1, Len(mem.taken))
  /\ verdict = "PASS" => mem.taken = mem.stored /\ Len(mem.taken) = num * Max_Num
=============================================================================
