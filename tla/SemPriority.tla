----------------------------- MODULE SemPriority -----------------------------
(***************************************************************************)
(* conformance/interfaces/sem_post/8-1.c: three children of two priorities *)
(* wait for one semaphore, which the parent posts once for each; the test  *)
(* expects them in the order 2, 3, 1.  The loops that were to make sure    *)
(* that they wait already are commented out (lines 180 and 195).           *)
(***************************************************************************)
EXTENDS Threads, Sequences

Child == 1 .. 3
Thread == {main} \cup Child

priority(t) == IF t = 1 THEN 1 ELSE 2

(* main() holds sem.  waiting: the children asleep on sem, in the order of *)
(* their arrival; zombies: those that ended and were not waited for;       *)
(* failed: those that ended with another status than 0.                    *)
Init ==
  /\ pc = [t \in Thread |-> IF t = main THEN 150 ELSE Ended]
  /\ loc = <<>>
  /\ mem = [waiting |-> <<>>, children |-> {}, zombies |-> {}, failed |-> {}]
  /\ sem = [sem |-> 0, sem_1 |-> 3] /\ mtx = <<>> /\ cnd = <<>>
  /\ verdict = "none"

sem_wait(t) ==
  \/ sem.sem > 0 /\ SemWait(t, 97, 104, "sem")
  \/ sem.sem = 0 /\ Assign(t, 97, -97, [mem EXCEPT !.waiting = Append(@, t)])

(* exit(-1) of lines 83 and 102.                                           *)
give_up(t, l) ==
  Assign(t, l, Ended, [mem EXCEPT !.zombies = @ \cup {t}, !.failed = @ \cup {t}])

(* set_my_prio and the second sem_wait may fail.                           *)
child_fn(t) ==
  \/ Goto(t, 82, 94) \/ give_up(t, 82)
  \/ SemWait(t, 94, 97, "sem_1")
  \/ sem_wait(t) \/ give_up(t, 97)
  \/ Assign(t, 104, Ended, [mem EXCEPT !.zombies = @ \cup {t}])

(* A fork that fails ends the test, but for the third.                     *)
fork(l, m, c) ==
  /\ pc[main] = l
  /\ \/ /\ pc' = [pc EXCEPT ![main] = m, ![c] = 82]
        /\ mem' = [mem EXCEPT !.children = @ \cup {c}]
        /\ UNCHANGED verdict
     \/ /\ c = 3
        /\ pc' = [pc EXCEPT ![main] = m] /\ UNCHANGED <<mem, verdict>>
     \/ /\ c # 3
        /\ pc' = [pc EXCEPT ![main] = Ended] /\ verdict' = "UNRESOLVED" /\ UNCHANGED mem
  /\ UNCHANGED <<loc, objects>>

(* The host unblocks the waiter of the highest priority that has waited    *)
(* the longest.                                                            *)
Longest(W) ==
  CHOOSE n \in DOMAIN W : \A m \in DOMAIN W :
    priority(W[n]) > priority(W[m]) \/ (priority(W[n]) = priority(W[m]) /\ n <= m)
Without(W, n) == SubSeq(W, 1, n - 1) \o SubSeq(W, n + 1, Len(W))

sem_post(l, m) ==
  LET W == mem.waiting
      n == Longest(W)
  IN \/ W = <<>> /\ SemPost(main, l, m, "sem")
     \/ /\ W # <<>> /\ pc[main] = l
        /\ pc' = [pc EXCEPT ![main] = m, ![W[n]] = 104]
        /\ mem' = [mem EXCEPT !.waiting = Without(W, n)]
        /\ UNCHANGED loc /\ Compute

(* A child and the status that main() tests for.                           *)
expected(z, c) == z = c /\ z \notin mem.failed

(* wait() at line l gives any child that ended; on to m if it is c and its *)
(* status is 0.                                                            *)
wait(l, c, m, n) ==
  \E z \in mem.zombies :
    Assign(main, l, IF expected(z, c) THEN m ELSE n,
      [mem EXCEPT !.zombies = @ \ {z}, !.children = @ \ {z}])

(* Lines 235 and 246: until there is no child.                             *)
wait_all(l) ==
  \/ wait(l, 0, l, l)
  \/ mem.children = {} /\ Step(main, l, Ended) /\ Exit("FAIL")

(* The last of the three, in the expected order or not (lines 216 to 227). *)
wait_last ==
  \E z \in mem.zombies :
    /\ Step(main, 216, Ended)
    /\ verdict' = IF expected(z, 1) THEN "PASS" ELSE "FAIL"
    /\ mem' = [mem EXCEPT !.zombies = @ \ {z}, !.children = @ \ {z}]
    /\ UNCHANGED <<loc, objects>>

(* Mutant: a child out of order is followed by one post too few.           *)
main_posts_once ==
  \/ fork(150, 165, 1) \/ fork(165, 186, 2) \/ fork(186, 203, 3)
  \/ sem_post(203, 204) \/ wait(204, 2, 209, 245)
  \/ sem_post(209, 210) \/ wait(210, 3, 215, 234)
  \/ sem_post(215, 216) \/ wait_last
  \/ sem_post(234, 235) \/ wait_all(235)
  \/ sem_post(245, 246) \/ wait_all(246)

main_ ==
  \/ fork(150, 165, 1) \/ fork(165, 186, 2) \/ fork(186, 203, 3)
  \/ sem_post(203, 204) \/ wait(204, 2, 209, 244)
  \/ sem_post(209, 210) \/ wait(210, 3, 215, 234)
  \/ sem_post(215, 216) \/ wait_last
  \/ sem_post(234, 235) \/ wait_all(235)
  \/ sem_post(244, 245) \/ sem_post(245, 246) \/ wait_all(246)

ThreadStep(t) == Running /\ IF t = main THEN main_ ELSE child_fn(t)

Next == \E t \in Thread : ThreadStep(t)

(* In whatever order the children come, whether or not the third could be  *)
(* created and even when some give up before they took a unit of sem,      *)
(* there is one for every child and each is waited for before the          *)
(* semaphores are removed: each branch posts what the others did not       *)
(* (lines 203 to 247).                                                     *)
EveryChildReleased ==
  /\ verdict \in {"PASS", "FAIL"} => mem.children = {}
  /\ pc[main] \in {235, 246} => Cardinality(mem.children \ mem.zombies) <=
       sem.sem + Cardinality({t \in Child : pc[t] = 104})
=============================================================================
