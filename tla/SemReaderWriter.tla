--------------------------- MODULE SemReaderWriter ---------------------------
(***************************************************************************)
(* functional/semaphores/sem_readerwriter.c: READ_NUM readers and          *)
(* WRITE_NUM writers of one blackboard.  The first reader takes the        *)
(* writers' semaphore, the last one gives it back.                         *)
(***************************************************************************)
EXTENDS Threads

CONSTANTS READ_NUM, WRITE_NUM

Reader == 0 .. READ_NUM - 1
Writer == READ_NUM .. READ_NUM + WRITE_NUM - 1
Thread == {main} \cup Reader \cup Writer

Init ==
  /\ pc = [t \in Thread |-> CASE t = main -> 136 [] t \in Reader -> 50 [] t \in Writer -> 92]
  /\ loc = <<>>
  /\ mem = [reader_count |-> 0]
  /\ sem = [r_lock |-> 1, w_lock |-> 1]
  /\ mtx = <<>> /\ cnd = <<>> /\ verdict = "none"

(* The first reader waits for w_lock with r_lock in its hands.             *)
enter(t) ==
  Assign(t, 54, IF mem.reader_count = 0 THEN 57 ELSE 62,
    [mem EXCEPT !.reader_count = @ + 1])

(* Mutant: every reader that leaves lets the writers in.                   *)
leave_open(t) == Assign(t, 72, 74, [mem EXCEPT !.reader_count = @ - 1])

leave(t) ==
  Assign(t, 72, IF mem.reader_count = 1 THEN 74 ELSE 79,
    [mem EXCEPT !.reader_count = @ - 1])

reader(t) ==
  \/ SemWait(t, 50, 54, "r_lock")
  \/ enter(t)
  \/ SemWait(t, 57, 62, "w_lock")
  \/ SemPost(t, 62, 67, "r_lock")
  \/ Goto(t, 67, 68)
  \/ SemWait(t, 68, 72, "r_lock")
  \/ leave(t)
  \/ SemPost(t, 74, 79, "w_lock")
  \/ SemPost(t, 79, Ended, "r_lock")

writer(t) ==
  \/ SemWait(t, 92, 96, "w_lock")
  \/ Goto(t, 96, 97)
  \/ SemPost(t, 97, Ended, "w_lock")

join ==
  /\ \A t \in Reader \cup Writer : pc[t] = Ended
  /\ Step(main, 136, Ended)
  /\ Exit("PASS")

ThreadStep(t) ==
  Running /\ CASE t \in Reader -> reader(t) [] t \in Writer -> writer(t) [] t = main -> join

Next == \E t \in Thread : ThreadStep(t)

Writes(t) == pc[t] \in {96, 97}
Reads(t) == pc[t] \in {67, 68}

(* "Only one writer allow to write on the board at the same time. Reader   *)
(* and Writer can't use the board the same time" (lines 9 to 11), although *)
(* the reader that took w_lock is not the one that posts it.               *)
BoardExclusion ==
  \A t \in Writer : Writes(t) => /\ \A u \in Writer \ {t} : ~ Writes(u)
                                 /\ \A u \in Reader : ~ Reads(u)
=============================================================================
