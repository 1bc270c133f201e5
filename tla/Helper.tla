------------------------------- MODULE Helper -------------------------------
(***************************************************************************)
(* stress/threads/helper.c, the monitor of a stress test: main() forks the *)
(* test and waits for it, a timer thread tells it to stop with SIGUSR1.    *)
(* The timer sleeps an hour at least, so it does not wake before the fork. *)
(***************************************************************************)
EXTENDS Threads

timer_ == 0
test == 1          \* the process of the stress test
Thread == {main, timer_, test}

Init ==
  /\ pc = [t \in Thread |-> CASE t = main -> 128 [] t = timer_ -> 77 [] t = test -> Ended]
  /\ loc = <<>>
  /\ mem \in [child : {"none"}, status : {"unknown"}, told : {FALSE}, handler : BOOLEAN, cancelled : {FALSE}]
  /\ sem = <<>> /\ mtx = <<>> /\ cnd = <<>>
  /\ verdict = "none"

(* The end of the test process: by itself, because it was told to, or by a *)
(* signal of its own; one without a handler for SIGUSR1 is killed by that. *)
run(t) ==
  \E s \in IF mem.told /\ ~mem.handler THEN {"killed"} ELSE {"PASS", "FAIL", "killed"} :
    Assign(t, 141, Ended, [mem EXCEPT !.child = "zombie", !.status = s])

(* sleep() is a cancellation point, kill() is not; kill() fails once the   *)
(* process has been waited for.                                            *)
timer(t) ==
  \/ mem.cancelled /\ Goto(t, 77, Ended)
  \/ mem.child # "none" /\ Goto(t, 77, 79)
  \/ mem.child # "reaped" /\ Assign(t, 79, Ended, [mem EXCEPT !.told = TRUE])
  \/ mem.child = "reaped" /\ Step(t, 79, Ended) /\ Exit("2")

fork ==
  /\ pc[main] = 128
  /\ pc' = [pc EXCEPT ![main] = 156, ![test] = 141]
  /\ mem' = [mem EXCEPT !.child = "running"]
  /\ UNCHANGED loc /\ Compute

(* Mutant: main() does not wait for the test to end.                       *)
wait_child_not == Goto(main, 156, 164)

wait_child == mem.child = "zombie" /\ Assign(main, 156, 164, [mem EXCEPT !.child = "reaped"])

(* Lines 180 to 201: a test that was killed counts as failed.              *)
report ==
  /\ pc[timer_] = Ended
  /\ Step(main, 166, Ended)
  /\ Exit(IF mem.status = "killed" THEN "FAIL" ELSE mem.status)

main_ ==
  \/ fork
  \/ wait_child
  \/ Assign(main, 164, 166, [mem EXCEPT !.cancelled = TRUE])
  \/ report

ThreadStep(t) ==
  Running /\ CASE t = main -> main_ [] t = timer_ -> timer(t) [] t = test -> run(t)

Next == \E t \in Thread : ThreadStep(t)

(* "if the testcase returns, the monitor returns the error code" (line 24) *)
(* but for the race of lines 66 to 69: the monitor returns the status of a *)
(* test that has ended, or 2 when the test ended before it was told to     *)
(* stop; it never leaves a test behind.                                    *)
MonitorReports ==
  ~Running => /\ mem.child = "reaped"
              /\ \/ verdict = mem.status
                 \/ verdict = "FAIL" /\ mem.status = "killed"
                 \/ verdict = "2" /\ ~mem.told
=============================================================================
