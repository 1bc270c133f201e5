--------------------------- MODULE PriorityQueues ---------------------------
(***************************************************************************)
(* What mq_send and mq_receive promise together, whatever processes call   *)
(* them: bounded queues kept in order of priority, first come first served *)
(* among equals (conformance/interfaces/mq_send/assertions.xml, id 3, and  *)
(* mq_receive/assertions.xml, id 1).                                       *)
(***************************************************************************)
EXTENDS Naturals, Sequences

CONSTANTS Queue, Capacity,
          Message    \* records with a field prio

VARIABLES queue,     \* of each queue, the messages in the order they will be received
          received   \* from each queue, the messages received so far

(* The messages of q that go before a new one of priority n.               *)
Before(q, n) == Len(SelectSeq(queue[q], LAMBDA m : m.prio >= n))

Init == queue = [q \in Queue |-> <<>>] /\ received = [q \in Queue |-> <<>>]

Send(q, m) ==
  LET n == Before(q, m.prio) IN
  /\ Len(queue[q]) < Capacity
  /\ queue' = [queue EXCEPT ![q] = SubSeq(@, 1, n) \o <<m>> \o SubSeq(@, n + 1, Len(@))]
  /\ UNCHANGED received

Receive(q) ==
  /\ queue[q] # <<>>
  /\ received' = [received EXCEPT ![q] = Append(@, Head(queue[q]))]
  /\ queue' = [queue EXCEPT ![q] = Tail(@)]

(* Every step changes the contents of a queue.                             *)
Next == \E q \in Queue : queue'[q] # queue[q] /\ (Receive(q) \/ \E m \in Message : Send(q, m))

Spec == Init /\ [][Next]_<<queue, received>>
=============================================================================
