------------------------------- MODULE MQueue -------------------------------
(***************************************************************************)
(* The message queues of posix1b/mqueue.c: one name, opened by several     *)
(* processes with at most one descriptor each.  Behind the name is a file. *)
(* The queue itself is a System V message queue whose key ftok makes from  *)
(* the file's inode, and the file, mapped by every process that opened it  *)
(* for reading and writing, holds the one request for notification.  Every *)
(* system call and every access to the shared request is a step.           *)
(***************************************************************************)
EXTENDS Integers, Sequences, FiniteSets

CONSTANTS
  Proc, Inode,
  NULL,          \* no file, no queue, pid 0, signal 0
  MQ_PRIO_MAX,
  QLimit,        \* messages the kernel admits to a queue (msg_qbytes)
  OpenArgs,      \* by process: the arguments it passes to mq_open
  Prios,         \* priorities the program passes to mq_send
  Senders, Receivers, Watchers,   \* the processes that call mq_send, mq_receive, mq_notify
  MallocFails,   \* whether malloc may return 0
  MaxOpens, MaxSends   \* bounds on the calls of mq_open, mq_send

(* Arguments of mq_open: the flags, the access mode and what attr is.      *)
OpenArg == [oflag : SUBSET {"O_CREAT", "O_EXCL"}, rdwr : BOOLEAN,
            attr : {"null", "block", "nonblock", "invalid"}]

ASSUME MQueueAssumption ==
  /\ IsFiniteSet(Proc) /\ IsFiniteSet(Inode) /\ NULL \notin Proc \cup Inode
  /\ MQ_PRIO_MAX \in Nat \ {0} /\ QLimit \in Nat \ {0}
  /\ MaxOpens \in Nat /\ MaxSends \in Nat
  /\ OpenArgs \in [Proc -> SUBSET OpenArg] /\ Prios \subseteq 0 .. MQ_PRIO_MAX
  /\ Senders \cup Receivers \cup Watchers \subseteq Proc /\ MallocFails \in BOOLEAN

VARIABLES
  link,      \* the inode the name leads to, or NULL
  msq,       \* by key: NULL, or the messages in order of arrival
  req,       \* by inode: the request in the file
  pc, loc,   \* by process: where it is in a call, and the call's locals
  mqd,       \* by process: its descriptor, or NULL
  opens, sends,   \* numbers of calls of mq_open, mq_send
  promised,  \* history: messages for which a blocking mq_send returns 0
  received,  \* history: by inode, the messages mq_receive returned
  due,       \* history: processes that registered since they were last signalled
  unlinked   \* history: the name was unlinked

file == <<link, req, unlinked>>
call == <<pc, loc>>
data == <<msq, sends, promised, received>>
vars == <<file, call, mqd, data, due, opens>>

Key == Inode \X {"a", "0"}
NoRequest == [pid |-> NULL, signo |-> NULL]

(* The locals of mq_open: its arguments, the file it has open, the key;    *)
(* of mq_send: the message.                                                *)
Locals == [arg : OpenArg, fd : Inode \cup {NULL}, key : Key \cup {NULL}]
Message == [id : 1 .. MaxSends, prio : 0 .. MQ_PRIO_MAX]

Goto(p, l) == pc' = [pc EXCEPT ![p] = l]
Set(p, v) == loc' = [loc EXCEPT ![p] = v]
Return(p) == Goto(p, "idle") /\ Set(p, NULL)
SetPid(f, p) == req' = [req EXCEPT ![f].pid = p]

Init ==
  /\ link = NULL /\ unlinked = FALSE /\ req = [i \in Inode |-> NoRequest]
  /\ msq = [k \in Key |-> NULL]
  /\ pc = [p \in Proc |-> "idle"] /\ loc = [p \in Proc |-> NULL] /\ mqd = [p \in Proc |-> NULL]
  /\ opens = 0 /\ sends = 0 /\ promised = {} /\ received = [i \in Inode |-> <<>>] /\ due = {}

-----------------------------------------------------------------------------
(* mq_open                                                                 *)

Arg(p) == loc[p].arg
Creates(p) == "O_CREAT" \in Arg(p).oflag
SetFd(p, f) == loc' = [loc EXCEPT ![p].fd = f]

(* The first open, of a file that exists (lines 60 and 94; none with       *)
(* O_CREAT and O_EXCL), and the test of attr.                              *)
mq_open(p) ==
  /\ pc[p] = "idle" /\ mqd[p] = NULL /\ opens < MaxOpens
  /\ opens' = opens + 1
  /\ \E a \in OpenArgs[p] :
       LET creates == "O_CREAT" \in a.oflag
           f == IF creates /\ "O_EXCL" \in a.oflag THEN NULL ELSE link
       IN /\ Set(p, [arg |-> a, fd |-> f, key |-> NULL])
          /\ Goto(p, IF creates /\ a.attr = "invalid" THEN "err"
                     ELSE IF f # NULL THEN "ftok"
                     ELSE IF creates THEN "creat" ELSE "err")
  /\ UNCHANGED <<file, mqd, data, due>>

(* The inode a process has open, inside mq_open or through its descriptor. *)
Opened(p) ==
  CASE pc[p] \in {"creat", "ftok", "msgget", "map", "err"} -> loc[p].fd
    [] mqd[p] # NULL -> mqd[p].fd
    [] OTHER -> NULL

(* A fault: the file is made anew though another process just made it.     *)
CreatAnew(p) ==
  /\ pc[p] = "creat"
  /\ \E i \in Inode :
       /\ link # i /\ \A x \in Proc : Opened(x) # i
       /\ link' = i /\ SetFd(p, i) /\ req' = [req EXCEPT ![i] = NoRequest]
  /\ Goto(p, "ftok")
  /\ UNCHANGED <<unlinked, mqd, data, due, opens>>

(* open with O_CREAT (line 88).  A new file is empty; its inode is one     *)
(* that neither the name nor a process refers to any more.                 *)
creat(p) ==
  /\ pc[p] = "creat"
  /\ \/ /\ link = NULL
        /\ \E i \in Inode :
             /\ \A x \in Proc : Opened(x) # i
             /\ link' = i /\ SetFd(p, i)
             /\ req' = [req EXCEPT ![i] = NoRequest]
        /\ Goto(p, "ftok")
     \/ /\ link # NULL /\ "O_EXCL" \notin Arg(p).oflag
        /\ SetFd(p, link) /\ Goto(p, "ftok") /\ UNCHANGED <<link, req>>
     \/ /\ link # NULL /\ "O_EXCL" \in Arg(p).oflag
        /\ Goto(p, "err") /\ UNCHANGED <<link, req, loc>>
  /\ UNCHANGED <<unlinked, mqd, data, due, opens>>

(* ftok looks the name up again.                                           *)
ftok(p) ==
  /\ pc[p] = "ftok"
  /\ \/ link # NULL /\ loc' = [loc EXCEPT ![p].key = <<link, "a">>] /\ Goto(p, "msgget")
     \/ link = NULL /\ Goto(p, "err") /\ UNCHANGED loc
  /\ UNCHANGED <<file, mqd, data, due, opens>>

(* msgget, with IPC_CREAT but never IPC_EXCL.  Without O_CREAT the mode is *)
(* an argument nobody passed, and the kernel may refuse the rights it asks.*)
msgget(p) ==
  LET k == loc[p].key IN
  /\ pc[p] = "msgget"
  /\ \/ /\ msq[k] = NULL /\ Arg(p).oflag # {}
        /\ msq' = [msq EXCEPT ![k] = <<>>] /\ Goto(p, "map")
     \/ msq[k] # NULL /\ Goto(p, "map") /\ UNCHANGED msq
     \/ msq[k] = NULL /\ Arg(p).oflag = {} /\ Goto(p, "err") /\ UNCHANGED msq
     \/ msq[k] # NULL /\ ~Creates(p) /\ Goto(p, "err") /\ UNCHANGED msq
  /\ UNCHANGED <<file, loc, mqd, sends, promised, received, due, opens>>

(* The descriptor is filled in, the file mapped (which takes the right to  *)
(* read and write it) and the request in it cleared.  Without O_CREAT attr *)
(* is an argument nobody passed: any flags, or a fault.                    *)
map(p) ==
  LET f == loc[p].fd IN
  /\ pc[p] = "map"
  /\ \/ /\ \E nowait \in IF Creates(p) THEN {Arg(p).attr = "nonblock"} ELSE BOOLEAN :
             mqd' = [mqd EXCEPT ![p] = [key |-> loc[p].key, fd |-> f, nowait |-> nowait,
                                        req |-> IF Arg(p).rdwr THEN f ELSE NULL]]
        /\ IF Arg(p).rdwr THEN SetPid(f, NULL) ELSE UNCHANGED req
        /\ Return(p)
     \/ ~Creates(p) /\ Goto(p, "dead") /\ Set(p, NULL) /\ UNCHANGED <<mqd, req>>
     \/ MallocFails /\ Goto(p, "err") /\ UNCHANGED <<mqd, req, loc>>
  /\ UNCHANGED <<link, unlinked, data, due, opens>>

(* The label err: with the file open, the name is removed.                 *)
err(p) ==
  /\ pc[p] = "err"
  /\ \/ loc[p].fd = NULL /\ UNCHANGED <<link, unlinked>>
     \/ loc[p].fd # NULL /\ link' = NULL /\ unlinked' = (unlinked \/ link # NULL)
  /\ Return(p)
  /\ UNCHANGED <<req, mqd, data, due, opens>>

-----------------------------------------------------------------------------
(* mq_close, mq_unlink and mq_setattr                                      *)

mq_close(p) ==
  /\ pc[p] = "idle" /\ mqd[p] # NULL
  /\ mqd' = [mqd EXCEPT ![p] = NULL]
  /\ UNCHANGED <<file, call, data, due, opens>>

(* A fault: mq_unlink removes the queue that mq_open made.                 *)
UnlinkRemoves(p) ==
  /\ pc[p] = "idle" /\ link # NULL
  /\ link' = NULL /\ unlinked' = TRUE
  /\ msq' = [msq EXCEPT ![<<link, "a">>] = NULL]
  /\ UNCHANGED <<req, call, mqd, sends, promised, received, due, opens>>

(* mq_unlink looks for a queue under another key than mq_open does.        *)
mq_unlink(p) ==
  LET k == <<link, "0">> IN
  /\ pc[p] = "idle" /\ link # NULL
  /\ link' = IF msq[k] = NULL THEN link ELSE NULL
  /\ unlinked' = (unlinked \/ msq[k] # NULL)
  /\ msq' = [msq EXCEPT ![k] = NULL]
  /\ UNCHANGED <<req, call, mqd, sends, promised, received, due, opens>>

mq_setattr(p) ==
  /\ pc[p] = "idle" /\ mqd[p] # NULL
  /\ \E nowait \in BOOLEAN : mqd' = [mqd EXCEPT ![p].nowait = nowait]
  /\ UNCHANGED <<file, call, data, due, opens>>

-----------------------------------------------------------------------------
(* mq_send and mq_receive                                                  *)

(* A fault: types counted down from MQ_PRIO_MAX - 1.                       *)
TypeShort(n) == MQ_PRIO_MAX - 1 - n

(* The type of a message of priority n (line 223).                         *)
Type(n) == MQ_PRIO_MAX - n

mq_send(p) ==
  /\ pc[p] = "idle" /\ mqd[p] # NULL /\ p \in Senders /\ sends < MaxSends
  /\ \E n \in Prios : Set(p, [id |-> sends + 1, prio |-> n])
  /\ sends' = sends + 1 /\ Goto(p, "msgsnd")
  /\ UNCHANGED <<file, mqd, msq, promised, received, due, opens>>

Queued(p) == msq[mqd[p].key]
Full(p) == Len(Queued(p)) >= QLimit

(* What a blocking mq_send with a legal priority accepts.                  *)
Promise(p) == IF loc[p].prio < MQ_PRIO_MAX /\ ~mqd[p].nowait THEN {loc[p]} ELSE {}

(* A fault: the request is looked at though the file may not be mapped.    *)
AlwaysMapped(p) == TRUE

(* Does mq_send look at the request (line 226)?                            *)
Mapped(p) == mqd[p].req # NULL

(* msgsnd sleeps on a full queue unless told not to, and refuses type 0;   *)
(* mq_send returns 0 whatever the outcome.                                 *)
msgsnd(p) ==
  LET m == [id |-> loc[p].id, mtype |-> Type(loc[p].prio)] IN
  /\ pc[p] = "msgsnd"
  /\ \/ /\ m.mtype > 0 /\ ~Full(p)
        /\ msq' = [msq EXCEPT ![mqd[p].key] = Append(@, m)]
        /\ Goto(p, IF Mapped(p) THEN "check" ELSE "idle")
     \/ /\ m.mtype = 0 \/ (Full(p) /\ mqd[p].nowait)
        /\ Goto(p, "idle") /\ UNCHANGED msq
  /\ promised' = promised \cup Promise(p) /\ Set(p, NULL)
  /\ UNCHANGED <<file, mqd, sends, received, due, opens>>

Request(p) == req[mqd[p].req]

(* Line 226: is a process registered?                                      *)
check(p) ==
  /\ pc[p] = "check"
  /\ Goto(p, IF Request(p).pid = NULL THEN "idle" ELSE "kill")
  /\ UNCHANGED <<file, loc, mqd, data, due, opens>>

(* A signal ends the sleep of a process in msgsnd or msgrcv.               *)
Asleep(p) ==
  \/ pc[p] = "msgsnd" /\ Type(loc[p].prio) > 0 /\ Full(p) /\ ~mqd[p].nowait
  \/ pc[p] = "msgrcv" /\ Queued(p) = <<>> /\ ~mqd[p].nowait

(* Line 227 reads the request again; kill(0, s) is for all the processes   *)
(* of the group, signal 0 for none.                                        *)
kill(p) ==
  LET r == Request(p)
      to == IF r.signo = NULL THEN {} ELSE IF r.pid = NULL THEN Proc ELSE {r.pid}
  IN /\ pc[p] = "kill"
     /\ \E woken \in SUBSET {x \in to : Asleep(x)} :
          /\ pc' = [x \in Proc |-> IF x = p THEN "clear" ELSE IF x \in woken THEN "idle" ELSE pc[x]]
          /\ loc' = [x \in Proc |-> IF x \in woken THEN NULL ELSE loc[x]]
          /\ promised' = promised \cup UNION {Promise(x) : x \in {y \in woken : pc[y] = "msgsnd"}}
     /\ due' = due \ {r.pid}
     /\ UNCHANGED <<file, mqd, msq, sends, received, opens>>

(* A fault: the request stays after the notification.                      *)
ClearNothing(p) ==
  /\ pc[p] = "clear" /\ Goto(p, "idle")
  /\ UNCHANGED <<file, loc, mqd, data, due, opens>>

(* Line 228.                                                               *)
clear(p) ==
  /\ pc[p] = "clear"
  /\ SetPid(mqd[p].req, NULL) /\ Goto(p, "idle")
  /\ UNCHANGED <<link, unlinked, loc, mqd, data, due, opens>>

mq_receive(p) ==
  /\ pc[p] = "idle" /\ mqd[p] # NULL /\ p \in Receivers
  /\ Goto(p, "msgrcv")
  /\ UNCHANGED <<file, loc, mqd, data, due, opens>>

(* A fault: type 0, for the oldest message.                                *)
FirstArrived(s) == 1

(* msgrcv with a negative type: the first message of the lowest type.      *)
First(s) ==
  CHOOSE n \in DOMAIN s : \A m \in DOMAIN s :
    s[n].mtype < s[m].mtype \/ (s[n].mtype = s[m].mtype /\ n <= m)

msgrcv(p) ==
  LET s == Queued(p)
      n == First(s)
  IN /\ pc[p] = "msgrcv"
     /\ \/ /\ s # <<>>
           /\ msq' = [msq EXCEPT ![mqd[p].key] = SubSeq(s, 1, n - 1) \o SubSeq(s, n + 1, Len(s))]
           /\ received' = [received EXCEPT ![mqd[p].key[1]] =
                            Append(@, [id |-> s[n].id, prio |-> MQ_PRIO_MAX - s[n].mtype])]
        \/ s = <<>> /\ mqd[p].nowait /\ UNCHANGED <<msq, received>>
     /\ Goto(p, "idle")
     /\ UNCHANGED <<file, loc, mqd, sends, promised, due, opens>>

-----------------------------------------------------------------------------
(* mq_notify: three accesses to the shared request (lines 193, 197, 198).  *)

mq_notify(p) ==
  /\ pc[p] = "idle" /\ mqd[p] # NULL /\ p \in Watchers /\ mqd[p].req # NULL
  /\ \/ SetPid(mqd[p].req, NULL) /\ UNCHANGED pc
     \/ Request(p).pid = NULL /\ Goto(p, "setpid") /\ UNCHANGED req
  /\ UNCHANGED <<link, unlinked, loc, mqd, data, due, opens>>

setpid(p) ==
  /\ pc[p] = "setpid"
  /\ SetPid(mqd[p].req, p) /\ Goto(p, "setsigno") /\ due' = due \cup {p}
  /\ UNCHANGED <<link, unlinked, loc, mqd, data, opens>>

setsigno(p) ==
  /\ pc[p] = "setsigno"
  /\ req' = [req EXCEPT ![mqd[p].req].signo = p] /\ Goto(p, "idle")
  /\ UNCHANGED <<link, unlinked, loc, mqd, data, due, opens>>

-----------------------------------------------------------------------------
step(p) ==
  \/ mq_open(p) \/ creat(p) \/ ftok(p) \/ msgget(p) \/ map(p) \/ err(p)
  \/ mq_close(p) \/ mq_unlink(p) \/ mq_setattr(p)
  \/ mq_send(p) \/ msgsnd(p) \/ check(p) \/ kill(p) \/ clear(p)
  \/ mq_receive(p) \/ msgrcv(p)
  \/ mq_notify(p) \/ setpid(p) \/ setsigno(p)

Next == \E p \in Proc : step(p)

Spec == Init /\ [][Next]_vars

-----------------------------------------------------------------------------
(* Properties                                                              *)

(* Every variable has its type; a process inside a call has the locals of  *)
(* that call, and one that sends, receives or registers has a descriptor.  *)
TypeOK ==
  /\ link \in Inode \cup {NULL} /\ unlinked \in BOOLEAN
  /\ req \in [Inode -> [pid : Proc \cup {NULL}, signo : Proc \cup {NULL}]]
  /\ \A k \in Key : msq[k] # NULL =>
       /\ Len(msq[k]) <= QLimit
       /\ \A n \in DOMAIN msq[k] : msq[k][n] \in [id : 1 .. sends, mtype : 1 .. MQ_PRIO_MAX]
  /\ \A p \in Proc :
       /\ mqd[p] # NULL => mqd[p] \in [key : Key, fd : Inode, nowait : BOOLEAN, req : Inode \cup {NULL}]
       /\ \/ pc[p] \in {"idle", "dead"} /\ loc[p] = NULL
          \/ pc[p] \in {"creat", "ftok", "msgget", "map", "err"} /\ loc[p] \in Locals /\ mqd[p] = NULL
          \/ pc[p] = "msgsnd" /\ loc[p] \in Message /\ mqd[p] # NULL
          \/ pc[p] = "msgrcv" /\ loc[p] = NULL /\ mqd[p] # NULL
          \/ /\ pc[p] \in {"check", "kill", "clear", "setpid", "setsigno"}
             /\ loc[p] = NULL /\ mqd[p] # NULL /\ mqd[p].req # NULL
  /\ opens \in 0 .. MaxOpens /\ sends \in 0 .. MaxSends /\ promised \subseteq Message /\ due \subseteq Proc

(* The messages of s, most urgent type first, equals in order of arrival.  *)
ByType(s) ==
  LET upto[t \in 0 .. MQ_PRIO_MAX] ==
        IF t = 0 THEN <<>> ELSE upto[t - 1] \o SelectSeq(s, LAMBDA m : m.mtype = t)
  IN upto[MQ_PRIO_MAX]

Ordered(s) ==
  LET t == ByType(s)
  IN [n \in DOMAIN s |-> [id |-> t[n].id, prio |-> MQ_PRIO_MAX - t[n].mtype]]

PQ == INSTANCE PriorityQueues WITH
  Queue <- Inode, Capacity <- QLimit,
  Message <- [id : 1 .. MaxSends, prio : 0 .. MQ_PRIO_MAX - 1],
  queue <- [i \in Inode |-> IF msq[<<i, "a">>] = NULL THEN <<>> ELSE Ordered(msq[<<i, "a">>])],
  received <- received

(* mq_send and mq_receive implement queues in order of priority: the types *)
(* mq_send makes of the priorities (line 223), the kernel's choice by type *)
(* (line 238) and the priority handed back (line 240) deliver the most     *)
(* urgent message first, equals in order of arrival, each once, whatever   *)
(* happens to the queue's name.                                            *)
ServesByPriority == PQ!Spec

(* A message that a blocking mq_send accepted (line 225), with a priority  *)
(* below MQ_PRIO_MAX, is in a queue until mq_receive returns it with that  *)
(* priority (line 240), also when the name is lost, descriptors are closed *)
(* and the inode is used again.                                            *)
NothingLost ==
  \A m \in promised :
    \/ \E k \in Key : msq[k] # NULL /\ \E n \in DOMAIN msq[k] : msq[k][n].id = m.id
    \/ \E i \in Inode : \E n \in DOMAIN received[i] : received[i][n] = m

(* As long as nothing removed the name, all descriptors are for the queue  *)
(* and the file behind it: the two opens, ftok and msgget of mq_open       *)
(* (lines 60 to 109), run by several processes at once, end in one queue.  *)
OneQueue ==
  ~unlinked => \A p \in Proc : mqd[p] # NULL => mqd[p].key = <<link, "a">> /\ mqd[p].fd = link

(* mq_unlink has removed no queue, so processes that opened the name hold  *)
(* descriptors for the same queue (mq_open/assertions.xml, id 2).          *)
SameQueue ==
  \A p, q \in Proc : mqd[p] # NULL /\ mqd[q] # NULL => mqd[p].key = mqd[q].key

(* Where one process sends, a process about to be signalled (line 227) has *)
(* registered since it was last signalled: line 228 spends the request.    *)
NotifiedOnce ==
  \A p \in Proc : pc[p] = "kill" /\ Request(p).pid # NULL => Request(p).pid \in due

(* A queue outlives its name for those who have it open: neither mq_unlink *)
(* (lines 171 to 181) nor a mq_open that fails and removes the name (line  *)
(* 149), nor the closing of the last other descriptor, takes away the      *)
(* queue of a descriptor, or the one that mq_open has found and is about   *)
(* to hand out.                                                            *)
QueueOutlivesName ==
  \A p \in Proc :
    /\ mqd[p] # NULL => msq[mqd[p].key] # NULL
    /\ pc[p] = "map" => msq[loc[p].key] # NULL

(* The signal of line 227 goes to the process that registered, not to the  *)
(* whole process group (mq_notify/assertions.xml, id 1).                   *)
OnlyRegistrant ==
  \A p \in Proc : pc[p] = "kill" /\ Request(p).signo # NULL => Request(p).pid # NULL
=============================================================================
