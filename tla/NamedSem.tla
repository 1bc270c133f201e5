------------------------------ MODULE NamedSem ------------------------------
(***************************************************************************)
(* Named semaphores of posix1b/semaphore.c: sem_open, sem_close,           *)
(* sem_unlink, sem_post, sem_wait and sem_trywait on one name, called by   *)
(* several processes.  The library keeps a named semaphore in a System V   *)
(* set of three semaphores:                                                *)
(*    0  val    the value of the POSIX semaphore,                          *)
(*    1  flag   1 once initialised, 0 before and after sem_unlink,         *)
(*    2  refs   the access counter, changed with SEM_UNDO.                 *)
(* One action is one system call with the library code that follows it up  *)
(* to the next one, so calls of different processes interleave wherever    *)
(* the kernel can switch between them.  semop is atomic on a whole array   *)
(* of operations; one that must sleep is an action that is not enabled.    *)
(***************************************************************************)
EXTENDS Integers, FiniteSets

CONSTANTS
  Proc,        \* processes
  Semid, NoSem,\* ids of semaphore sets; never reused (ids carry a sequence number)
  Key, NoKey,  \* values of ftok(name, 0): one for every inode the name may get
  InitValues,  \* third argument of sem_open; a negative one is refused
  Creators,    \* processes that pass O_CREAT
  Unlinkers,   \* processes that call sem_unlink
  Signallers,  \* processes that post without having waited
  Interruptible,\* processes that have handlers for signals that arrive
  InodeReuse,  \* may the file system give a new file the inode of a deleted one?
  SEMVMX,      \* the largest value of a System V semaphore
  MaxInits,    \* bound: how often one set is initialised
  MaxUnits     \* bound: units put into one set by processes that hold none

ASSUME SetsAssumption ==
  /\ IsFiniteSet(Proc)
  /\ NoSem \notin Semid /\ NoKey \notin Key
  /\ InitValues \subseteq Int
  /\ Creators \subseteq Proc /\ Unlinkers \subseteq Proc /\ Signallers \subseteq Proc
  /\ Interruptible \subseteq Proc
  /\ InodeReuse \in BOOLEAN
  /\ SEMVMX \in Nat /\ MaxInits \in Nat /\ MaxUnits \in Int

VARIABLES
  file,        \* key of the file called name, NoKey when there is none
  spent,       \* keys a new file cannot get: {} when inodes are reused
  live,        \* sets that exist
  skey,        \* key of a set, NoKey before semget creates it
  val, flag, refs,
  undo,        \* the set whose refs the kernel will lower when the process ends
  pc, arg, key, sid,  \* per process: next step, arguments and locals of the call
  handle,      \* sem_t* the process got from sem_open, as the id in it
  holds,       \* has the process taken a unit through its handle?
  inits, marks, units \* history: initialisations, unlink marks, units put into a set

kernel  == <<file, spent, live, skey>>
sems    == <<val, flag, refs, undo>>
locals  == <<arg, key, sid>>
history == <<inits, marks, units>>
vars == <<kernel, sems, locals, pc, handle, holds, history>>

OpenArgs == [creat : BOOLEAN, excl : BOOLEAN, init : InitValues \cup {0}]

(* What process p may pass: the mode and value arguments exist only with   *)
(* O_CREAT, and O_EXCL alone is ignored by semget.                         *)
ArgsOf(p) == {a \in OpenArgs : IF a.creat THEN p \in Creators /\ a.init \in InitValues
                                          ELSE ~a.excl /\ a.init = 0}

Steps == {"idle", "o_ftok", "o_semget", "o_init", "o_attach",
          "u_semget", "u_unlink", "u_mark", "u_check", "u_rmid", "c_check", "c_rmid"}

Attached(s) == {p \in Proc : undo[p] = s}
Holders(s)  == {p \in Proc : holds[p] /\ handle[p] = s}

Goto(p, step) == pc' = [pc EXCEPT ![p] = step]

(* The call returns: its locals are gone. *)
NoArg == [creat |-> FALSE, excl |-> FALSE, init |-> 0]
Return(p) ==
  /\ Goto(p, "idle") /\ arg' = [arg EXCEPT ![p] = NoArg]
  /\ key' = [key EXCEPT ![p] = NoKey] /\ sid' = [sid EXCEPT ![p] = NoSem]

Init ==
  /\ file = NoKey /\ spent = {} /\ live = {} /\ skey = [s \in Semid |-> NoKey]
  /\ val = [s \in Semid |-> 0] /\ flag = [s \in Semid |-> 0] /\ refs = [s \in Semid |-> 0]
  /\ undo = [p \in Proc |-> NoSem]
  /\ pc = [p \in Proc |-> "idle"]
  /\ arg = [p \in Proc |-> NoArg]
  /\ key = [p \in Proc |-> NoKey] /\ sid = [p \in Proc |-> NoSem]
  /\ handle = [p \in Proc |-> NoSem] /\ holds = [p \in Proc |-> FALSE]
  /\ inits = [s \in Semid |-> 0] /\ marks = [s \in Semid |-> 0]
  /\ units = [s \in Semid |-> 0]

-----------------------------------------------------------------------------
(* sem_open.  open(name, O_WRONLY|O_CREAT) makes the file when it is not   *)
(* there, whatever oflag says.                                             *)

sem_open(p) ==
  /\ pc[p] = "idle" /\ handle[p] = NoSem
  /\ \E a \in ArgsOf(p) : arg' = [arg EXCEPT ![p] = a]
  /\ \/ file # NoKey /\ UNCHANGED <<file, spent>>
     \/ /\ file = NoKey
        /\ \E k \in Key \ spent : file' = k /\ spent' = IF InodeReuse THEN {} ELSE spent \cup {k}
  /\ Goto(p, "o_ftok")
  /\ UNCHANGED <<live, skey, sems, key, sid, handle, holds, history>>

sem_open_ftok(p) ==
  /\ pc[p] = "o_ftok"
  /\ \/ /\ file = NoKey \/ (arg[p].creat /\ arg[p].init < 0)
        /\ Return(p)
     \/ /\ file # NoKey /\ ~(arg[p].creat /\ arg[p].init < 0)
        /\ key' = [key EXCEPT ![p] = file] /\ Goto(p, "o_semget") /\ UNCHANGED <<arg, sid>>
  /\ UNCHANGED <<kernel, sems, handle, holds, history>>

WithKey(k) == {s \in live : skey[s] = k}
FirstTry(p) == IF arg[p].creat THEN "o_init" ELSE "o_attach"

sem_open_semget(p) ==
  /\ pc[p] = "o_semget"
  /\ \/ /\ IF WithKey(key[p]) = {} THEN ~arg[p].creat \/ \A s \in Semid : skey[s] # NoKey
                                   ELSE arg[p].creat /\ arg[p].excl
        /\ Return(p) /\ UNCHANGED <<live, skey>>
     \/ /\ ~(arg[p].creat /\ arg[p].excl)
        /\ \E s \in WithKey(key[p]) : sid' = [sid EXCEPT ![p] = s]
        /\ Goto(p, FirstTry(p)) /\ UNCHANGED <<live, skey, arg, key>>
     \/ /\ WithKey(key[p]) = {} /\ arg[p].creat
        /\ \E s \in {t \in Semid : skey[t] = NoKey} :
             /\ live' = live \cup {s} /\ skey' = [skey EXCEPT ![s] = key[p]]
             /\ sid' = [sid EXCEPT ![p] = s]
        /\ Goto(p, FirstTry(p)) /\ UNCHANGED <<arg, key>>
  /\ UNCHANGED <<file, spent, sems, handle, holds, history>>

(* The access counter is at its limit: both arrays fail with ERANGE.       *)
CounterFull(s) == refs[s] = SEMVMX

(* Fault: the access counter is raised without SEM_UNDO. *)
AttachNoUndo(p, s) ==
  /\ ~CounterFull(s)
  /\ refs' = [refs EXCEPT ![s] = @ + 1] /\ UNCHANGED undo
  /\ handle' = [handle EXCEPT ![p] = s] /\ Return(p)

(* Fault: the access counter is not raised. *)
AttachUncounted(p, s) ==
  /\ UNCHANGED refs /\ undo' = [undo EXCEPT ![p] = s]
  /\ handle' = [handle EXCEPT ![p] = s] /\ Return(p)

(* The last operation of both arrays: count the process in, with SEM_UNDO, *)
(* and return the handle.                                                  *)
Attach(p, s) ==
  /\ ~CounterFull(s)
  /\ refs' = [refs EXCEPT ![s] = @ + 1] /\ undo' = [undo EXCEPT ![p] = s]
  /\ handle' = [handle EXCEPT ![p] = s] /\ Return(p)

(* sembuf.sem_op is a short: init_value loses its high bits.               *)
Short(v) == LET w == v % (2 * (SEMVMX + 1)) IN IF w > SEMVMX THEN w - 2 * (SEMVMX + 1) ELSE w

(* Does the operation sem_op = v let a semaphore of value x pass?  (0: only *)
(* when x is 0; negative: only when x is large enough.)                    *)
Passes(x, v) == CASE v = 0 -> x = 0 [] v < 0 -> x + v >= 0 [] OTHER -> TRUE

(* ERANGE of the first array: the value or the access counter would pass   *)
(* SEMVMX; the counter is looked at only when the value does not sleep.    *)
OutOfRange(s, v) == val[s] + v > SEMVMX \/ (Passes(val[s], v) /\ CounterFull(s))

(* Lines 143, 154 and 165: the test for "not yet initialised", and which   *)
(* array follows one that failed with EAGAIN.                              *)
AnyFlag(s) == TRUE                                 \* fault: no test
Uninitialised(s) == flag[s] = 0
SameArray(step) == step                            \* fault: n_sops not changed
OtherArray(step) == IF step = "o_init" THEN "o_attach" ELSE "o_init"

(* First array of the loop: the flag must be 0 (else EAGAIN and the other  *)
(* array), raise it, apply init_value to the value.                        *)
sem_open_init(p) ==
  LET s == sid[p]  v == Short(arg[p].init)  IN
  /\ pc[p] = "o_init"
  /\ \/ /\ s \notin live \/ (flag[s] = 0 /\ OutOfRange(s, v))   \* EIDRM, ERANGE
        /\ Return(p) /\ UNCHANGED <<sems, handle, history>>
     \/ /\ s \in live /\ flag[s] # 0                               \* EAGAIN
        /\ Goto(p, OtherArray(pc[p])) /\ UNCHANGED <<sems, locals, handle, history>>
     \/ /\ s \in live /\ Uninitialised(s) /\ Passes(val[s], v)
        /\ val[s] + v <= SEMVMX /\ inits[s] < MaxInits
        /\ flag' = [flag EXCEPT ![s] = @ + 1] /\ val' = [val EXCEPT ![s] = @ + v]
        /\ Attach(p, s)
        /\ inits' = [inits EXCEPT ![s] = @ + 1] /\ units' = [units EXCEPT ![s] = @ + v]
        /\ UNCHANGED marks
  /\ UNCHANGED <<kernel, holds>>

(* Second array: take the flag and put it back; without O_CREAT sleep      *)
(* until it is there, with O_CREAT go back to the first array.             *)
sem_open_attach(p) ==
  LET s == sid[p] IN
  /\ pc[p] = "o_attach"
  /\ \/ /\ s \notin live \/ (flag[s] > 0 /\ CounterFull(s))              \* EIDRM, ERANGE
        /\ Return(p) /\ UNCHANGED <<refs, undo, handle>>
     \/ /\ s \in live /\ flag[s] = 0 /\ arg[p].creat               \* EAGAIN
        /\ Goto(p, OtherArray(pc[p])) /\ UNCHANGED <<refs, undo, locals, handle>>
     \/ /\ s \in live /\ flag[s] > 0
        /\ Attach(p, s)
  /\ UNCHANGED <<kernel, val, flag, holds, history>>

-----------------------------------------------------------------------------
(* sem_post, sem_wait and sem_trywait through an open handle; get_semid    *)
(* returns the id stored in it.  A call that fails changes nothing.        *)
Usable(p) == pc[p] = "idle" /\ handle[p] \in live

sem_post(p) ==
  LET s == handle[p] IN
  /\ Usable(p) /\ val[s] < SEMVMX
  /\ holds[p] \/ (p \in Signallers /\ units[s] < MaxUnits)
  /\ val' = [val EXCEPT ![s] = @ + 1]
  /\ holds' = [holds EXCEPT ![p] = FALSE]
  /\ units' = IF holds[p] THEN units ELSE [units EXCEPT ![s] = @ + 1]
  /\ UNCHANGED <<kernel, flag, refs, undo, locals, pc, handle, inits, marks>>

(* Fault: the unit is not taken out. *)
PeekUnit(p) ==
  /\ Usable(p) /\ ~holds[p] /\ val[handle[p]] > 0
  /\ holds' = [holds EXCEPT ![p] = TRUE]
  /\ UNCHANGED <<kernel, sems, locals, pc, handle, history>>

TakeUnit(p) ==
  LET s == handle[p] IN
  /\ Usable(p) /\ ~holds[p] /\ val[s] > 0
  /\ val' = [val EXCEPT ![s] = @ - 1]
  /\ holds' = [holds EXCEPT ![p] = TRUE]
  /\ UNCHANGED <<kernel, flag, refs, undo, locals, pc, handle, history>>

sem_wait(p) == TakeUnit(p)
sem_trywait(p) == TakeUnit(p)

-----------------------------------------------------------------------------
(* semctl(semid, 0, IPC_RMID): the set and its undo adjustments are gone   *)
(* (no effect on a set that is gone); sleepers will fail with EIDRM.       *)
Rmid(s) ==
  /\ live' = live \ {s}
  /\ undo' = [p \in Proc |-> IF undo[p] = s THEN NoSem ELSE undo[p]]
  /\ val' = [val EXCEPT ![s] = 0] /\ flag' = [flag EXCEPT ![s] = 0]
  /\ refs' = [refs EXCEPT ![s] = 0] /\ inits' = [inits EXCEPT ![s] = 0]
  /\ marks' = [marks EXCEPT ![s] = 0] /\ units' = [units EXCEPT ![s] = 0]

sem_unlink(p) ==
  /\ pc[p] = "idle" /\ p \in Unlinkers /\ file # NoKey
  /\ key' = [key EXCEPT ![p] = file]
  /\ Goto(p, "u_semget")
  /\ UNCHANGED <<kernel, sems, arg, sid, handle, holds, history>>

sem_unlink_semget(p) ==
  /\ pc[p] = "u_semget"
  /\ \/ WithKey(key[p]) = {} /\ Return(p)
     \/ /\ \E s \in WithKey(key[p]) : sid' = [sid EXCEPT ![p] = s]
        /\ Goto(p, "u_unlink") /\ UNCHANGED <<arg, key>>
  /\ UNCHANGED <<kernel, sems, handle, holds, history>>

(* Fault: the name stays. *)
KeepName(p) ==
  /\ pc[p] = "u_unlink" /\ Goto(p, "u_mark")
  /\ UNCHANGED <<kernel, sems, locals, handle, holds, history>>

sem_unlink_unlink(p) ==
  /\ pc[p] = "u_unlink"
  /\ file' = NoKey
  /\ Goto(p, "u_mark")
  /\ UNCHANGED <<spent, live, skey, sems, locals, handle, holds, history>>

(* Lower the flag.  The operation sleeps while the flag is 0; a failure    *)
(* (the set is gone) is ignored.                                           *)
sem_unlink_mark(p) ==
  LET s == sid[p] IN
  /\ pc[p] = "u_mark"
  /\ \/ /\ s \in live /\ flag[s] > 0
        /\ flag' = [flag EXCEPT ![s] = @ - 1] /\ marks' = [marks EXCEPT ![s] = @ + 1]
     \/ s \notin live /\ UNCHANGED <<flag, marks>>
  /\ Goto(p, "u_check")
  /\ UNCHANGED <<kernel, val, refs, undo, locals, handle, holds, inits, units>>

Exists(s) == s \in live                            \* fault: counter not tested
Unreferenced(s) == s \in live /\ refs[s] = 0

sem_unlink_check(p) ==
  /\ pc[p] = "u_check"
  /\ IF Unreferenced(sid[p]) THEN Goto(p, "u_rmid") /\ UNCHANGED locals ELSE Return(p)
  /\ UNCHANGED <<kernel, sems, handle, holds, history>>

sem_unlink_rmid(p) ==
  /\ pc[p] = "u_rmid"
  /\ Rmid(sid[p]) /\ Return(p)
  /\ UNCHANGED <<file, spent, skey, handle, holds>>

-----------------------------------------------------------------------------
(* sem_close: leave the access counter (ignored when the set is gone),     *)
(* then remove a set that nobody has open and that was unlinked.           *)
sem_close(p) ==
  LET s == handle[p] IN
  /\ pc[p] = "idle" /\ s # NoSem
  /\ \/ /\ s \in live /\ refs[s] > 0
        /\ refs' = [refs EXCEPT ![s] = @ - 1] /\ undo' = [undo EXCEPT ![p] = NoSem]
     \/ s \notin live /\ UNCHANGED <<refs, undo>>
  /\ sid' = [sid EXCEPT ![p] = s] /\ handle' = [handle EXCEPT ![p] = NoSem]
  /\ holds' = [holds EXCEPT ![p] = FALSE]
  /\ Goto(p, "c_check")
  /\ UNCHANGED <<kernel, val, flag, arg, key, history>>

sem_close_check(p) ==
  LET s == sid[p] IN
  /\ pc[p] = "c_check"
  /\ IF Unreferenced(s) /\ flag[s] = 0
       THEN Goto(p, "c_rmid") /\ UNCHANGED locals ELSE Return(p)
  /\ UNCHANGED <<kernel, sems, handle, holds, history>>

sem_close_rmid(p) ==
  /\ pc[p] = "c_rmid"
  /\ Rmid(sid[p]) /\ Return(p)
  /\ UNCHANGED <<file, spent, skey, handle, holds>>

(* A signal wakes a sleeping semop, which fails with EINTR: sem_open       *)
(* returns an error, sem_unlink goes on as if the flag had been lowered.   *)
Interrupted(p) ==
  LET s == sid[p] IN
  /\ p \in Interruptible /\ s \in live /\ flag[s] = 0
  /\ \/ pc[p] = "o_init" /\ ~Passes(val[s], Short(arg[p].init)) /\ Return(p)
     \/ pc[p] = "o_attach" /\ ~arg[p].creat /\ Return(p)
     \/ pc[p] = "u_mark" /\ Goto(p, "u_check") /\ UNCHANGED locals
  /\ UNCHANGED <<kernel, sems, handle, holds, history>>

(* The process ends anywhere; the kernel applies its SEM_UNDO adjustment.  *)
Exit(p) ==
  /\ pc[p] # "idle" \/ handle[p] # NoSem
  /\ refs' = [s \in Semid |-> IF undo[p] = s THEN refs[s] - 1 ELSE refs[s]]
  /\ undo' = [undo EXCEPT ![p] = NoSem]
  /\ handle' = [handle EXCEPT ![p] = NoSem] /\ holds' = [holds EXCEPT ![p] = FALSE]
  /\ Return(p)
  /\ UNCHANGED <<kernel, val, flag, history>>

-----------------------------------------------------------------------------
OpenStep(p) == sem_open_ftok(p) \/ sem_open_semget(p) \/ sem_open_init(p) \/ sem_open_attach(p)
UnlinkStep(p) == \/ sem_unlink_semget(p) \/ sem_unlink_unlink(p) \/ sem_unlink_mark(p)
                 \/ sem_unlink_check(p) \/ sem_unlink_rmid(p)
CloseStep(p) == sem_close_check(p) \/ sem_close_rmid(p)
Call(p) == sem_open(p) \/ sem_unlink(p) \/ sem_close(p)
Use(p) == sem_post(p) \/ sem_wait(p) \/ sem_trywait(p)

Next == \E p \in Proc : \/ Call(p) \/ Use(p) \/ OpenStep(p) \/ UnlinkStep(p) \/ CloseStep(p)
                        \/ Interrupted(p) \/ Exit(p)

Spec == Init /\ [][Next]_vars

(* The kernel keeps running a process that is inside a call: a system call *)
(* that can complete does.  Nothing makes a process call, or end.          *)
FairSpec == Spec /\ \A p \in Proc : WF_vars(OpenStep(p) \/ UnlinkStep(p) \/ CloseStep(p))

-----------------------------------------------------------------------------
FileTypes == file \in Key \cup {NoKey} /\ spent \subseteq Key
SetTypes ==
  /\ live \subseteq Semid /\ skey \in [Semid -> Key \cup {NoKey}]
  /\ val \in [Semid -> 0 .. SEMVMX] /\ flag \in [Semid -> 0 .. 1] /\ refs \in [Semid -> 0 .. SEMVMX]
  /\ inits \in [Semid -> Nat] /\ marks \in [Semid -> Nat] /\ units \in [Semid -> Int]
CallTypes ==
  /\ pc \in [Proc -> Steps] /\ arg \in [Proc -> OpenArgs]
  /\ key \in [Proc -> Key \cup {NoKey}] /\ sid \in [Proc -> Semid \cup {NoSem}]
HandleTypes ==
  /\ undo \in [Proc -> Semid \cup {NoSem}] /\ handle \in [Proc -> Semid \cup {NoSem}]
  /\ holds \in [Proc -> BOOLEAN]

(* The flag is 0 or 1, and the value and the access counter stay within a  *)
(* System V semaphore, whatever the calls of sem_open, sem_post, sem_close *)
(* and sem_unlink and the processes that end add to them or take off.      *)
TypeOK == FileTypes /\ SetTypes /\ CallTypes /\ HandleTypes

(* The access counter of a set that exists is the number of processes that *)
(* came out of sem_open and have neither called sem_close nor ended, also  *)
(* when processes end anywhere inside a call (SEM_UNDO, lines 153 and 276).*)
CounterExact == \A s \in live : refs[s] = Cardinality(Attached(s))

(* The decrement of sem_close (line 274), which has no IPC_NOWAIT, never   *)
(* finds the counter at 0: closing an open handle does not sleep.          *)
CloseNeverSleeps == \A p \in Proc : handle[p] \in live => refs[handle[p]] > 0

(* However many processes race through sem_open with O_CREAT, only one     *)
(* runs the initialising array (lines 142-154) of a set nobody unlinked.   *)
InitialisedOnce == \A s \in live : marks[s] = 0 => inits[s] <= 1

(* A set never hands out more units than sem_open and sem_post put in: the *)
(* units left and the ones held by processes add up to no more than that   *)
(* (fewer when a holder ended: line 229 waits without SEM_UNDO).           *)
NoUnitFromNowhere == \A s \in live : val[s] + Cardinality(Holders(s)) <= units[s]

(* Two processes that open with O_CREAT and value 1 and use the semaphore  *)
(* as a lock never hold it together, as long as nobody unlinks it.         *)
LockExclusion == (InitValues = {1} /\ Signallers = {})
                   => \A s \in live : marks[s] = 0 => Cardinality(Holders(s)) <= 1

(* conformance/interfaces/sem_unlink, assertion 2: the set under an open   *)
(* handle is not removed by sem_unlink or sem_close of another process.    *)
DestructionPostponed == \A p \in Proc : handle[p] # NoSem => handle[p] \in live

(* conformance/interfaces/sem_unlink, assertion 6: sem_open after          *)
(* sem_unlink gives a new semaphore, not one that had been initialised.    *)
RecreatedIsNew == \A s \in live : inits[s] <= 1

(* conformance/interfaces/sem_unlink, assertion 7: sem_unlink does not     *)
(* block (line 257 gives its semop no IPC_NOWAIT).                         *)
UnlinkNeverSleeps == \A p \in Proc : pc[p] = "u_mark" => ~(sid[p] \in live /\ flag[sid[p]] = 0)

(* conformance/interfaces/sem_open, assertion 11: the argument of the      *)
(* opener that initialises the set is what it adds to the value.           *)
InitialValueKept ==
  [][\A p \in Proc, s \in Semid : pc[p] = "o_init" /\ sid[p] = s /\ inits'[s] = inits[s] + 1
       /\ pc'[p] = "idle" => val'[s] = val[s] + arg[p].init]_vars

(* An opener with O_CREAT gets out of the loop of lines 140-167, whoever   *)
(* else opens, closes or ends meanwhile, if nobody unlinks.                *)
CreatorReturns == \A p \in Proc : (pc[p] = "o_init") ~> (pc[p] = "idle")
=============================================================================
