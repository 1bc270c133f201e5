--------------------------- MODULE NamedSemProofs ---------------------------
(***************************************************************************)
(* Invariants of NamedSem for every number of processes, sets and inodes.  *)
(***************************************************************************)
EXTENDS NamedSem, FiniteSetTheorems, TLAPS

Opening == {"o_ftok", "o_semget", "o_init", "o_attach"}

(* What the handle, locals and undo adjustment of a process say.           *)
ProcOK(p) ==
  /\ undo[p] # NoSem => undo[p] \in live /\ handle[p] = undo[p]
  /\ handle[p] \in live => undo[p] = handle[p]
  /\ handle[p] # NoSem => skey[handle[p]] # NoKey
  /\ handle[p] = NoSem => ~holds[p]
  /\ pc[p] \in Opening => handle[p] = NoSem
  /\ pc[p] = "o_semget" => key[p] \in Key
ProcInv == \A p \in Proc : ProcOK(p)

(* A set that does not exist is blank; every raise of the flag is an       *)
(* initialisation and every lowering an unlink.                            *)
SetOK(s) ==
  /\ s \in live => skey[s] # NoKey
  /\ s \notin live => val[s] = 0 /\ flag[s] = 0 /\ refs[s] = 0 /\ units[s] = 0
  /\ inits[s] = flag[s] + marks[s]
  /\ (InitValues = {1} /\ Signallers = {}) => units[s] <= inits[s]
SetInv == \A s \in Semid : SetOK(s)

IInv == TypeOK /\ ProcInv /\ SetInv /\ CounterExact /\ NoUnitFromNowhere

-----------------------------------------------------------------------------
(* Counting one process in or out of a set of processes. *)
LEMMA AddOne ==
  ASSUME NEW S \in SUBSET Proc, NEW p \in Proc, p \notin S
  PROVE  Cardinality(S) \in Nat /\ Cardinality(S \cup {p}) = Cardinality(S) + 1
  BY SetsAssumption, FS_Subset, FS_AddElement, FS_CardinalityType

(* Taking a member out of a set of processes lowers its count by one.      *)
LEMMA RemoveOne ==
  ASSUME NEW S \in SUBSET Proc, NEW p \in S
  PROVE  /\ Cardinality(S) \in Nat /\ Cardinality(S) > 0
         /\ Cardinality(S \ {p}) = Cardinality(S) - 1
<1>1. IsFiniteSet(S)
  BY SetsAssumption, FS_Subset
<1>2. Cardinality(S) \in Nat /\ Cardinality(S) # 0
  BY <1>1, FS_CardinalityType, FS_EmptySet
<1>3. Cardinality(S \ {p}) = Cardinality(S) - 1
  BY <1>1, FS_RemoveElement
<1> QED  BY <1>2, <1>3

(* A set of processes has a natural number of members.                     *)
LEMMA CountType ==
  ASSUME NEW S \in SUBSET Proc
  PROVE  Cardinality(S) \in Nat
  BY SetsAssumption, FS_Subset, FS_CardinalityType

(* sem_op is a short of the value the code assigns to it. *)
LEMMA ShortType ==
  ASSUME NEW v \in Int
  PROVE  Short(v) \in Int /\ Short(v) <= SEMVMX
<1>1. SEMVMX \in Nat  BY SetsAssumption
<1>2. v % (2 * (SEMVMX + 1)) \in 0 .. (2 * (SEMVMX + 1) - 1)
  BY <1>1, Z3
<1> QED  BY <1>1, <1>2 DEF Short

(* The initial value 1 survives the conversion to a short.                 *)
LEMMA ShortOfBit ==
  ASSUME NEW v \in {0, 1}
  PROVE  Short(v) <= 1
<1>1. SEMVMX \in Nat  BY SetsAssumption
<1>2. PICK m \in Nat : m = 2 * (SEMVMX + 1) /\ m > 1  BY <1>1
<1>3. v % m = v  BY <1>2
<1> QED  BY <1>1, <1>2, <1>3 DEF Short

(* The assignments of the two ways a step moves a process.                 *)
LEMMA GotoMoves ==
  ASSUME CallTypes, NEW p \in Proc, NEW step \in Steps, Goto(p, step)
  PROVE  /\ pc' \in [Proc -> Steps] /\ pc'[p] = step
         /\ \A q \in Proc \ {p} : pc'[q] = pc[q]
  BY DEF CallTypes, Goto

(* Return keeps the locals well typed and moves only its process.          *)
LEMMA ReturnMoves ==
  ASSUME CallTypes, NEW p \in Proc, Return(p)
  PROVE  /\ CallTypes' /\ pc'[p] = "idle"
         /\ \A q \in Proc \ {p} : pc'[q] = pc[q] /\ key'[q] = key[q]
<1>1. "idle" \in Steps  BY DEF Steps
<1>2. NoArg \in OpenArgs  BY DEF NoArg, OpenArgs
<1>3. /\ pc' \in [Proc -> Steps] /\ pc'[p] = "idle"
      /\ \A q \in Proc \ {p} : pc'[q] = pc[q]
  BY <1>1, GotoMoves DEF Return
<1>4. arg' \in [Proc -> OpenArgs]  BY <1>2 DEF Return, CallTypes
<1>5. /\ key' \in [Proc -> Key \cup {NoKey}] /\ sid' \in [Proc -> Semid \cup {NoSem}]
      /\ \A q \in Proc \ {p} : key'[q] = key[q]
  BY DEF Return, CallTypes
<1> QED  BY <1>3, <1>4, <1>5 DEF CallTypes

(* The initial state satisfies the invariant. *)
LEMMA InitHolds == Init => IInv
<1> SUFFICES ASSUME Init PROVE IInv
  OBVIOUS
<1> USE SetsAssumption DEF Init
<1>1. FileTypes /\ SetTypes /\ HandleTypes  BY DEF FileTypes, SetTypes, HandleTypes
<1>2. CallTypes  BY DEF CallTypes, Steps, OpenArgs, NoArg
<1>3. ProcInv  BY DEF ProcInv, ProcOK, Opening
<1>4. SetInv  BY DEF SetInv, SetOK
<1>5. CounterExact /\ NoUnitFromNowhere  BY DEF CounterExact, NoUnitFromNowhere
<1> QED  BY <1>1, <1>2, <1>3, <1>4, <1>5 DEF IInv, TypeOK

-----------------------------------------------------------------------------
(* The steps that only move a process inside a call, and touch neither the *)
(* semaphores nor the handles.                                             *)
Quiet == UNCHANGED <<live, skey, sems, handle, holds, history>>

(* A quiet step keeps the invariant.                                       *)
LEMMA QuietStep ==
  ASSUME IInv, Quiet, FileTypes', CallTypes', NEW p \in Proc,
         \A q \in Proc \ {p} : pc'[q] = pc[q] /\ key'[q] = key[q],
         pc'[p] \in Opening => handle[p] = NoSem,
         pc'[p] = "o_semget" => key'[p] \in Key
  PROVE  IInv'
<1>0. /\ live' = live /\ skey' = skey /\ val' = val /\ flag' = flag /\ refs' = refs
      /\ undo' = undo /\ handle' = handle /\ holds' = holds
      /\ inits' = inits /\ marks' = marks /\ units' = units
  BY DEF Quiet, sems, history
<1>1. TypeOK'  BY <1>0 DEF IInv, TypeOK, SetTypes, HandleTypes
<1>2. ProcOK(p)'  BY <1>0 DEF IInv, ProcInv, ProcOK
<1>3. ASSUME NEW q \in Proc \ {p}  PROVE ProcOK(q)'
  BY <1>0, <1>3 DEF IInv, ProcInv, ProcOK
<1>4. ProcInv'  BY <1>2, <1>3 DEF ProcInv
<1>5. SetInv'  BY <1>0 DEF IInv, SetInv, SetOK
<1>6. CounterExact'  BY <1>0 DEF IInv, CounterExact, Attached
<1>7. NoUnitFromNowhere'  BY <1>0 DEF IInv, NoUnitFromNowhere, Holders
<1> QED  BY <1>1, <1>4, <1>5, <1>6, <1>7 DEF IInv

(* In particular a call that returns without having done anything more,    *)
LEMMA QuietReturn ==
  ASSUME IInv, Quiet, FileTypes', NEW p \in Proc, Return(p)
  PROVE  IInv'
<1>1. CallTypes  BY DEF IInv, TypeOK
<1>2. /\ CallTypes' /\ pc'[p] = "idle"
      /\ \A q \in Proc \ {p} : pc'[q] = pc[q] /\ key'[q] = key[q]
  BY <1>1, ReturnMoves
<1> QED  BY <1>2, QuietStep DEF Opening

(* and one that goes on to a step that needs nothing of the handle.        *)
LEMMA QuietGoto ==
  ASSUME IInv, Quiet, FileTypes', NEW p \in Proc, NEW step \in Steps, Goto(p, step),
         step \in Opening => handle[p] = NoSem, step = "o_semget" => key'[p] \in Key,
         \A q \in Proc \ {p} : key'[q] = key[q],
         arg' \in [Proc -> OpenArgs], key' \in [Proc -> Key \cup {NoKey}],
         sid' \in [Proc -> Semid \cup {NoSem}]
  PROVE  IInv'
<1>1. CallTypes  BY DEF IInv, TypeOK
<1>2. /\ pc' \in [Proc -> Steps] /\ pc'[p] = step
      /\ \A q \in Proc \ {p} : pc'[q] = pc[q]
  BY <1>1, GotoMoves
<1>3. CallTypes'  BY <1>2 DEF CallTypes
<1> QED  BY <1>2, <1>3, QuietStep

(* The quiet actions of sem_open, sem_unlink and sem_close.                *)
LEMMA QuietActions ==
  ASSUME IInv, NEW p \in Proc,
         \/ sem_open(p) \/ sem_open_ftok(p) \/ sem_unlink(p) \/ sem_unlink_semget(p)
         \/ sem_unlink_unlink(p) \/ sem_unlink_check(p) \/ sem_close_check(p) \/ Interrupted(p)
  PROVE  IInv'
<1>0. /\ FileTypes /\ CallTypes /\ ProcOK(p)
      /\ arg \in [Proc -> OpenArgs] /\ key \in [Proc -> Key \cup {NoKey}]
      /\ sid \in [Proc -> Semid \cup {NoSem}] /\ live \subseteq Semid
  BY DEF IInv, TypeOK, CallTypes, SetTypes, ProcInv
<1>s. {"o_ftok", "o_semget", "u_semget", "u_unlink", "u_mark", "u_check", "u_rmid", "c_rmid"} \subseteq Steps
  BY DEF Steps
<1>1. CASE sem_open(p)
  <2>1. FileTypes'  BY <1>0, <1>1 DEF sem_open, FileTypes
  <2>2. Quiet /\ Goto(p, "o_ftok") /\ UNCHANGED <<key, sid>> /\ handle[p] = NoSem
    BY <1>1 DEF sem_open, Quiet, sems, history
  <2>3. arg' \in [Proc -> OpenArgs]  BY <1>0, <1>1 DEF sem_open, ArgsOf
  <2> QED  BY <1>0, <1>s, <2>1, <2>2, <2>3, QuietGoto
<1>2. CASE sem_open_ftok(p)
  <2>1. FileTypes' /\ Quiet  BY <1>0, <1>2 DEF sem_open_ftok, FileTypes, Quiet, sems, history, kernel
  <2>2. CASE Return(p)  BY <2>1, <2>2, QuietReturn
  <2>3. CASE /\ file # NoKey /\ key' = [key EXCEPT ![p] = file]
             /\ Goto(p, "o_semget") /\ UNCHANGED <<arg, sid>>
    <3>1. file \in Key /\ handle[p] = NoSem
      BY <1>0, <1>2, <2>3 DEF sem_open_ftok, FileTypes, ProcOK, Opening
    <3>2. /\ key' \in [Proc -> Key \cup {NoKey}] /\ key'[p] \in Key
          /\ \A q \in Proc \ {p} : key'[q] = key[q]
      BY <1>0, <2>3, <3>1
    <3> QED  BY <1>0, <1>s, <2>1, <2>3, <3>1, <3>2, QuietGoto
  <2> QED  BY <1>2, <2>2, <2>3 DEF sem_open_ftok
<1>3. CASE sem_unlink(p)
  <2>1. FileTypes' /\ Quiet /\ Goto(p, "u_semget") /\ UNCHANGED <<arg, sid>>
    BY <1>0, <1>3 DEF sem_unlink, FileTypes, Quiet, sems, history, kernel
  <2>2. key' \in [Proc -> Key \cup {NoKey}] /\ \A q \in Proc \ {p} : key'[q] = key[q]
    BY <1>0, <1>3 DEF sem_unlink, FileTypes
  <2> QED  BY <1>0, <1>s, <2>1, <2>2, QuietGoto DEF Opening
<1>4. CASE sem_unlink_semget(p)
  <2>1. FileTypes' /\ Quiet
    BY <1>0, <1>4 DEF sem_unlink_semget, FileTypes, Quiet, sems, history, kernel
  <2>2. CASE Return(p)  BY <2>1, <2>2, QuietReturn
  <2>3. CASE ~Return(p)
    <3>1. Goto(p, "u_unlink") /\ UNCHANGED <<arg, key>> /\ sid' \in [Proc -> Semid \cup {NoSem}]
      BY <1>0, <1>4, <2>3 DEF sem_unlink_semget, WithKey
    <3> QED  BY <1>0, <1>s, <2>1, <3>1, QuietGoto DEF Opening
  <2> QED  BY <2>2, <2>3
<1>5. CASE sem_unlink_unlink(p)
  <2>1. FileTypes' /\ Quiet /\ Goto(p, "u_mark") /\ UNCHANGED <<arg, key, sid>>
    BY <1>0, <1>5 DEF sem_unlink_unlink, FileTypes, Quiet, sems, history, locals
  <2> QED  BY <1>0, <1>s, <2>1, QuietGoto DEF Opening
<1>6. CASE sem_unlink_check(p)
  <2>1. /\ FileTypes' /\ Quiet
        /\ Return(p) \/ (Goto(p, "u_rmid") /\ UNCHANGED <<arg, key, sid>>)
    BY <1>0, <1>6 DEF sem_unlink_check, FileTypes, Quiet, sems, history, kernel, locals
  <2>2. CASE Return(p)  BY <2>1, <2>2, QuietReturn
  <2>3. CASE ~Return(p)  BY <1>0, <1>s, <2>1, <2>3, QuietGoto DEF Opening
  <2> QED  BY <2>2, <2>3
<1>7. CASE sem_close_check(p)
  <2>1. /\ FileTypes' /\ Quiet
        /\ Return(p) \/ (Goto(p, "c_rmid") /\ UNCHANGED <<arg, key, sid>>)
    BY <1>0, <1>7 DEF sem_close_check, FileTypes, Quiet, sems, history, kernel, locals
  <2>2. CASE Return(p)  BY <2>1, <2>2, QuietReturn
  <2>3. CASE ~Return(p)  BY <1>0, <1>s, <2>1, <2>3, QuietGoto DEF Opening
  <2> QED  BY <2>2, <2>3
<1>8. CASE Interrupted(p)
  <2>1. /\ FileTypes' /\ Quiet
        /\ Return(p) \/ (Goto(p, "u_check") /\ UNCHANGED <<arg, key, sid>>)
    BY <1>0, <1>8 DEF Interrupted, FileTypes, Quiet, sems, history, kernel, locals
  <2>2. CASE Return(p)  BY <2>1, <2>2, QuietReturn
  <2>3. CASE ~Return(p)  BY <1>0, <1>s, <2>1, <2>3, QuietGoto DEF Opening
  <2> QED  BY <2>2, <2>3
<1> QED  BY <1>1, <1>2, <1>3, <1>4, <1>5, <1>6, <1>7, <1>8

(* Steps that concern one process, or one set, leave the others' conjuncts.*)
LEMMA OneProc ==
  ASSUME IInv, UNCHANGED <<live, skey>>, NEW p \in Proc, ProcOK(p)',
         \A q \in Proc \ {p} : /\ pc'[q] = pc[q] /\ key'[q] = key[q] /\ undo'[q] = undo[q]
                               /\ handle'[q] = handle[q] /\ holds'[q] = holds[q]
  PROVE  ProcInv'
<1>1. ASSUME NEW q \in Proc \ {p}  PROVE ProcOK(q)'
  BY <1>1 DEF IInv, ProcInv, ProcOK
<1> QED  BY <1>1 DEF ProcInv

(* A step that changes one set keeps what the invariant says of others.    *)
LEMMA OneSet ==
  ASSUME IInv, UNCHANGED <<live, skey>>, NEW s \in Semid, SetOK(s)',
         \A t \in Semid \ {s} :
           /\ val'[t] = val[t] /\ flag'[t] = flag[t] /\ refs'[t] = refs[t]
           /\ inits'[t] = inits[t] /\ marks'[t] = marks[t] /\ units'[t] = units[t]
  PROVE  SetInv'
<1>1. ASSUME NEW t \in Semid \ {s}  PROVE SetOK(t)'
  BY <1>1 DEF IInv, SetInv, SetOK
<1> QED  BY <1>1 DEF SetInv

-----------------------------------------------------------------------------
(* semget finds a set, or creates one that no handle and no undo names.    *)
LEMMA SemgetStep ==
  ASSUME IInv, NEW p \in Proc, sem_open_semget(p)
  PROVE  IInv'
<1>0. TypeOK /\ ProcInv /\ SetInv /\ CounterExact /\ NoUnitFromNowhere  BY DEF IInv
<1>1. /\ key[p] \in Key /\ handle[p] = NoSem /\ pc[p] = "o_semget"
      /\ UNCHANGED <<file, spent, val, flag, refs, undo, handle, holds, inits, marks, units>>
  BY <1>0 DEF sem_open_semget, ProcInv, ProcOK, Opening, sems, history
<1>2. FileTypes' /\ HandleTypes'  BY <1>0, <1>1 DEF TypeOK, FileTypes, HandleTypes
<1>3. CASE Return(p) /\ UNCHANGED <<live, skey>>
  BY <1>1, <1>2, <1>3, QuietReturn DEF Quiet, sems, history
<1>4. CASE Goto(p, FirstTry(p)) /\ UNCHANGED <<arg, key>> /\ ~(Return(p) /\ UNCHANGED <<live, skey>>)
  <2>0. CallTypes /\ sid \in [Proc -> Semid \cup {NoSem}]  BY <1>0 DEF TypeOK, CallTypes
  <2>1. FirstTry(p) \in Steps /\ FirstTry(p) \in Opening /\ FirstTry(p) # "o_semget"
    BY DEF FirstTry, Steps, Opening
  <2>2. live \subseteq Semid  BY <1>0 DEF TypeOK, SetTypes
  <2>3. sid' \in [Proc -> Semid \cup {NoSem}]
    BY <1>4, <2>0, <2>2 DEF sem_open_semget, WithKey
  <2>4. /\ pc' \in [Proc -> Steps] /\ pc'[p] = FirstTry(p)
        /\ \A q \in Proc \ {p} : pc'[q] = pc[q]
    BY <1>4, <2>0, <2>1, GotoMoves
  <2>5. CASE UNCHANGED <<live, skey>>
    <3>1. Quiet  BY <1>1, <2>5 DEF Quiet, sems, history
    <3> QED  BY <1>1, <1>2, <1>4, <2>0, <2>1, <2>3, <3>1, QuietGoto DEF CallTypes
  <2>6. CASE ~UNCHANGED <<live, skey>>
    <3>1. PICK s \in Semid : /\ skey[s] = NoKey /\ live' = live \cup {s}
                             /\ skey' = [skey EXCEPT ![s] = key[p]]
      BY <1>4, <2>6 DEF sem_open_semget
    <3>2. CallTypes'  BY <1>4, <2>0, <2>3, <2>4 DEF CallTypes
    <3>3. SetTypes'  BY <1>0, <1>1, <3>1 DEF TypeOK, SetTypes
    <3>4. /\ skey \in [Semid -> Key \cup {NoKey}] /\ skey'[s] \in Key
          /\ \A t \in Semid \ {s} : skey'[t] = skey[t]
      BY <1>0, <1>1, <3>1 DEF TypeOK, SetTypes
    <3>5. s \notin live  BY <1>0, <3>1 DEF SetInv, SetOK
    <3>6. ASSUME NEW q \in Proc  PROVE ProcOK(q)' /\ undo[q] # s /\ handle[q] # s
      <4>1. ProcOK(q) /\ handle[q] \in Semid \cup {NoSem}
        BY <1>0 DEF ProcInv, TypeOK, HandleTypes
      <4>2. handle[q] # s /\ undo[q] # s
        BY <3>1, <3>5, <4>1, SetsAssumption DEF ProcOK
      <4>3. handle[q] # NoSem => skey'[handle[q]] = skey[handle[q]]
        BY <3>4, <4>1, <4>2
      <4>4. pc'[q] = pc[q] \/ (pc'[q] \in Opening /\ pc'[q] # "o_semget" /\ q = p)
        BY <2>1, <2>4
      <4> QED  BY <1>1, <1>4, <3>1, <4>1, <4>2, <4>3, <4>4 DEF ProcOK
    <3>7. ASSUME NEW t \in Semid  PROVE SetOK(t)'
      <4>1. SetOK(t)  BY <1>0 DEF SetInv
      <4>2. CASE t = s  BY <1>1, <3>1, <3>4, <4>1, <4>2, SetsAssumption DEF SetOK
      <4>3. CASE t # s  BY <1>1, <3>1, <3>4, <4>1, <4>3 DEF SetOK
      <4> QED  BY <4>2, <4>3
    <3>8. Cardinality({}) = 0  BY FS_EmptySet
    <3>9. refs[s] = 0 /\ val[s] = 0 /\ units[s] = 0
      BY <1>0, <3>5 DEF SetInv, SetOK
    <3>10. CounterExact'
      <4>1. \A t \in Semid : Attached(t)' = Attached(t)  BY <1>1 DEF Attached
      <4>2. Attached(s) = {}  BY <3>6 DEF Attached
      <4>3. \A t \in live : refs'[t] = Cardinality(Attached(t)')
        BY <1>0, <1>1, <2>2, <4>1 DEF CounterExact
      <4>4. refs'[s] = Cardinality(Attached(s)')
        BY <1>1, <3>8, <3>9, <4>1, <4>2
      <4> QED  BY <3>1, <4>3, <4>4 DEF CounterExact
    <3>11. NoUnitFromNowhere'
      <4>1. \A t \in Semid : Holders(t)' = Holders(t)  BY <1>1 DEF Holders
      <4>2. Holders(s) = {}  BY <3>6 DEF Holders
      <4>3. \A t \in live : val'[t] + Cardinality(Holders(t)') <= units'[t]
        BY <1>0, <1>1, <2>2, <4>1 DEF NoUnitFromNowhere
      <4>4. Cardinality(Holders(s)') = 0 /\ val'[s] = 0 /\ units'[s] = 0
        BY <1>1, <3>8, <3>9, <4>1, <4>2
      <4>5. val'[s] + Cardinality(Holders(s)') <= units'[s]  BY <4>4
      <4> QED  BY <3>1, <4>3, <4>5 DEF NoUnitFromNowhere
    <3>12. ProcInv' /\ SetInv'  BY <3>6, <3>7 DEF ProcInv, SetInv
    <3> QED  BY <1>2, <3>2, <3>3, <3>10, <3>11, <3>12 DEF IInv, TypeOK
  <2> QED  BY <2>5, <2>6
<1> QED  BY <1>3, <1>4 DEF sem_open_semget

(* What an attach does, whichever array of operations it ends: the process *)
(* is counted in and holds nothing.                                        *)
LEMMA AttachFacts ==
  ASSUME IInv, NEW p \in Proc, NEW s \in live, handle[p] = NoSem, Attach(p, s),
         UNCHANGED <<file, spent, live, skey, holds>>
  PROVE  /\ FileTypes' /\ CallTypes' /\ HandleTypes' /\ ProcInv' /\ CounterExact'
         /\ refs' \in [Semid -> 0 .. SEMVMX] /\ \A t \in Semid \ {s} : refs'[t] = refs[t]
         /\ \A t \in Semid : Holders(t)' = Holders(t)
<1>0. /\ TypeOK /\ ProcOK(p) /\ SetOK(s) /\ CounterExact /\ s \in Semid /\ s # NoSem
      /\ undo \in [Proc -> Semid \cup {NoSem}] /\ handle \in [Proc -> Semid \cup {NoSem}]
      /\ holds \in [Proc -> BOOLEAN] /\ refs \in [Semid -> 0 .. SEMVMX] /\ CallTypes /\ FileTypes
  BY SetsAssumption DEF IInv, TypeOK, ProcInv, SetInv, SetTypes, HandleTypes
<1>1. /\ refs' = [refs EXCEPT ![s] = @ + 1] /\ undo' = [undo EXCEPT ![p] = s]
      /\ handle' = [handle EXCEPT ![p] = s] /\ Return(p) /\ refs[s] # SEMVMX
  BY DEF Attach, CounterFull
<1>2. /\ CallTypes' /\ pc'[p] = "idle"
      /\ \A q \in Proc \ {p} : pc'[q] = pc[q] /\ key'[q] = key[q]
  BY <1>0, <1>1, ReturnMoves
<1>3. FileTypes'  BY <1>0 DEF FileTypes
<1>4. HandleTypes'  BY <1>0, <1>1 DEF HandleTypes
<1>5. /\ refs' \in [Semid -> 0 .. SEMVMX] /\ refs'[s] = refs[s] + 1
      /\ \A t \in Semid \ {s} : refs'[t] = refs[t]
  <2>1. refs[s] + 1 \in 0 .. SEMVMX  BY <1>0, <1>1, SetsAssumption
  <2> QED  BY <1>0, <1>1, <2>1
<1>6. /\ undo'[p] = s /\ handle'[p] = s
      /\ \A q \in Proc \ {p} : undo'[q] = undo[q] /\ handle'[q] = handle[q]
  BY <1>0, <1>1
<1>7. undo[p] = NoSem /\ ~holds[p]  BY <1>0 DEF ProcOK
<1>8. ProcInv'
  <2>1. ProcOK(p)'  BY <1>0, <1>2, <1>6 DEF ProcOK, SetOK, Opening
  <2> QED  BY <1>2, <1>6, <2>1, OneProc
<1>9. CounterExact'
  <2>1. Attached(s)' = Attached(s) \cup {p} /\ p \notin Attached(s) /\ Attached(s) \in SUBSET Proc
    BY <1>0, <1>6, <1>7 DEF Attached
  <2>2. Cardinality(Attached(s)') = Cardinality(Attached(s)) + 1  BY <2>1, AddOne
  <2>3. refs'[s] = Cardinality(Attached(s)')  BY <1>0, <1>5, <2>2 DEF CounterExact
  <2>4. ASSUME NEW t \in live, t # s  PROVE refs'[t] = Cardinality(Attached(t)')
    <3>1. t \in Semid /\ t # NoSem  BY SetsAssumption DEF IInv, TypeOK, SetTypes
    <3>2. Attached(t)' = Attached(t)  BY <1>6, <1>7, <2>4, <3>1 DEF Attached
    <3> QED  BY <1>0, <1>5, <2>4, <3>1, <3>2 DEF CounterExact
  <2> QED  BY <2>3, <2>4 DEF CounterExact
<1>10. \A t \in Semid : Holders(t)' = Holders(t)  BY <1>6, <1>7 DEF Holders
<1> QED  BY <1>2, <1>3, <1>4, <1>5, <1>8, <1>9, <1>10

(* sem_open initialises a set or goes on to attach (lines 140-155).        *)
LEMMA InitStep ==
  ASSUME IInv, NEW p \in Proc, sem_open_init(p)
  PROVE  IInv'
<1>0. /\ TypeOK /\ SetTypes /\ CallTypes /\ FileTypes /\ ProcOK(p) /\ SetInv /\ NoUnitFromNowhere
      /\ live \subseteq Semid
  BY DEF IInv, TypeOK, ProcInv, SetTypes
<1>1. pc[p] = "o_init" /\ handle[p] = NoSem /\ UNCHANGED <<file, spent, live, skey, holds>>
  BY <1>0 DEF sem_open_init, ProcOK, Opening, kernel
<1>2. CASE UNCHANGED <<sems, handle, history>> /\ (Return(p) \/ (Goto(p, "o_attach") /\ UNCHANGED locals))
  <2>1. Quiet /\ FileTypes'  BY <1>0, <1>1, <1>2 DEF Quiet, FileTypes
  <2>2. CASE Return(p)  BY <2>1, <2>2, QuietReturn
  <2>3. CASE Goto(p, "o_attach") /\ UNCHANGED <<arg, key, sid>>
    <3>1. "o_attach" \in Steps  BY DEF Steps
    <3> QED  BY <1>0, <1>1, <2>1, <2>3, <3>1, QuietGoto DEF CallTypes
  <2> QED  BY <1>2, <2>2, <2>3 DEF locals
<1>3. ASSUME NEW s \in live, NEW v, s = sid[p], v = Short(arg[p].init),
             flag[s] = 0, Passes(val[s], v), val[s] + v <= SEMVMX,
             flag' = [flag EXCEPT ![s] = @ + 1], val' = [val EXCEPT ![s] = @ + v], Attach(p, s),
             inits' = [inits EXCEPT ![s] = @ + 1], units' = [units EXCEPT ![s] = @ + v],
             UNCHANGED marks
      PROVE  IInv'
  <2>a. arg[p].init \in InitValues \cup {0}  BY <1>0 DEF CallTypes, OpenArgs
  <2>b. arg[p].init \in Int
    <3>1. CASE arg[p].init = 0  BY <3>1
    <3>2. CASE arg[p].init \in InitValues  BY <3>2, SetsAssumption, Zenon
    <3> QED  BY <2>a, <3>1, <3>2
  <2>1. v \in Int /\ SEMVMX \in Nat  BY <1>3, <2>b, ShortType, SetsAssumption
  <2>2. (InitValues = {1} /\ Signallers = {}) => v <= 1  BY <1>3, <2>a, ShortOfBit
  <2>3. /\ s \in Semid /\ val \in [Semid -> 0 .. SEMVMX] /\ flag \in [Semid -> 0 .. 1]
        /\ inits \in [Semid -> Nat] /\ marks \in [Semid -> Nat] /\ units \in [Semid -> Int]
    BY <1>0 DEF SetTypes
  <2>4. val[s] \in Int /\ val[s] + v \in 0 .. SEMVMX
    BY <1>3, <2>1, <2>3 DEF Passes
  <2>5. /\ val' \in [Semid -> 0 .. SEMVMX] /\ val'[s] = val[s] + v
        /\ \A t \in Semid \ {s} : val'[t] = val[t]
    BY <1>3, <2>3, <2>4
  <2>c. flag' = [flag EXCEPT ![s] = @ + 1] /\ flag[s] = 0  BY <1>3
  <2>d. inits' = [inits EXCEPT ![s] = @ + 1]  BY <1>3
  <2>e. units' = [units EXCEPT ![s] = @ + v]  BY <1>3
  <2>6. /\ flag' \in [Semid -> 0 .. 1] /\ flag'[s] = 1
        /\ \A t \in Semid \ {s} : flag'[t] = flag[t]
    BY <2>3, <2>c
  <2>7. /\ inits' \in [Semid -> Nat] /\ inits'[s] = inits[s] + 1
        /\ \A t \in Semid \ {s} : inits'[t] = inits[t]
    BY <2>3, <2>d
  <2>8. /\ units' \in [Semid -> Int] /\ units'[s] = units[s] + v
        /\ \A t \in Semid \ {s} : units'[t] = units[t]
    BY <2>1, <2>3, <2>e
  <2>9. /\ FileTypes' /\ CallTypes' /\ HandleTypes' /\ ProcInv' /\ CounterExact'
        /\ refs' \in [Semid -> 0 .. SEMVMX] /\ \A t \in Semid \ {s} : refs'[t] = refs[t]
        /\ \A t \in Semid : Holders(t)' = Holders(t)
    BY <1>1, <1>3, AttachFacts
  <2>10. SetTypes'  BY <1>0, <1>1, <1>3, <2>5, <2>6, <2>7, <2>8, <2>9 DEF SetTypes
  <2>11. SetOK(s)'
    <3>1. SetOK(s) /\ inits[s] \in Nat /\ marks[s] \in Nat /\ units[s] \in Int  BY <1>0, <2>3 DEF SetInv
    <3>a. /\ inits[s] = flag[s] + marks[s] /\ skey[s] # NoKey
          /\ (InitValues = {1} /\ Signallers = {}) => units[s] <= inits[s]
      BY <3>1 DEF SetOK
    <3>b. /\ flag[s] = 0 /\ flag'[s] = 1 /\ marks'[s] = marks[s]
          /\ inits'[s] = inits[s] + 1 /\ units'[s] = units[s] + v
      BY <1>3, <2>6, <2>7, <2>8
    <3>c. PICK i \in Nat, k \in Nat, u \in Int : i = inits[s] /\ k = marks[s] /\ u = units[s]
      BY <3>1
    <3>2. (InitValues = {1} /\ Signallers = {}) => units'[s] <= inits'[s]
      <4>1. (InitValues = {1} /\ Signallers = {}) => u + v <= i + 1
        <5>1. (InitValues = {1} /\ Signallers = {}) => u <= i /\ v <= 1  BY <2>2, <3>a, <3>c
        <5>2. (u <= i /\ v <= 1) => u + v <= i + 1  BY <2>1, <3>c
        <5> QED  BY <5>1, <5>2
      <4> QED  BY <3>b, <3>c, <4>1
    <3>3. inits'[s] = flag'[s] + marks'[s]
      <4>1. i = 0 + k  BY <3>a, <3>b, <3>c
      <4>2. i + 1 = 1 + k  BY <4>1
      <4> QED  BY <3>b, <3>c, <4>2
    <3> QED  BY <1>1, <1>3, <3>a, <3>2, <3>3 DEF SetOK
  <2>12. SetInv'
    <3>1. UNCHANGED <<live, skey, marks>>  BY <1>1, <1>3
    <3>2. \A t \in Semid \ {s} :
            /\ val'[t] = val[t] /\ flag'[t] = flag[t] /\ refs'[t] = refs[t]
            /\ inits'[t] = inits[t] /\ marks'[t] = marks[t] /\ units'[t] = units[t]
      BY <2>5, <2>6, <2>7, <2>8, <2>9, <3>1
    <3> QED  BY <2>3, <2>11, <3>1, <3>2, OneSet
  <2>13. NoUnitFromNowhere'
    <3>1. ASSUME NEW t \in live  PROVE val'[t] + Cardinality(Holders(t)') <= units'[t]
      <4>a. t \in Semid /\ Holders(t)' = Holders(t) /\ val[t] \in Int /\ units[t] \in Int
        BY <1>0, <2>3, <2>9
      <4>b. Cardinality(Holders(t)) \in Nat  BY CountType DEF Holders
      <4>1. val[t] + Cardinality(Holders(t)) <= units[t]
        BY <1>0 DEF NoUnitFromNowhere
      <4>2. CASE t = s
        <5>1. val'[t] = val[t] + v /\ units'[t] = units[t] + v  BY <2>5, <2>8, <4>2
        <5>2. (val[t] + v) + Cardinality(Holders(t)) <= units[t] + v  BY <2>1, <4>a, <4>b, <4>1
        <5> QED  BY <4>a, <5>1, <5>2
      <4>3. CASE t # s  BY <2>5, <2>8, <4>a, <4>1, <4>3
      <4> QED  BY <4>2, <4>3
    <3> QED  BY <1>1, <3>1 DEF NoUnitFromNowhere
  <2> QED  BY <2>9, <2>10, <2>12, <2>13 DEF IInv, TypeOK
<1> QED  BY <1>1, <1>2, <1>3 DEF sem_open_init, Uninitialised, OtherArray

(* sem_open attaches to an initialised set (lines 155-171).                *)
LEMMA AttachStep ==
  ASSUME IInv, NEW p \in Proc, sem_open_attach(p)
  PROVE  IInv'
<1>0. /\ SetTypes /\ CallTypes /\ FileTypes /\ ProcOK(p) /\ SetInv /\ NoUnitFromNowhere
      /\ live \subseteq Semid
  BY DEF IInv, TypeOK, ProcInv, SetTypes
<1>1. /\ pc[p] = "o_attach" /\ handle[p] = NoSem
      /\ UNCHANGED <<file, spent, live, skey, val, flag, holds, inits, marks, units>>
  BY <1>0 DEF sem_open_attach, ProcOK, Opening, kernel, history
<1>2. CASE UNCHANGED <<refs, undo, handle>> /\ (Return(p) \/ (Goto(p, "o_init") /\ UNCHANGED locals))
  <2>1. Quiet /\ FileTypes'  BY <1>0, <1>1, <1>2 DEF Quiet, FileTypes, sems, history
  <2>2. CASE Return(p)  BY <2>1, <2>2, QuietReturn
  <2>3. CASE Goto(p, "o_init") /\ UNCHANGED <<arg, key, sid>>
    <3>1. "o_init" \in Steps  BY DEF Steps
    <3> QED  BY <1>0, <1>1, <2>1, <2>3, <3>1, QuietGoto DEF CallTypes
  <2> QED  BY <1>2, <2>2, <2>3 DEF locals
<1>3. ASSUME NEW s \in live, Attach(p, s)  PROVE IInv'
  <2>1. /\ FileTypes' /\ CallTypes' /\ HandleTypes' /\ ProcInv' /\ CounterExact'
        /\ refs' \in [Semid -> 0 .. SEMVMX] /\ \A t \in Semid \ {s} : refs'[t] = refs[t]
        /\ \A t \in Semid : Holders(t)' = Holders(t)
    BY <1>1, <1>3, AttachFacts
  <2>2. SetTypes'  BY <1>0, <1>1, <2>1 DEF SetTypes
  <2>3. s \in Semid /\ SetOK(s)'  BY <1>0, <1>1 DEF SetInv, SetOK
  <2>4. SetInv'  BY <1>1, <2>1, <2>3, OneSet
  <2>5. NoUnitFromNowhere'  BY <1>0, <1>1, <2>1 DEF NoUnitFromNowhere
  <2> QED  BY <2>1, <2>2, <2>4, <2>5 DEF IInv, TypeOK
<1> QED  BY <1>1, <1>2, <1>3 DEF sem_open_attach, OtherArray
-----------------------------------------------------------------------------
(* Putting a unit back, or in; taking one out.                             *)
LEMMA PostStep ==
  ASSUME IInv, NEW p \in Proc, sem_post(p)
  PROVE  IInv'
<1>0. /\ TypeOK /\ SetTypes /\ HandleTypes /\ ProcInv /\ SetInv /\ CounterExact /\ NoUnitFromNowhere
      /\ live \subseteq Semid
  BY DEF IInv, TypeOK, SetTypes
<1>1. PICK s \in live : s = handle[p]  BY DEF sem_post, Usable
<1>2. /\ val[s] < SEMVMX /\ val' = [val EXCEPT ![s] = @ + 1] /\ holds' = [holds EXCEPT ![p] = FALSE]
      /\ UNCHANGED <<file, spent, live, skey, flag, refs, undo, arg, key, sid, pc, handle, inits, marks>>
  BY <1>1 DEF sem_post, kernel, locals
<1>3. units' = (IF holds[p] THEN units ELSE [units EXCEPT ![s] = @ + 1]) /\ (holds[p] \/ p \in Signallers)
  BY <1>1 DEF sem_post
<1>4. s \in Semid /\ SEMVMX \in Nat /\ val \in [Semid -> 0 .. SEMVMX] /\ units \in [Semid -> Int]
  BY <1>0, SetsAssumption DEF SetTypes
<1>5. /\ val' \in [Semid -> 0 .. SEMVMX] /\ val'[s] = val[s] + 1
      /\ \A t \in Semid \ {s} : val'[t] = val[t]
  BY <1>2, <1>4
<1>6. /\ units' \in [Semid -> Int] /\ units'[s] = (IF holds[p] THEN units[s] ELSE units[s] + 1)
      /\ \A t \in Semid \ {s} : units'[t] = units[t]
  BY <1>3, <1>4
<1>7. SetTypes'  BY <1>0, <1>2, <1>5, <1>6 DEF SetTypes
<1>8. HandleTypes' /\ ~holds'[p] /\ \A q \in Proc \ {p} : holds'[q] = holds[q]
  BY <1>0, <1>2 DEF HandleTypes
<1>9. FileTypes' /\ CallTypes'  BY <1>0, <1>2 DEF TypeOK, FileTypes, CallTypes
<1>10. ProcOK(p)'  BY <1>0, <1>2, <1>8 DEF ProcInv, ProcOK
<1>11. ProcInv'  BY <1>2, <1>8, <1>10, OneProc
<1>12. SetOK(s)'
  <2>1. SetOK(s)  BY <1>0, <1>4 DEF SetInv
  <2>2. (InitValues = {1} /\ Signallers = {}) => units'[s] = units[s]
    BY <1>3, <1>6
  <2> QED  BY <1>2, <2>1, <2>2 DEF SetOK
<1>13. SetInv'  BY <1>2, <1>4, <1>5, <1>6, <1>12, OneSet
<1>14. CounterExact'  BY <1>0, <1>2 DEF CounterExact, Attached
<1>15. NoUnitFromNowhere'
  <2>1. ASSUME NEW t \in live, t # s  PROVE val'[t] + Cardinality(Holders(t)') <= units'[t]
    <3>1. Holders(t)' = Holders(t)  BY <1>1, <1>2, <1>8, <2>1 DEF Holders
    <3> QED  BY <1>0, <1>5, <1>6, <2>1, <3>1 DEF NoUnitFromNowhere
  <2>2. val'[s] + Cardinality(Holders(s)') <= units'[s]
    <3>1. Holders(s) \in SUBSET Proc /\ Cardinality(Holders(s)) \in Nat
      BY CountType DEF Holders
    <3>2. val[s] + Cardinality(Holders(s)) <= units[s] /\ val[s] \in Int /\ units[s] \in Int
      BY <1>0, <1>4 DEF NoUnitFromNowhere
    <3>3. CASE holds[p]
      <4>1. p \in Holders(s) /\ Holders(s)' = Holders(s) \ {p}
        BY <1>1, <1>2, <1>8, <3>3 DEF Holders
      <4>2. Cardinality(Holders(s)') = Cardinality(Holders(s)) - 1
        BY <3>1, <4>1, RemoveOne
      <4> QED  BY <1>5, <1>6, <3>1, <3>2, <3>3, <4>2
    <3>4. CASE ~holds[p]
      <4>1. Holders(s)' = Holders(s)  BY <1>2, <1>8, <3>4 DEF Holders
      <4>2. val'[s] = val[s] + 1 /\ units'[s] = units[s] + 1  BY <1>5, <1>6, <3>4
      <4>3. (val[s] + 1) + Cardinality(Holders(s)) <= units[s] + 1  BY <3>1, <3>2
      <4> QED  BY <4>1, <4>2, <4>3
    <3> QED  BY <3>3, <3>4
  <2> QED  BY <1>2, <2>1, <2>2 DEF NoUnitFromNowhere
<1> QED  BY <1>7, <1>8, <1>9, <1>11, <1>13, <1>14, <1>15 DEF IInv, TypeOK

(* sem_wait and sem_trywait take a unit.                                   *)
LEMMA TakeStep ==
  ASSUME IInv, NEW p \in Proc, TakeUnit(p)
  PROVE  IInv'
<1>0. /\ TypeOK /\ SetTypes /\ HandleTypes /\ ProcInv /\ SetInv /\ CounterExact /\ NoUnitFromNowhere
      /\ live \subseteq Semid
  BY DEF IInv, TypeOK, SetTypes
<1>1. PICK s \in live : s = handle[p]  BY DEF TakeUnit, Usable
<1>2. /\ val[s] > 0 /\ ~holds[p]
      /\ val' = [val EXCEPT ![s] = @ - 1] /\ holds' = [holds EXCEPT ![p] = TRUE]
      /\ UNCHANGED <<file, spent, live, skey, flag, refs, undo, arg, key, sid, pc, handle, inits, marks, units>>
  BY <1>1 DEF TakeUnit, kernel, locals, history
<1>3. /\ s \in Semid /\ s # NoSem /\ SEMVMX \in Nat /\ val \in [Semid -> 0 .. SEMVMX]
      /\ units \in [Semid -> Int]
  BY <1>0, SetsAssumption DEF SetTypes
<1>4. /\ val' \in [Semid -> 0 .. SEMVMX] /\ val'[s] = val[s] - 1
      /\ \A t \in Semid \ {s} : val'[t] = val[t]
  BY <1>2, <1>3
<1>5. SetTypes'  BY <1>0, <1>2, <1>4 DEF SetTypes
<1>6. HandleTypes' /\ holds'[p] /\ \A q \in Proc \ {p} : holds'[q] = holds[q]
  BY <1>0, <1>2 DEF HandleTypes
<1>7. FileTypes' /\ CallTypes'  BY <1>0, <1>2 DEF TypeOK, FileTypes, CallTypes
<1>8. ProcOK(p)'  BY <1>0, <1>1, <1>2, <1>3 DEF ProcInv, ProcOK
<1>9. ProcInv'  BY <1>2, <1>6, <1>8, OneProc
<1>10. SetOK(s)'  BY <1>0, <1>2, <1>3 DEF SetInv, SetOK
<1>11. SetInv'  BY <1>2, <1>3, <1>4, <1>10, OneSet
<1>12. CounterExact'  BY <1>0, <1>2 DEF CounterExact, Attached
<1>13. NoUnitFromNowhere'
  <2>1. ASSUME NEW t \in live, t # s  PROVE val'[t] + Cardinality(Holders(t)') <= units'[t]
    <3>1. Holders(t)' = Holders(t)  BY <1>1, <1>2, <1>6, <2>1 DEF Holders
    <3> QED  BY <1>0, <1>2, <1>4, <2>1, <3>1 DEF NoUnitFromNowhere
  <2>2. val'[s] + Cardinality(Holders(s)') <= units'[s]
    <3>1. Holders(s) \in SUBSET Proc /\ p \notin Holders(s) /\ Holders(s)' = Holders(s) \cup {p}
      BY <1>1, <1>2, <1>6 DEF Holders
    <3>2. Cardinality(Holders(s)) \in Nat /\ Cardinality(Holders(s)') = Cardinality(Holders(s)) + 1
      BY <3>1, AddOne
    <3>3. val[s] + Cardinality(Holders(s)) <= units[s] /\ val[s] \in Int /\ units[s] \in Int
      BY <1>0, <1>3 DEF NoUnitFromNowhere
    <3>4. (val[s] - 1) + (Cardinality(Holders(s)) + 1) <= units[s]  BY <3>2, <3>3
    <3> QED  BY <1>2, <1>4, <3>2, <3>4
  <2> QED  BY <1>2, <2>1, <2>2 DEF NoUnitFromNowhere
<1> QED  BY <1>5, <1>6, <1>7, <1>9, <1>11, <1>12, <1>13 DEF IInv, TypeOK
-----------------------------------------------------------------------------
(* sem_unlink lowers the flag; IPC_RMID blanks the set.                    *)
LEMMA MarkStep ==
  ASSUME IInv, NEW p \in Proc, sem_unlink_mark(p)
  PROVE  IInv'
<1>0. /\ TypeOK /\ SetTypes /\ CallTypes /\ ProcOK(p) /\ SetInv /\ CounterExact /\ NoUnitFromNowhere
      /\ live \subseteq Semid /\ flag \in [Semid -> 0 .. 1] /\ marks \in [Semid -> Nat]
  BY DEF IInv, TypeOK, SetTypes, ProcInv
<1>1. /\ UNCHANGED <<file, spent, live, skey, val, refs, undo, arg, key, sid, handle, holds, inits, units>>
      /\ Goto(p, "u_check")
  BY DEF sem_unlink_mark, kernel, locals
<1>2. FileTypes' /\ HandleTypes'  BY <1>0, <1>1 DEF TypeOK, FileTypes, HandleTypes
<1>3. "u_check" \in Steps /\ "u_check" \notin Opening  BY DEF Steps, Opening
<1>4. /\ pc' \in [Proc -> Steps] /\ pc'[p] = "u_check"
      /\ \A q \in Proc \ {p} : pc'[q] = pc[q]
  BY <1>0, <1>1, <1>3, GotoMoves
<1>5. CASE UNCHANGED <<flag, marks>>
  <2>1. Quiet  BY <1>1, <1>5 DEF Quiet, sems, history
  <2> QED  BY <1>0, <1>1, <1>2, <1>3, <2>1, QuietGoto DEF CallTypes, Opening
<1>6. CASE ~UNCHANGED <<flag, marks>>
  <2>1. PICK s \in live : /\ flag[s] > 0 /\ flag' = [flag EXCEPT ![s] = @ - 1]
                          /\ marks' = [marks EXCEPT ![s] = @ + 1]
    BY <1>6 DEF sem_unlink_mark
  <2>2. s \in Semid /\ flag[s] = 1  BY <1>0, <2>1
  <2>3. /\ flag' \in [Semid -> 0 .. 1] /\ flag'[s] = 0
        /\ \A t \in Semid \ {s} : flag'[t] = flag[t]
    BY <1>0, <2>1, <2>2
  <2>4. /\ marks' \in [Semid -> Nat] /\ marks'[s] = marks[s] + 1
        /\ \A t \in Semid \ {s} : marks'[t] = marks[t]
    BY <1>0, <2>1, <2>2
  <2>5. SetTypes' /\ CallTypes'  BY <1>0, <1>1, <1>4, <2>3, <2>4 DEF SetTypes, CallTypes
  <2>6. ProcOK(p)'  BY <1>0, <1>1, <1>3, <1>4 DEF ProcOK
  <2>7. ProcInv'  BY <1>1, <1>4, <2>6, OneProc
  <2>8. inits'[s] = flag'[s] + marks'[s]
    <3>1. inits[s] = flag[s] + marks[s]  BY <1>0, <2>2 DEF SetInv, SetOK
    <3>2. marks[s] \in Nat /\ inits'[s] = inits[s]  BY <1>0, <1>1, <2>2
    <3>3. inits'[s] = 1 + marks[s]  BY <2>2, <3>1, <3>2
    <3>4. 1 + marks[s] = 0 + (marks[s] + 1)  BY <3>2
    <3> QED  BY <2>3, <2>4, <3>3, <3>4
  <2>9. SetOK(s)'  BY <1>0, <1>1, <2>1, <2>2, <2>8 DEF SetInv, SetOK
  <2>10. SetInv'  BY <1>1, <2>2, <2>3, <2>4, <2>9, OneSet
  <2>11. CounterExact'  BY <1>0, <1>1 DEF CounterExact, Attached
  <2>12. NoUnitFromNowhere'  BY <1>0, <1>1 DEF NoUnitFromNowhere, Holders
  <2> QED  BY <1>2, <2>5, <2>7, <2>10, <2>11, <2>12 DEF IInv, TypeOK
<1> QED  BY <1>5, <1>6

(* Blanking a set that is removed changes no other set.                    *)
LEMMA BlankAt ==
  ASSUME NEW T, 0 \in T, NEW f \in [Semid -> T], NEW s
  PROVE  /\ [f EXCEPT ![s] = 0] \in [Semid -> T]
         /\ \A t \in Semid : [f EXCEPT ![s] = 0][t] = IF t = s THEN 0 ELSE f[t]
  OBVIOUS

(* IPC_RMID, from sem_unlink or sem_close, keeps the invariant.            *)
LEMMA RmidStep ==
  ASSUME IInv, NEW p \in Proc, sem_unlink_rmid(p) \/ sem_close_rmid(p)
  PROVE  IInv'
<1>0. /\ TypeOK /\ SetTypes /\ CallTypes /\ HandleTypes /\ ProcInv /\ SetInv /\ CounterExact
      /\ NoUnitFromNowhere /\ live \subseteq Semid /\ undo \in [Proc -> Semid \cup {NoSem}]
  BY DEF IInv, TypeOK, SetTypes, HandleTypes
<1>1. PICK s : Rmid(s) /\ Return(p) /\ UNCHANGED <<file, spent, skey, handle, holds>>
  BY DEF sem_unlink_rmid, sem_close_rmid
<1>2. /\ CallTypes' /\ pc'[p] = "idle"
      /\ \A q \in Proc \ {p} : pc'[q] = pc[q] /\ key'[q] = key[q]
  BY <1>0, <1>1, ReturnMoves
<1>3. /\ live' = live \ {s}
      /\ undo' = [q \in Proc |-> IF undo[q] = s THEN NoSem ELSE undo[q]]
      /\ val' = [val EXCEPT ![s] = 0] /\ flag' = [flag EXCEPT ![s] = 0]
      /\ refs' = [refs EXCEPT ![s] = 0] /\ inits' = [inits EXCEPT ![s] = 0]
      /\ marks' = [marks EXCEPT ![s] = 0] /\ units' = [units EXCEPT ![s] = 0]
  BY <1>1 DEF Rmid
<1>4. /\ 0 \in 0 .. SEMVMX /\ val \in [Semid -> 0 .. SEMVMX] /\ flag \in [Semid -> 0 .. 1]
      /\ refs \in [Semid -> 0 .. SEMVMX] /\ inits \in [Semid -> Nat] /\ marks \in [Semid -> Nat]
      /\ units \in [Semid -> Int] /\ 0 \in 0 .. 1 /\ 0 \in Nat /\ 0 \in Int
  BY <1>0, SetsAssumption DEF SetTypes
<1>5. val' \in [Semid -> 0 .. SEMVMX] /\ \A t \in Semid : val'[t] = IF t = s THEN 0 ELSE val[t]
  BY <1>3, <1>4, BlankAt
<1>6. flag' \in [Semid -> 0 .. 1] /\ \A t \in Semid : flag'[t] = IF t = s THEN 0 ELSE flag[t]
  BY <1>3, <1>4, BlankAt
<1>7. refs' \in [Semid -> 0 .. SEMVMX] /\ \A t \in Semid : refs'[t] = IF t = s THEN 0 ELSE refs[t]
  BY <1>3, <1>4, BlankAt
<1>8. inits' \in [Semid -> Nat] /\ \A t \in Semid : inits'[t] = IF t = s THEN 0 ELSE inits[t]
  BY <1>3, <1>4, BlankAt
<1>9. marks' \in [Semid -> Nat] /\ \A t \in Semid : marks'[t] = IF t = s THEN 0 ELSE marks[t]
  BY <1>3, <1>4, BlankAt
<1>10. units' \in [Semid -> Int] /\ \A t \in Semid : units'[t] = IF t = s THEN 0 ELSE units[t]
  BY <1>3, <1>4, BlankAt
<1>11. SetTypes'
  BY <1>0, <1>1, <1>3, <1>5, <1>6, <1>7, <1>8, <1>9, <1>10 DEF SetTypes
<1>12. FileTypes'  BY <1>0, <1>1 DEF TypeOK, FileTypes
<1>13. HandleTypes'  BY <1>0, <1>1, <1>3 DEF HandleTypes
<1>14. ASSUME NEW q \in Proc  PROVE ProcOK(q)'
  <2>1. ProcOK(q) /\ undo'[q] = (IF undo[q] = s THEN NoSem ELSE undo[q])
    BY <1>0, <1>3 DEF ProcInv
  <2>2. pc'[q] \in Opening => pc'[q] = pc[q] /\ key'[q] = key[q]
    BY <1>2 DEF Opening
  <2>3. /\ undo'[q] # NoSem => undo'[q] \in live' /\ handle'[q] = undo'[q]
        /\ handle'[q] \in live' => undo'[q] = handle'[q]
    BY <1>1, <1>3, <2>1 DEF ProcOK
  <2>4. /\ handle'[q] # NoSem => skey'[handle'[q]] # NoKey
        /\ handle'[q] = NoSem => ~holds'[q]
        /\ pc'[q] \in Opening => handle'[q] = NoSem
        /\ pc'[q] = "o_semget" => key'[q] \in Key
    BY <1>1, <2>1, <2>2 DEF ProcOK, Opening
  <2> QED  BY <2>3, <2>4 DEF ProcOK
<1>15. ASSUME NEW t \in Semid  PROVE SetOK(t)'
  <2>1. CASE t = s
    <3>1. val'[t] = 0 /\ flag'[t] = 0 /\ refs'[t] = 0  BY <1>5, <1>6, <1>7, <2>1
    <3>2. inits'[t] = 0 /\ marks'[t] = 0 /\ units'[t] = 0  BY <1>8, <1>9, <1>10, <2>1
    <3>3. t \notin live'  BY <1>3, <2>1
    <3>4. inits'[t] = flag'[t] + marks'[t] /\ units'[t] <= inits'[t]  BY <3>1, <3>2
    <3> QED  BY <3>1, <3>2, <3>3, <3>4 DEF SetOK
  <2>2. CASE t # s
    <3>1. /\ val'[t] = val[t] /\ flag'[t] = flag[t] /\ refs'[t] = refs[t]
          /\ inits'[t] = inits[t] /\ marks'[t] = marks[t] /\ units'[t] = units[t]
      BY <1>5, <1>6, <1>7, <1>8, <1>9, <1>10, <2>2
    <3>2. SetOK(t) /\ (t \in live' <=> t \in live)  BY <1>0, <1>3, <2>2 DEF SetInv
    <3> QED  BY <1>1, <3>1, <3>2 DEF SetOK
  <2> QED  BY <2>1, <2>2
<1>16. \A t \in live' : t \in live /\ t # s /\ t \in Semid /\ t # NoSem
  BY <1>0, <1>3, SetsAssumption
<1>17. CounterExact'
  <2>1. ASSUME NEW t \in live'  PROVE refs'[t] = Cardinality(Attached(t)')
    <3>1. Attached(t)' = Attached(t)  BY <1>3, <1>16, <2>1 DEF Attached
    <3> QED  BY <1>0, <1>7, <1>16, <3>1 DEF CounterExact
  <2> QED  BY <2>1 DEF CounterExact
<1>18. NoUnitFromNowhere'
  <2>1. ASSUME NEW t \in live'  PROVE val'[t] + Cardinality(Holders(t)') <= units'[t]
    <3>1. Holders(t)' = Holders(t)  BY <1>1 DEF Holders
    <3>2. val'[t] = val[t] /\ units'[t] = units[t]  BY <1>5, <1>10, <1>16
    <3> QED  BY <1>0, <1>16, <3>1, <3>2 DEF NoUnitFromNowhere
  <2> QED  BY <2>1 DEF NoUnitFromNowhere
<1>19. ProcInv' /\ SetInv'  BY <1>14, <1>15 DEF ProcInv, SetInv
<1> QED  BY <1>2, <1>11, <1>12, <1>13, <1>17, <1>18, <1>19 DEF IInv, TypeOK

-----------------------------------------------------------------------------
(* A process that closes its handle or ends is counted out, and the sets   *)
(* of holders only shrink.                                                 *)
LEMMA DetachCounts ==
  ASSUME IInv, NEW p \in Proc, undo[p] # NoSem, UNCHANGED live,
         undo' = [undo EXCEPT ![p] = NoSem],
         \A t \in live : refs'[t] = IF t = undo[p] THEN refs[t] - 1 ELSE refs[t]
  PROVE  CounterExact' /\ refs[undo[p]] > 0
<1>0. CounterExact /\ ProcOK(p) /\ live \subseteq Semid /\ undo \in [Proc -> Semid \cup {NoSem}]
  BY DEF IInv, ProcInv, TypeOK, SetTypes, HandleTypes
<1>1. PICK s \in Semid : s = undo[p] /\ s \in live  BY <1>0 DEF ProcOK
<1>2. p \in Attached(s) /\ Attached(s) \in SUBSET Proc /\ Attached(s)' = Attached(s) \ {p}
  BY <1>0, <1>1, SetsAssumption DEF Attached
<1>3. ASSUME NEW t \in live, t # s  PROVE Attached(t)' = Attached(t)
  BY <1>0, <1>1, <1>3, SetsAssumption DEF Attached
<1>4. /\ Cardinality(Attached(s)) \in Nat /\ Cardinality(Attached(s)) > 0
      /\ Cardinality(Attached(s)') = Cardinality(Attached(s)) - 1
  BY <1>2, RemoveOne
<1>5. refs[s] = Cardinality(Attached(s))  BY <1>0, <1>1 DEF CounterExact
<1>6. ASSUME NEW t \in live  PROVE refs'[t] = Cardinality(Attached(t)')
  <2>1. CASE t = s  BY <1>1, <1>4, <1>5, <2>1
  <2>2. CASE t # s  BY <1>0, <1>1, <1>3, <2>2 DEF CounterExact
  <2> QED  BY <2>1, <2>2
<1>7. CounterExact'  BY <1>6 DEF CounterExact
<1> QED  BY <1>1, <1>4, <1>5, <1>7

(* A process that gives up its handle leaves the count of units right.     *)
LEMMA DropFacts ==
  ASSUME IInv, NEW p \in Proc, UNCHANGED <<live, val, units>>,
         handle' = [handle EXCEPT ![p] = NoSem], holds' = [holds EXCEPT ![p] = FALSE]
  PROVE  /\ NoUnitFromNowhere'
         /\ handle' \in [Proc -> Semid \cup {NoSem}] /\ holds' \in [Proc -> BOOLEAN]
         /\ handle'[p] = NoSem /\ ~holds'[p]
         /\ \A q \in Proc \ {p} : handle'[q] = handle[q] /\ holds'[q] = holds[q]
<1>0. /\ NoUnitFromNowhere /\ val \in [Semid -> 0 .. SEMVMX] /\ units \in [Semid -> Int]
      /\ live \subseteq Semid /\ handle \in [Proc -> Semid \cup {NoSem}] /\ holds \in [Proc -> BOOLEAN]
  BY DEF IInv, TypeOK, SetTypes, HandleTypes
<1>1. /\ handle' \in [Proc -> Semid \cup {NoSem}] /\ holds' \in [Proc -> BOOLEAN]
      /\ handle'[p] = NoSem /\ ~holds'[p]
      /\ \A q \in Proc \ {p} : handle'[q] = handle[q] /\ holds'[q] = holds[q]
  BY <1>0
<1>2. ASSUME NEW t \in live  PROVE val[t] + Cardinality(Holders(t)') <= units[t]
  <2>1. Holders(t) \in SUBSET Proc /\ Holders(t)' \in SUBSET Holders(t) /\ Holders(t)' \in SUBSET Proc
    BY <1>1 DEF Holders
  <2>2. IsFiniteSet(Holders(t))  BY <2>1, SetsAssumption, FS_Subset
  <2>3. Cardinality(Holders(t)') <= Cardinality(Holders(t))  BY <2>1, <2>2, FS_Subset
  <2>4. PICK m \in Nat, n \in Nat : m = Cardinality(Holders(t)) /\ n = Cardinality(Holders(t)')
    BY <2>1, CountType
  <2>5. val[t] + m <= units[t] /\ val[t] \in Int /\ units[t] \in Int
    BY <1>0, <2>4 DEF NoUnitFromNowhere
  <2>6. n <= m  BY <2>3, <2>4
  <2>7. val[t] + n <= units[t]  BY <2>4, <2>5, <2>6
  <2> QED  BY <2>4, <2>7
<1>3. NoUnitFromNowhere'  BY <1>2 DEF NoUnitFromNowhere
<1> QED  BY <1>1, <1>3

(* The decrement of sem_close keeps the invariant.                         *)
LEMMA CloseStep1 ==
  ASSUME IInv, NEW p \in Proc, sem_close(p)
  PROVE  IInv'
<1>0. /\ TypeOK /\ SetTypes /\ CallTypes /\ ProcOK(p) /\ SetInv /\ CounterExact
      /\ live \subseteq Semid /\ refs \in [Semid -> 0 .. SEMVMX] /\ undo \in [Proc -> Semid \cup {NoSem}]
      /\ handle[p] \in Semid \cup {NoSem} /\ sid \in [Proc -> Semid \cup {NoSem}]
  BY DEF IInv, TypeOK, SetTypes, HandleTypes, CallTypes, ProcInv
<1>1. PICK s \in Semid : s = handle[p]  BY <1>0 DEF sem_close
<1>2. /\ sid' = [sid EXCEPT ![p] = s] /\ handle' = [handle EXCEPT ![p] = NoSem]
      /\ holds' = [holds EXCEPT ![p] = FALSE] /\ Goto(p, "c_check")
      /\ UNCHANGED <<file, spent, live, skey, val, flag, arg, key, inits, marks, units>>
  BY <1>1 DEF sem_close, kernel, history
<1>3. /\ NoUnitFromNowhere'
      /\ handle' \in [Proc -> Semid \cup {NoSem}] /\ holds' \in [Proc -> BOOLEAN]
      /\ handle'[p] = NoSem /\ ~holds'[p]
      /\ \A q \in Proc \ {p} : handle'[q] = handle[q] /\ holds'[q] = holds[q]
  BY <1>2, DropFacts
<1>4. "c_check" \in Steps /\ "c_check" \notin Opening  BY DEF Steps, Opening
<1>5. /\ pc' \in [Proc -> Steps] /\ pc'[p] = "c_check"
      /\ \A q \in Proc \ {p} : pc'[q] = pc[q]
  BY <1>0, <1>2, <1>4, GotoMoves
<1>6. FileTypes'  BY <1>0, <1>2 DEF TypeOK, FileTypes
<1>7. CallTypes'  BY <1>0, <1>2, <1>5 DEF CallTypes
<1>8. /\ CounterExact' /\ refs' \in [Semid -> 0 .. SEMVMX] /\ undo' \in [Proc -> Semid \cup {NoSem}]
      /\ undo'[p] = NoSem /\ \A q \in Proc \ {p} : undo'[q] = undo[q]
      /\ \A t \in Semid \ live : refs'[t] = refs[t]
      /\ \A t \in Semid \ {s} : refs'[t] = refs[t]
  <2>1. CASE s \in live
    <3>1. undo[p] = s /\ s # NoSem  BY <1>0, <1>1, <2>1, SetsAssumption DEF ProcOK
    <3>2. refs' = [refs EXCEPT ![s] = @ - 1] /\ undo' = [undo EXCEPT ![p] = NoSem] /\ refs[s] > 0
      BY <1>1, <2>1 DEF sem_close
    <3>3. \A t \in live : refs'[t] = IF t = undo[p] THEN refs[t] - 1 ELSE refs[t]
      BY <1>0, <3>1, <3>2
    <3>4. CounterExact'  BY <1>2, <3>1, <3>2, <3>3, DetachCounts
    <3>5. refs' \in [Semid -> 0 .. SEMVMX]
      <4>1. refs[s] - 1 \in 0 .. SEMVMX  BY <1>0, <3>2, SetsAssumption
      <4> QED  BY <1>0, <3>2, <4>1
    <3> QED  BY <1>0, <2>1, <3>2, <3>4, <3>5
  <2>2. CASE s \notin live
    <3>1. UNCHANGED <<refs, undo>>  BY <1>1, <2>2 DEF sem_close
    <3>2. undo[p] = NoSem  BY <1>0, <1>1, <2>2 DEF ProcOK
    <3>3. CounterExact'  BY <1>0, <1>2, <3>1 DEF CounterExact, Attached
    <3> QED  BY <1>0, <3>1, <3>2, <3>3
  <2> QED  BY <2>1, <2>2
<1>9. SetTypes'  BY <1>0, <1>2, <1>8 DEF SetTypes
<1>10. HandleTypes'  BY <1>3, <1>8 DEF HandleTypes
<1>11. ProcOK(p)'
  <2>1. NoSem \notin live  BY <1>0, SetsAssumption
  <2> QED  BY <1>2, <1>3, <1>4, <1>5, <1>8, <2>1 DEF ProcOK, Opening
<1>12. ProcInv'  BY <1>2, <1>3, <1>5, <1>8, <1>11, OneProc
<1>13. SetOK(s)'  BY <1>0, <1>1, <1>2, <1>8 DEF SetInv, SetOK
<1>14. SetInv'  BY <1>1, <1>2, <1>8, <1>13, OneSet
<1> QED  BY <1>3, <1>6, <1>7, <1>8, <1>9, <1>10, <1>12, <1>14 DEF IInv, TypeOK

(* A process that ends, with its SEM_UNDO, keeps the invariant.            *)
LEMMA ExitStep ==
  ASSUME IInv, NEW p \in Proc, Exit(p)
  PROVE  IInv'
<1>0. /\ TypeOK /\ SetTypes /\ CallTypes /\ ProcOK(p) /\ SetInv /\ CounterExact
      /\ live \subseteq Semid /\ refs \in [Semid -> 0 .. SEMVMX] /\ undo \in [Proc -> Semid \cup {NoSem}]
  BY DEF IInv, TypeOK, SetTypes, HandleTypes, ProcInv
<1>1. /\ refs' = [s \in Semid |-> IF undo[p] = s THEN refs[s] - 1 ELSE refs[s]]
      /\ undo' = [undo EXCEPT ![p] = NoSem] /\ handle' = [handle EXCEPT ![p] = NoSem]
      /\ holds' = [holds EXCEPT ![p] = FALSE] /\ Return(p)
      /\ UNCHANGED <<file, spent, live, skey, val, flag, inits, marks, units>>
  BY DEF Exit, kernel, history
<1>2. /\ NoUnitFromNowhere'
      /\ handle' \in [Proc -> Semid \cup {NoSem}] /\ holds' \in [Proc -> BOOLEAN]
      /\ handle'[p] = NoSem /\ ~holds'[p]
      /\ \A q \in Proc \ {p} : handle'[q] = handle[q] /\ holds'[q] = holds[q]
  BY <1>1, DropFacts
<1>3. /\ CallTypes' /\ pc'[p] = "idle"
      /\ \A q \in Proc \ {p} : pc'[q] = pc[q] /\ key'[q] = key[q]
  BY <1>0, <1>1, ReturnMoves
<1>4. FileTypes'  BY <1>0, <1>1 DEF TypeOK, FileTypes
<1>5. /\ undo' \in [Proc -> Semid \cup {NoSem}] /\ undo'[p] = NoSem
      /\ \A q \in Proc \ {p} : undo'[q] = undo[q]
  BY <1>0, <1>1
<1>6. \A t \in Semid : refs'[t] = IF t = undo[p] THEN refs[t] - 1 ELSE refs[t]
  BY <1>1
<1>7. CounterExact' /\ (undo[p] # NoSem => undo[p] \in Semid /\ undo[p] \in live /\ refs[undo[p]] > 0)
  <2>1. CASE undo[p] = NoSem
    <3>1. ASSUME NEW t \in live  PROVE refs'[t] = Cardinality(Attached(t)')
      <4>1. t \in Semid /\ t # NoSem  BY <1>0, SetsAssumption
      <4>2. Attached(t)' = Attached(t)  BY <1>5, <2>1, <4>1 DEF Attached
      <4> QED  BY <1>0, <1>6, <2>1, <4>1, <4>2 DEF CounterExact
    <3> QED  BY <1>1, <2>1, <3>1 DEF CounterExact
  <2>2. CASE undo[p] # NoSem
    <3>1. undo[p] \in live  BY <1>0, <2>2 DEF ProcOK
    <3>2. \A t \in live : refs'[t] = IF t = undo[p] THEN refs[t] - 1 ELSE refs[t]
      BY <1>0, <1>6
    <3> QED  BY <1>0, <1>1, <2>2, <3>1, <3>2, DetachCounts
  <2> QED  BY <2>1, <2>2
<1>8. refs' \in [Semid -> 0 .. SEMVMX]
  <2>1. ASSUME NEW t \in Semid  PROVE refs'[t] \in 0 .. SEMVMX
    <3>1. CASE t = undo[p]
      <4>1. refs[t] \in 0 .. SEMVMX /\ refs[t] > 0 /\ SEMVMX \in Nat  BY <1>0, <1>7, <3>1, SetsAssumption
      <4> QED  BY <1>6, <3>1, <4>1
    <3>2. CASE t # undo[p]  BY <1>0, <1>6, <3>2
    <3> QED  BY <3>1, <3>2
  <2> QED  BY <1>1, <2>1
<1>9. SetTypes'  BY <1>0, <1>1, <1>8 DEF SetTypes
<1>10. HandleTypes'  BY <1>2, <1>5 DEF HandleTypes
<1>11. ProcOK(p)'
  <2>1. NoSem \notin live  BY <1>0, SetsAssumption
  <2> QED  BY <1>1, <1>2, <1>3, <1>5, <2>1 DEF ProcOK, Opening
<1>12. ProcInv'  BY <1>1, <1>2, <1>3, <1>5, <1>11, OneProc
<1>13. ASSUME NEW t \in Semid  PROVE SetOK(t)'
  <2>1. t \notin live => refs'[t] = refs[t]
    BY <1>6, <1>7, SetsAssumption
  <2> QED  BY <1>0, <1>1, <2>1 DEF SetInv, SetOK
<1>14. SetInv'  BY <1>13 DEF SetInv
<1> QED  BY <1>2, <1>3, <1>4, <1>7, <1>9, <1>10, <1>12, <1>14 DEF IInv, TypeOK

-----------------------------------------------------------------------------
(* Every step of the library, and of the world around it, keeps IInv.      *)
LEMMA NextKeeps == IInv /\ [Next]_vars => IInv'
<1> SUFFICES ASSUME IInv, [Next]_vars PROVE IInv'
  OBVIOUS
<1>1. CASE UNCHANGED vars
  <2>1. UNCHANGED <<file, spent, live, skey, val, flag, refs, undo, arg, key, sid, pc,
                    handle, holds, inits, marks, units>>
    BY <1>1 DEF vars, kernel, sems, locals, history
  <2>2. TypeOK'
    BY <2>1 DEF IInv, TypeOK, FileTypes, SetTypes, CallTypes, HandleTypes
  <2>3. ProcInv' /\ SetInv'  BY <2>1 DEF IInv, ProcInv, ProcOK, SetInv, SetOK
  <2>4. CounterExact' /\ NoUnitFromNowhere'
    BY <2>1 DEF IInv, CounterExact, Attached, NoUnitFromNowhere, Holders
  <2> QED  BY <2>2, <2>3, <2>4 DEF IInv
<1>2. ASSUME NEW p \in Proc, Call(p)  PROVE IInv'
  BY <1>2, QuietActions, CloseStep1 DEF Call
<1>3. ASSUME NEW p \in Proc, Use(p)  PROVE IInv'
  BY <1>3, PostStep, TakeStep DEF Use, sem_wait, sem_trywait
<1>4. ASSUME NEW p \in Proc, OpenStep(p)  PROVE IInv'
  BY <1>4, QuietActions, SemgetStep, InitStep, AttachStep DEF OpenStep
<1>5. ASSUME NEW p \in Proc, UnlinkStep(p)  PROVE IInv'
  BY <1>5, QuietActions, MarkStep, RmidStep DEF UnlinkStep
<1>6. ASSUME NEW p \in Proc, CloseStep(p)  PROVE IInv'
  BY <1>6, QuietActions, RmidStep DEF CloseStep
<1>7. ASSUME NEW p \in Proc, Interrupted(p) \/ Exit(p)  PROVE IInv'
  BY <1>7, QuietActions, ExitStep
<1> QED  BY <1>1, <1>2, <1>3, <1>4, <1>5, <1>6, <1>7 DEF Next

(* The strengthened invariant holds of every state of the program. *)
THEOREM Inductive == Spec => []IInv
  BY InitHolds, NextKeeps, PTL DEF Spec

(* Every variable of the named-semaphore code stays in its range: the flag *)
(* is 0 or 1, and neither the value nor the access counter ever leaves     *)
(* 0 .. SEMVMX, however many processes open, post, close, unlink and end.  *)
THEOREM TypeCorrect == Spec => []TypeOK
<1>1. IInv => TypeOK  BY DEF IInv
<1> QED  BY <1>1, Inductive, PTL

(* The access counter of sem_open and sem_close (semaphore 2) counts the   *)
(* processes that have the semaphore open, for any number of processes.    *)
THEOREM CounterIsExact == Spec => []CounterExact
<1>1. IInv => CounterExact  BY DEF IInv
<1> QED  BY <1>1, Inductive, PTL

(* sem_wait and sem_trywait hand out no unit that sem_open or sem_post did *)
(* not put into the set.                                                   *)
THEOREM UnitsAreBacked == Spec => []NoUnitFromNowhere
<1>1. IInv => NoUnitFromNowhere  BY DEF IInv
<1> QED  BY <1>1, Inductive, PTL

(* sem_close never sleeps in its decrement of the access counter.          *)
THEOREM CloseDoesNotSleep == Spec => []CloseNeverSleeps
<1>1. IInv => CloseNeverSleeps
  <2> SUFFICES ASSUME IInv, NEW p \in Proc, handle[p] \in live
               PROVE  refs[handle[p]] > 0
    BY DEF CloseNeverSleeps
  <2>1. p \in Attached(handle[p]) /\ Attached(handle[p]) \in SUBSET Proc
    BY DEF IInv, ProcInv, ProcOK, Attached
  <2>2. Cardinality(Attached(handle[p])) > 0  BY <2>1, RemoveOne
  <2> QED  BY <2>2 DEF IInv, CounterExact
<1> QED  BY <1>1, Inductive, PTL

(* Racing openers initialise a set once, as long as nobody unlinks it.     *)
THEOREM OneInitialisation == Spec => []InitialisedOnce
<1>1. IInv => InitialisedOnce
  <2> SUFFICES ASSUME IInv, NEW s \in live, marks[s] = 0  PROVE inits[s] <= 1
    BY DEF InitialisedOnce
  <2>1. s \in Semid /\ flag[s] \in 0 .. 1  BY DEF IInv, TypeOK, SetTypes
  <2>2. inits[s] = flag[s] + marks[s]  BY <2>1 DEF IInv, SetInv, SetOK
  <2> QED  BY <2>1, <2>2
<1> QED  BY <1>1, Inductive, PTL

(* A semaphore opened with initial value 1 and used as a lock is held by   *)
(* at most one process until it is unlinked.                               *)
THEOREM SemaphoreIsALock == Spec => []LockExclusion
<1>1. IInv => LockExclusion
  <2> SUFFICES ASSUME IInv, InitValues = {1}, Signallers = {}, NEW s \in live, marks[s] = 0
               PROVE  Cardinality(Holders(s)) <= 1
    BY DEF LockExclusion
  <2>1. /\ s \in Semid /\ flag[s] \in 0 .. 1 /\ val[s] \in 0 .. SEMVMX /\ SEMVMX \in Nat
        /\ units[s] \in Int
    BY SetsAssumption DEF IInv, TypeOK, SetTypes
  <2>2. inits[s] = flag[s] + marks[s] /\ units[s] <= inits[s]
    BY <2>1 DEF IInv, SetInv, SetOK
  <2>3. Cardinality(Holders(s)) \in Nat  BY CountType DEF Holders
  <2>4. val[s] + Cardinality(Holders(s)) <= units[s]  BY DEF IInv, NoUnitFromNowhere
  <2> QED  BY <2>1, <2>2, <2>3, <2>4
<1> QED  BY <1>1, Inductive, PTL
=============================================================================
