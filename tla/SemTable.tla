------------------------------ MODULE SemTable ------------------------------
(***************************************************************************)
(* Unnamed semaphores of posix1b/semaphore.c: sem_init, sem_destroy, and   *)
(* the table in which every process keeps the set of each semaphore.  pc   *)
(* is a line of semaphore.c.  Threads call the functions as POSIX allows,  *)
(* and are careful where the table is not: of the semaphores of one key,   *)
(* which are the ones that are not shared, a process has one at a time,    *)
(* of those in one list it destroys the oldest first, and none is used     *)
(* that is not initialised.                                                *)
(***************************************************************************)
EXTENDS Threads, Sequences

CONSTANTS Sem,               \* the variables of type sem_t
          key,               \* of each, its address, or IPC_PRIVATE if it is not shared
          Owner,             \* of each, the process that initialises it
          proc,              \* of each thread, its process
          HASH_TABLE_SIZE,
          SEMVMX,            \* the largest value of a semaphore
          Calls,             \* the functions called on initialised semaphores
          Leftover,          \* keys of sets that an earlier program may have left
          MaxSets            \* bound on the sets created

IPC_PRIVATE == 0
Thread == DOMAIN proc
Process == {proc[t] : t \in Thread}
Idle == 0
NoCall == [call |-> "none", s |-> "none", semid |-> -1, value |-> 0]

(* mem.table: the table of each process.  mem.sets: the sets of the kernel *)
(* by id, removed ones included; sem is their value.  mem.of: the set that *)
(* sem_init last made for a semaphore, 0 while it is not initialised.      *)
(* Sets an earlier program left may have any value.                        *)
Init ==
  /\ pc = [t \in Thread |-> Idle]
  /\ loc = [t \in Thread |-> NoCall]
  /\ \E left \in {<<>>, Leftover} :
       /\ mem = [table |-> [p \in Process |-> [b \in 0 .. HASH_TABLE_SIZE - 1 |-> <<>>]],
                 sets |-> [i \in DOMAIN left |-> [key |-> left[i], live |-> TRUE]],
                 of |-> [s \in Sem |-> 0]]
       /\ sem \in [DOMAIN left -> 0 .. SEMVMX]
  /\ mtx = [p \in Process |-> NoThread]
  /\ cnd = <<>> /\ verdict = "none"

k(t) == key[loc[t].s]
bucket(t) == mem.table[proc[t]][k(t) % HASH_TABLE_SIZE]
Found(t) == {n \in 1 .. Len(bucket(t)) : bucket(t)[n].semkey = k(t)}
First(t) == CHOOSE n \in Found(t) : \A m \in Found(t) : n <= m

SetBucket(t, items) == [mem.table EXCEPT ![proc[t]][k(t) % HASH_TABLE_SIZE] = items]

(* insert_semid: the new item comes first in its list.                     *)
insert_semid(t, semid) ==
  SetBucket(t, <<[semkey |-> k(t), semid |-> semid, freed |-> FALSE]>> \o bucket(t))

(* The loop of remove_semid: the item is taken out, and the one after it   *)
(* is freed.                                                               *)
remove(t) ==
  LET n == First(t)
      rest == SubSeq(bucket(t), n + 1, Len(bucket(t)))
  IN  IF Found(t) = {} THEN mem.table
      ELSE SetBucket(t, SubSeq(bucket(t), 1, n - 1) \o
             (IF rest = <<>> THEN rest ELSE [rest EXCEPT ![1].freed = TRUE]))

(* The kernel.  semget finds the live set of a key, or makes one; with     *)
(* IPC_PRIVATE it always makes one.                                        *)
Live(i) == i \in DOMAIN mem.sets /\ mem.sets[i].live
Sets(ky) == {i \in DOMAIN mem.sets : Live(i) /\ mem.sets[i].key = ky /\ ky # IPC_PRIVATE}
semget(ky) == IF Sets(ky) # {} THEN CHOOSE i \in Sets(ky) : TRUE ELSE Len(mem.sets) + 1

(* The kernel's sets with set i of key ky among them, and their values.    *)
SetsWith(i, ky) == IF Live(i) THEN mem.sets ELSE Append(mem.sets, [key |-> ky, live |-> TRUE])
Values(i) == IF Live(i) THEN sem ELSE Append(sem, 0)

Busy(s) == \E t \in Thread : loc[t].s = s
Destroying(s) == \E t \in Thread : loc[t].s = s /\ loc[t].call = "sem_destroy"

(* The care that is taken: the other semaphores of the key and of the list *)
(* of s in the process, and whether s came first into its list.            *)
SameKey(s) == {r \in Sem \ {s} : Owner[r] = Owner[s] /\ key[r] = key[s]}
SameList(s) ==
  {r \in Sem \ {s} : Owner[r] = Owner[s] /\ key[r] % HASH_TABLE_SIZE = key[s] % HASH_TABLE_SIZE}
Oldest(s) ==
  LET list == mem.table[Owner[s]][key[s] % HASH_TABLE_SIZE]
  IN  list # <<>> => list[Len(list)].semkey = key[s]

Return(t, l) == Step(t, l, Idle) /\ loc' = [loc EXCEPT ![t] = NoCall]

(* sem_init: the set is found or created, the value is added to it unless  *)
(* it is 0, and the set entered in the table.                              *)
sem_init(t, s, value) ==
  /\ Step(t, Idle, IF value # 0 THEN 197 ELSE 201)
  /\ Owner[s] = proc[t] /\ mem.of[s] = 0 /\ ~ Busy(s)
  /\ \A r \in SameKey(s) : mem.of[r] = 0 /\ ~ Busy(r)
  /\ semget(key[s]) <= MaxSets
  /\ LET semid == semget(key[s]) IN
       /\ loc' = [loc EXCEPT ![t] = [call |-> "sem_init", s |-> s, semid |-> semid, value |-> value]]
       /\ mem' = [mem EXCEPT !.sets = SetsWith(semid, key[s])]
       /\ sem' = Values(semid)
  /\ UNCHANGED <<mtx, cnd, verdict>>

(* A set that was left may hold too much for the value (ERANGE).           *)
sem_init_value(t) ==
  LET i == loc[t].semid  v == sem[i] + loc[t].value  IN
  /\ \/ Step(t, 197, 201) /\ v <= SEMVMX /\ sem' = [sem EXCEPT ![i] = v] /\ UNCHANGED loc
     \/ Return(t, 197) /\ v > SEMVMX /\ UNCHANGED sem
  /\ UNCHANGED <<mem, mtx, cnd, verdict>>

(* Mutant: the set is not entered in the table.                            *)
sem_init_insert_not(t) == Goto(t, 202, 203)

sem_init_insert(t) ==
  Assign(t, 202, 203,
    [mem EXCEPT !.table = insert_semid(t, loc[t].semid)])

sem_init_return(t) ==
  /\ Return(t, 203) /\ Unlock(t, proc[t])
  /\ mem' = [mem EXCEPT !.of[loc[t].s] = loc[t].semid]
  /\ UNCHANGED <<sem, cnd, verdict>>

(* A call of sem_post, sem_wait, sem_trywait, sem_getvalue or sem_destroy. *)
(* A private semaphore is used by the threads of its process.              *)
call(t, s, c) ==
  /\ Step(t, Idle, 73)
  /\ mem.of[s] # 0
  /\ key[s] = IPC_PRIVATE => Owner[s] = proc[t]
  /\ c = "sem_destroy" => /\ Owner[s] = proc[t] /\ ~ Busy(s)
                          /\ Oldest(s) /\ \A r \in SameList(s) : ~ Destroying(r)
  /\ ~ Destroying(s)
  /\ loc' = [loc EXCEPT ![t] = [call |-> c, s |-> s, semid |-> -1, value |-> 0]]
  /\ UNCHANGED mem /\ Compute

After(t) == IF loc[t].call = "sem_destroy" THEN 92 ELSE 211

(* get_semid: look the key up, else ask the kernel; a set the kernel knows *)
(* is put into the table, but -1 returned.  If the kernel knows none, the  *)
(* mutex stays locked.                                                     *)
lookup(t) ==
  /\ Step(t, 74, IF Found(t) # {} THEN 76 ELSE 80)
  /\ loc' = [loc EXCEPT ![t].semid = IF Found(t) # {} THEN bucket(t)[First(t)].semid ELSE -1]
  /\ UNCHANGED mem /\ Compute

found(t) == MutexUnlock(t, 76, After(t), proc[t])

ask_kernel(t) ==
  LET semid == semget(k(t))
      fails == k(t) # IPC_PRIVATE /\ ~ Live(semid)
  IN  /\ Step(t, 80, IF fails THEN After(t) ELSE 85)
      /\ mem' = IF fails THEN mem
                ELSE [mem EXCEPT !.sets = SetsWith(semid, k(t)), !.table = insert_semid(t, semid)]
      /\ sem' = IF fails THEN sem ELSE Values(semid)
      /\ UNCHANGED <<loc, mtx, cnd, verdict>>

get_semid(t) ==
  \/ MutexLock(t, 73, 74, proc[t])
  \/ lookup(t)
  \/ found(t)
  \/ ask_kernel(t)
  \/ MutexUnlock(t, 85, After(t), proc[t])

(* semop or GETVAL on the id, an error if there is no such set: also one   *)
(* removed while the caller sleeps, or a value that would pass SEMVMX.     *)
semop(t) ==
  /\ Return(t, 211)
  /\ LET i == loc[t].semid IN
       CASE ~ Live(i) \/ loc[t].call = "sem_getvalue" -> UNCHANGED sem
         [] Live(i) /\ loc[t].call = "sem_post" -> sem' = [sem EXCEPT ![i] = IF @ < SEMVMX THEN @ + 1 ELSE @]
         [] Live(i) /\ loc[t].call = "sem_trywait" -> sem' = [sem EXCEPT ![i] = IF @ > 0 THEN @ - 1 ELSE @]
         [] Live(i) /\ loc[t].call = "sem_wait" -> Wait(i)
  /\ UNCHANGED <<mem, mtx, cnd, verdict>>

remove_semid(t) ==
  \/ MutexLock(t, 92, 93, proc[t])
  \/ Assign(t, 93, 100, [mem EXCEPT !.table = remove(t)])
  \/ MutexUnlock(t, 100, 296, proc[t])

(* The semaphore is gone only if IPC_RMID succeeds.                        *)
rmid(t) ==
  /\ Return(t, 296)
  /\ mem' = IF Live(loc[t].semid)
            THEN [mem EXCEPT !.sets[loc[t].semid].live = FALSE, !.of[loc[t].s] = 0]
            ELSE mem
  /\ Compute

ThreadStep(t) ==
  \/ MutexLock(t, 201, 202, proc[t])
  \/ sem_init_value(t)
  \/ sem_init_insert(t)
  \/ sem_init_return(t)
  \/ get_semid(t)
  \/ semop(t)
  \/ remove_semid(t)
  \/ rmid(t)

Call(t) ==
  \E s \in Sem :
    \/ \E value \in 0 .. 1 : sem_init(t, s, value)
    \/ \E c \in Calls : call(t, s, c)

Next == \E t \in Thread : ThreadStep(t) \/ Call(t)

(* With the care stated above, and with several semaphores in one list,   *)
(* an operation that reaches a set reaches the one that the last sem_init  *)
(* of the semaphore made, in every process; in the process that            *)
(* initialised the semaphore it does not fail (lines 69 to 86).  Nothing   *)
(* that line 96 freed is left in a table.                                  *)
RightSet ==
  /\ \A t \in Thread : pc[t] \in {211, 92, 93, 100, 296} =>
       /\ Live(loc[t].semid) => loc[t].semid = mem.of[loc[t].s]
       /\ Owner[loc[t].s] = proc[t] => Live(loc[t].semid)
  /\ \A p \in Process, b \in 0 .. HASH_TABLE_SIZE - 1 :
       \A n \in DOMAIN mem.table[p][b] : ~ mem.table[p][b][n].freed

(* "If pshared is non-zero, any process that can access the semaphore can  *)
(* use it" (conformance/interfaces/sem_init/3-2.c, line 20): no operation  *)
(* on an initialised semaphore fails for want of its set (line 86).        *)
AnyProcessCanUse ==
  \A t \in Thread : pc[t] = 211 /\ mem.of[loc[t].s] # 0 => Live(loc[t].semid)
=============================================================================
