------------------------------- MODULE Semaph -------------------------------
(***************************************************************************)
(* APUE/lib/semaph.c: a counting semaphore out of a System V set of three. *)
(* [0] is its value, [1] counts down from BIGCOUNT the processes that have *)
(* it open, [2] is a lock for sem_create and sem_close.  The last process  *)
(* to close the semaphore removes the set; a process that exits without    *)
(* closing it has its operations undone by the kernel.                     *)
(*                                                                         *)
(* The callers guard a critical section with the semaphore.  Every system  *)
(* call is a step, and a process may exit between any two.                 *)
(***************************************************************************)
EXTENDS Integers, FiniteSets

CONSTANTS Proc,
          Openers,  \* the processes that call sem_open, the others call sem_create
          initval,
          MaxSets,  \* bound: how often a set is created
          MaxExits  \* bound: how many processes exit without sem_close

BIGCOUNT == 10000

ASSUME SemaphAssumption == /\ IsFiniteSet(Proc) /\ Cardinality(Proc) < BIGCOUNT
                    /\ Openers \subseteq Proc
                    /\ initval \in Nat /\ MaxSets \in Nat /\ MaxExits \in Nat

VARIABLES key,    \* the identifier of the set the key stands for, 0 when there is none
          count,  \* sets created so far: identifiers are not used again
          sem,    \* the three values of the set
          adj,    \* semadj: what the kernel adds to them when a process exits
          pc, id, semval,
          exits

kernel == <<key, count, sem, adj>>
vars == <<kernel, pc, id, semval, exits>>

None3 == [i \in 0 .. 2 |-> 0]

Init == /\ key = 0 /\ count = 0
        /\ sem = None3
        /\ adj = [p \in Proc |-> None3]
        /\ pc = [p \in Proc |-> "idle"]
        /\ id = [p \in Proc |-> 0]
        /\ semval = [p \in Proc |-> 0]
        /\ exits = 0

At(p, label) == pc[p] = label
Goto(p, label) == pc' = [pc EXCEPT ![p] = label]

\* The set the process has the identifier of has not been removed.
Valid(p) == id[p] = key
-----------------------------------------------------------------------------
(* The system calls                                                          *)

\* Mutant of semop: without SEM_UNDO.
semopForGood(p, op) ==
  /\ sem' = [i \in 0 .. 2 |-> sem[i] + op[i]]
  /\ UNCHANGED <<key, count, adj>>

\* A semop: what is added to each member, with SEM_UNDO on all of them.
semop(p, op) ==
  /\ sem' = [i \in 0 .. 2 |-> sem[i] + op[i]]
  /\ adj' = [adj EXCEPT ![p] = [i \in 0 .. 2 |-> @[i] - op[i]]]
  /\ UNCHANGED <<key, count>>

\* It proceeds only if no member gets negative.
Proceeds(op) == \A i \in 0 .. 2 : sem[i] + op[i] >= 0

\* SETVAL forgets what any process would have undone.
SETVAL(n, val) ==
  /\ sem' = [sem EXCEPT ![n] = val]
  /\ adj' = [q \in Proc |-> [adj[q] EXCEPT ![n] = 0]]
  /\ UNCHANGED <<key, count>>

\* semget with IPC_CREAT: a new set is all zeroes.
semget(p) ==
  \/ key # 0 /\ id' = [id EXCEPT ![p] = key] /\ UNCHANGED kernel
  \/ /\ key = 0 /\ count < MaxSets
     /\ count' = count + 1
     /\ key' = count'
     /\ id' = [id EXCEPT ![p] = key']
     /\ sem' = None3
     /\ adj' = [q \in Proc |-> None3]

\* The end of a process: a member is not made negative.
undo(p) ==
  /\ sem' = [i \in 0 .. 2 |-> IF sem[i] + adj[p][i] < 0 THEN 0 ELSE sem[i] + adj[p][i]]
  /\ adj' = [adj EXCEPT ![p] = None3]
  /\ UNCHANGED <<key, count>>

\* The semaphores op_lock, op_endcreate and so on act on.
op_lock == [None3 EXCEPT ![2] = 1]
op_endcreate == [None3 EXCEPT ![1] = -1, ![2] = -1]
op_open == [None3 EXCEPT ![1] = -1]
op_unlock == [None3 EXCEPT ![2] = -1]
op_op(value) == [None3 EXCEPT ![0] = value]

op_close == [None3 EXCEPT ![1] = 1, ![2] = 1]

\* The first element of op_lock and op_close waits for the lock to be 0.
Unlocked == sem[2] = 0
-----------------------------------------------------------------------------
(* sem_create                                                                *)

CallCreate(p) ==
  /\ At(p, "idle") /\ p \notin Openers
  /\ Goto(p, "get")
  /\ UNCHANGED <<kernel, id, semval, exits>>

CreateGet(p) ==
  /\ At(p, "get")
  /\ semget(p)
  /\ Goto(p, "lock")
  /\ UNCHANGED <<semval, exits>>

CreateLock(p) ==
  /\ At(p, "lock") \/ At(p, "blocked")
  /\ Valid(p)
  /\ Unlocked
  /\ semop(p, op_lock)
  /\ Goto(p, "getval")
  /\ UNCHANGED <<id, semval, exits>>

\* semop sleeps until the lock is free.
CreateBlocks(p) ==
  /\ At(p, "lock")
  /\ Valid(p) /\ ~Unlocked
  /\ Goto(p, "blocked")
  /\ UNCHANGED <<kernel, id, semval, exits>>

\* The set was removed before the semop: EINVAL, goto again.
CreateAgain(p) ==
  /\ At(p, "lock")
  /\ ~Valid(p)
  /\ Goto(p, "get")
  /\ UNCHANGED <<kernel, id, semval, exits>>

\* It is removed during the semop: EIDRM, err_sys.
CreateFails(p) ==
  /\ At(p, "blocked")
  /\ ~Valid(p)
  /\ Goto(p, "cantlock")
  /\ undo(p)
  /\ UNCHANGED <<id, semval, exits>>

\* A counter of 0: nobody has set it up yet.
NotSetUp(val) == val = 0

CreateGetval(p) ==
  /\ At(p, "getval") /\ Valid(p)
  /\ semval' = [semval EXCEPT ![p] = sem[1]]
  /\ Goto(p, IF NotSetUp(sem[1]) THEN "set0" ELSE "endcreate")
  /\ UNCHANGED <<kernel, id, exits>>

CreateSet0(p) ==
  /\ At(p, "set0") /\ Valid(p)
  /\ SETVAL(0, initval)
  /\ Goto(p, "set1")
  /\ UNCHANGED <<id, semval, exits>>

CreateSet1(p) ==
  /\ At(p, "set1") /\ Valid(p)
  /\ SETVAL(1, BIGCOUNT)
  /\ Goto(p, "endcreate")
  /\ UNCHANGED <<id, semval, exits>>

CreateEnd(p) ==
  /\ At(p, "endcreate") /\ Valid(p)
  /\ Proceeds(op_endcreate)
  /\ semop(p, op_endcreate)
  /\ Goto(p, "open")
  /\ UNCHANGED <<id, semval, exits>>
-----------------------------------------------------------------------------
(* sem_open, sem_close and sem_op                                            *)

\* semget without IPC_CREAT fails when there is no set: the caller gets -1.
OpenGet(p) ==
  /\ At(p, "idle") /\ p \in Openers
  /\ key # 0
  /\ id' = [id EXCEPT ![p] = key]
  /\ Goto(p, "opening")
  /\ UNCHANGED <<kernel, semval, exits>>

\* Without the lock; it waits while the counter is 0.
Open(p) ==
  /\ At(p, "opening") /\ Valid(p)
  /\ Proceeds(op_open)
  /\ semop(p, op_open)
  /\ Goto(p, "open")
  /\ UNCHANGED <<id, semval, exits>>

CloseLock(p) ==
  /\ At(p, "open") /\ Valid(p)
  /\ Unlocked
  /\ semop(p, op_close)
  /\ Goto(p, "closeval")
  /\ UNCHANGED <<id, semval, exits>>

\* Mutant of LastOne: removed by whoever closes it.
Anyone(val) == TRUE

LastOne(val) == val = BIGCOUNT

\* err_dump when the counter is too high.
CloseGetval(p) ==
  /\ At(p, "closeval") /\ Valid(p)
  /\ semval' = [semval EXCEPT ![p] = sem[1]]
  /\ Goto(p, IF sem[1] > BIGCOUNT THEN "failed" ELSE IF LastOne(sem[1]) THEN "rm" ELSE "unlock")
  /\ UNCHANGED <<kernel, id, exits>>

\* sem_rm, as sem_close calls it: nobody's operations on the set are undone any more.
sem_rm(p) ==
  /\ At(p, "rm") /\ Valid(p)
  /\ key' = 0
  /\ sem' = None3
  /\ adj' = [q \in Proc |-> None3]
  /\ Goto(p, "idle")
  /\ id' = [id EXCEPT ![p] = 0]
  /\ UNCHANGED <<count, semval, exits>>

CloseUnlock(p) ==
  /\ At(p, "unlock") /\ Valid(p)
  /\ Proceeds(op_unlock)
  /\ semop(p, op_unlock)
  /\ Goto(p, "idle")
  /\ id' = [id EXCEPT ![p] = 0]
  /\ UNCHANGED <<semval, exits>>

\* Around the critical section of the caller.
sem_wait(p) ==
  /\ At(p, "open") /\ Valid(p)
  /\ Proceeds(op_op(-1))
  /\ semop(p, op_op(-1))
  /\ Goto(p, "critical")
  /\ UNCHANGED <<id, semval, exits>>

sem_signal(p) ==
  /\ At(p, "critical") /\ Valid(p)
  /\ semop(p, op_op(1))
  /\ Goto(p, "open")
  /\ UNCHANGED <<id, semval, exits>>

\* Every other system call on a set that is gone: err_sys.
Fails(p) ==
  /\ pc[p] \in {"getval", "set0", "set1", "endcreate", "opening", "open", "critical",
                "closeval", "rm", "unlock"}
  /\ ~Valid(p)
  /\ Goto(p, "failed")
  /\ undo(p)
  /\ UNCHANGED <<id, semval, exits>>

\* The process exits, and another takes its place.
Exits(p) ==
  /\ exits < MaxExits
  /\ pc[p] \notin {"idle", "failed", "cantlock"}
  /\ exits' = exits + 1
  /\ undo(p)
  /\ Goto(p, "idle")
  /\ id' = [id EXCEPT ![p] = 0]
  /\ semval' = [semval EXCEPT ![p] = 0]

Creates(p) == CreateGet(p) \/ CreateLock(p) \/ CreateBlocks(p) \/ CreateAgain(p) \/ CreateFails(p)
                \/ CreateGetval(p) \/ CreateSet0(p) \/ CreateSet1(p) \/ CreateEnd(p)
Closes(p) == CloseGetval(p) \/ sem_rm(p) \/ CloseUnlock(p)

Next == \E p \in Proc :
          \/ CallCreate(p) \/ Creates(p)
          \/ OpenGet(p) \/ Open(p)
          \/ CloseLock(p) \/ Closes(p)
          \/ sem_wait(p) \/ sem_signal(p)
          \/ Fails(p) \/ Exits(p)

Spec == Init /\ [][Next]_vars

-----------------------------------------------------------------------------
PC == {"idle", "get", "lock", "blocked", "getval", "set0", "set1", "endcreate", "opening", "open",
       "critical", "closeval", "rm", "unlock", "cantlock", "failed"}

TypeOK == /\ key \in 0 .. MaxSets /\ count \in 0 .. MaxSets
          /\ sem \in [0 .. 2 -> Nat]
          /\ adj \in [Proc -> [0 .. 2 -> Int]]
          /\ pc \in [Proc -> PC]
          /\ id \in [Proc -> 0 .. MaxSets]
          /\ semval \in [Proc -> Nat]
          /\ exits \in 0 .. MaxExits

\* The processes of the set that are at one of the labels.
Those(labels) == {p \in Proc : Valid(p) /\ pc[p] \in labels}
Users == Those({"open", "critical"})
Holders == Those({"critical"})
InSection == Those({"getval", "set0", "set1", "endcreate", "closeval", "rm", "unlock"})

(* [1] counts down from BIGCOUNT the processes that have the semaphore open,  *)
(* those that exited without sem_close left out, as soon as it is set up; it  *)
(* is never above BIGCOUNT.                                                   *)
CounterIsUsers ==
  key # 0 => IF sem[1] = 0 THEN Users = {} ELSE sem[1] = BIGCOUNT - Cardinality(Users)

(* A process that exits in its critical section gives the semaphore back: the *)
(* value and the processes in the section always add up to initval.           *)
ValueConserved ==
  (key # 0 /\ sem[1] # 0) => sem[0] + Cardinality(Holders) = initval

(* The lock is held by one process at most, and by none after an exit.        *)
LockHeld == key # 0 => sem[2] = Cardinality(InSection) /\ sem[2] <= 1

(* No set goes while a process that got it from sem_create has it open.       *)
UnusedWhenRemoved == (key # 0 /\ key' # key) => Users \subseteq Openers
RemovedIsUnused == [][UnusedWhenRemoved]_key

(* The last process to close the semaphore removes it: a set nobody has open  *)
(* is there only when a process exited without closing it.                    *)
LastCloseRemoves ==
  (key # 0 /\ \A p \in Proc : pc[p] \in {"idle", "failed", "cantlock"}) => exits > 0

(* The three values of the set mean what the comment at the head of the file  *)
(* says, and the set is there as long as it is needed (semaph.c:1-31).        *)
SemaphoreSound == CounterIsUsers /\ ValueConserved /\ LockHeld /\ LastCloseRemoves

(* Two processes are never in their critical sections together, on this set   *)
(* or on different ones (for initval = 1).                                    *)
ExclusiveUse == \A p, q \in Proc : At(p, "critical") /\ At(q, "critical") => p = q
=============================================================================
