---------------------------- MODULE TablesProof -----------------------------
(* What is proved of the parts of Tables, one after the other, for any number  *)
(* of processes, nodes, producers and consumers, and then of all of them.       *)
(*                                                                              *)
(* The semaphore (Semaph): its three values mean what the head of semaph.c      *)
(* says, and the last process to close it removes it.  The numbers are about    *)
(* sets of processes, Users, Holders and InSection; the invariant adds what the *)
(* kernel would undo for each process, and what a process in the locked section *)
(* knows about the values.                                                      *)
(*                                                                              *)
(* The linked list (SqlQueue): the invariant is that some sequence of nodes is  *)
(* the chain, from Front to Rear.  The ring buffer (SemBuffer): the semaphores  *)
(* count the places, with a token for every thread on its way.  The list with a *)
(* condition (CondQueue): every message is in one place.  RuleCacheProof and    *)
(* FooTableProof are about the other two.                                       *)
EXTENDS Tables, FiniteSetTheorems, SequenceTheorems, WellFoundedInduction, TLAPS

-----------------------------------------------------------------------------
(* Identifiers are not used again: who is not on the current set never will   *)
(* be, and who has no identifier, or failed for it, is not on it.             *)
Identified ==
  /\ key <= count
  /\ \A p \in Proc : id[p] <= count
  /\ \A p \in Proc : pc[p] = "idle" => id[p] = 0
  /\ \A p \in Proc : pc[p] \notin {"idle", "get"} => id[p] # 0
  /\ \A p \in Proc : key # 0 /\ Valid(p) => pc[p] \notin {"idle", "get", "cantlock", "failed"}
  /\ \A p \in Proc : pc[p] = "opening" => p \in Openers

(* What the kernel adds when a process exits is what the process has taken.   *)
Undone ==
  \A p \in Proc : /\ adj[p][0] = IF p \in Holders THEN 1 ELSE 0
                  /\ adj[p][1] = IF p \in Users THEN 1 ELSE 0
                  /\ adj[p][2] = IF p \in InSection THEN -1 ELSE 0

(* The three values; the set is not set up while [1] is 0.                    *)
Valued ==
  /\ key = 0 => sem = None3
  /\ IF sem[1] = 0 THEN Users = {} ELSE sem[1] = BIGCOUNT - Cardinality(Users)
  /\ sem[1] # 0 => sem[0] + Cardinality(Holders) = initval
  /\ sem[2] = Cardinality(InSection) /\ sem[2] <= 1

(* What a process in the locked section has found or done.                    *)
Staged ==
  /\ Those({"set0", "set1"}) # {} => sem[1] = 0
  /\ Those({"set1"}) # {} => sem[0] = initval
  /\ Those({"endcreate", "closeval", "rm", "unlock"}) # {} => sem[1] # 0
  /\ Those({"rm"}) # {} => Users \subseteq Openers

(* Without exits a set has a process on it, and one that closes the semaphore *)
(* without removing it leaves a user.                                         *)
Attended ==
  exits = 0 => /\ key # 0 => \E p \in Proc : Valid(p)
               /\ Those({"unlock"}) # {} => Users # {}

SInv == TypeOK /\ Identified /\ Undone /\ Valued /\ Staged /\ Attended

-----------------------------------------------------------------------------
(* The operations, the kernel's undo, and sets of processes.                  *)

LEMMA Operations ==
  /\ op_lock \in [0 .. 2 -> Int] /\ op_lock[0] = 0 /\ op_lock[1] = 0 /\ op_lock[2] = 1
  /\ op_endcreate \in [0 .. 2 -> Int]
  /\ op_endcreate[0] = 0 /\ op_endcreate[1] = -1 /\ op_endcreate[2] = -1
  /\ op_open \in [0 .. 2 -> Int] /\ op_open[0] = 0 /\ op_open[1] = -1 /\ op_open[2] = 0
  /\ op_close \in [0 .. 2 -> Int] /\ op_close[0] = 0 /\ op_close[1] = 1 /\ op_close[2] = 1
  /\ op_unlock \in [0 .. 2 -> Int] /\ op_unlock[0] = 0 /\ op_unlock[1] = 0 /\ op_unlock[2] = -1
  /\ \A v \in Int : /\ op_op(v) \in [0 .. 2 -> Int]
                    /\ op_op(v)[0] = v /\ op_op(v)[1] = 0 /\ op_op(v)[2] = 0
  BY DEF op_lock, op_endcreate, op_open, op_close, op_unlock, op_op, None3

LEMMA Semop ==
  ASSUME TypeOK, NEW p \in Proc, NEW op \in [0 .. 2 -> Int], semop(p, op)
  PROVE  /\ sem' \in [0 .. 2 -> Int] /\ \A i \in 0 .. 2 : sem'[i] = sem[i] + op[i]
         /\ adj' \in [Proc -> [0 .. 2 -> Int]]
         /\ \A i \in 0 .. 2 : adj'[p][i] = adj[p][i] - op[i]
         /\ \A q \in Proc \ {p} : adj'[q] = adj[q]
         /\ key' = key /\ count' = count
  BY DEF semop, TypeOK

\* A lemma and not a step of each proof: at most one element is added or removed.
LEMMA Finite ==
  /\ \A L : IsFiniteSet(Those(L)) /\ Cardinality(Those(L)) \in Nat
  /\ Holders \subseteq Users /\ Users \cap InSection = {}
  /\ Cardinality(Holders) <= Cardinality(Users)
  /\ Cardinality(Users) < BIGCOUNT /\ BIGCOUNT \in Nat
  <1>1. ASSUME NEW L PROVE /\ IsFiniteSet(Those(L)) /\ Cardinality(Those(L)) \in Nat
                           /\ Cardinality(Those(L)) <= Cardinality(Proc)
    BY FS_Subset, FS_CardinalityType, SemaphAssumption DEF Those
  <1>2. Holders \subseteq Users /\ Users \cap InSection = {}
    BY DEF Holders, Users, InSection, Those
  <1>3. IsFiniteSet(Users) /\ Cardinality(Users) <= Cardinality(Proc)
    BY <1>1 DEF Users
  <1>4. Cardinality(Holders) <= Cardinality(Users)
    BY <1>2, <1>3, FS_Subset
  <1> QED BY <1>1, <1>2, <1>3, <1>4, SemaphAssumption, FS_CardinalityType DEF BIGCOUNT

LEMMA OneMore ==
  ASSUME NEW S, IsFiniteSet(S), NEW x
  PROVE  /\ x \notin S => Cardinality(S \cup {x}) = Cardinality(S) + 1
         /\ x \in S => Cardinality(S \ {x}) = Cardinality(S) - 1
         /\ Cardinality(S) = 0 <=> S = {}
         /\ x \in S => Cardinality(S) >= 1
         /\ x \in S /\ Cardinality(S) <= 1 => S = {x}
  <1>1. Cardinality(S) \in Nat /\ (Cardinality(S) = 0 <=> S = {})
    BY FS_CardinalityType, FS_EmptySet
  <1>2. x \notin S => Cardinality(S \cup {x}) = Cardinality(S) + 1
    BY FS_AddElement
  <1>3. x \in S => Cardinality(S \ {x}) = Cardinality(S) - 1
    BY FS_RemoveElement
  <1>4. IsFiniteSet(S \ {x}) /\ (Cardinality(S \ {x}) = 0 => S \ {x} = {})
    BY FS_Subset, FS_EmptySet
  <1> QED BY <1>1, <1>2, <1>3, <1>4

-----------------------------------------------------------------------------
(* Types: no value ever gets negative, with operations undone and without.     *)

LEMMA UndoType ==
  ASSUME TypeOK, NEW p \in Proc, undo(p)
  PROVE  sem' \in [0 .. 2 -> Nat] /\ adj' \in [Proc -> [0 .. 2 -> Int]]
  BY DEF undo, TypeOK, None3

LEMMA SemgetType ==
  ASSUME TypeOK, NEW p \in Proc, semget(p)
  PROVE  /\ key' \in 0 .. MaxSets /\ count' \in 0 .. MaxSets
         /\ sem' \in [0 .. 2 -> Nat] /\ adj' \in [Proc -> [0 .. 2 -> Int]]
         /\ id' \in [Proc -> 0 .. MaxSets]
  BY SemaphAssumption DEF semget, TypeOK, None3, kernel

LEMMA SetvalType ==
  ASSUME TypeOK, NEW n \in 0 .. 2, NEW v \in Nat, SETVAL(n, v)
  PROVE  sem' \in [0 .. 2 -> Nat] /\ adj' \in [Proc -> [0 .. 2 -> Int]]
  BY DEF SETVAL, TypeOK

LEMMA StepType ==
  ASSUME TypeOK, NEW p \in Proc,
         \/ CallCreate(p) \/ Creates(p) \/ OpenGet(p) \/ Open(p) \/ CloseLock(p) \/ Closes(p)
         \/ sem_wait(p) \/ sem_signal(p) \/ Fails(p) \/ Exits(p)
  PROVE  TypeOK'
  <1> USE DEF PC, At, Goto, kernel
  <1>1. ASSUME NEW op \in [0 .. 2 -> Int], Proceeds(op), semop(p, op)
        PROVE  /\ sem' \in [0 .. 2 -> Nat] /\ adj' \in [Proc -> [0 .. 2 -> Int]]
               /\ key' = key /\ count' = count
    BY <1>1, Semop DEF Proceeds, TypeOK
  <1>2. TypeOK => Proceeds(op_lock) /\ Proceeds(op_close) /\ Proceeds(op_op(1))
    BY Operations DEF Proceeds, TypeOK
  <1>3. CASE CallCreate(p)
    BY <1>3 DEF CallCreate, TypeOK
  <1>4. CASE CreateGet(p)
    BY <1>4, SemgetType DEF CreateGet, TypeOK
  <1>5. CASE CreateLock(p)
    BY <1>5, <1>1, <1>2, Operations DEF CreateLock, TypeOK
  <1>6. CASE CreateBlocks(p) \/ CreateAgain(p)
    BY <1>6 DEF CreateBlocks, CreateAgain, TypeOK
  <1>7. CASE CreateFails(p)
    BY <1>7, UndoType DEF CreateFails, TypeOK, undo
  <1>8. CASE CreateGetval(p)
    BY <1>8 DEF CreateGetval, TypeOK
  <1>9. CASE CreateSet0(p)
    BY <1>9, SetvalType, SemaphAssumption DEF CreateSet0, TypeOK, SETVAL
  <1>10. CASE CreateSet1(p)
    <2>1. BIGCOUNT \in Nat
      BY DEF BIGCOUNT
    <2> QED BY <1>10, <2>1, SetvalType DEF CreateSet1, TypeOK, SETVAL
  <1>11. CASE CreateEnd(p)
    BY <1>11, <1>1, Operations DEF CreateEnd, TypeOK
  <1>12. CASE OpenGet(p)
    BY <1>12 DEF OpenGet, TypeOK
  <1>13. CASE Open(p)
    BY <1>13, <1>1, Operations DEF Open, TypeOK
  <1>14. CASE CloseLock(p)
    BY <1>14, <1>1, <1>2, Operations DEF CloseLock, TypeOK
  <1>15. CASE CloseGetval(p)
    BY <1>15 DEF CloseGetval, TypeOK
  <1>16. CASE sem_rm(p)
    BY <1>16, SemaphAssumption DEF sem_rm, TypeOK, None3
  <1>17. CASE CloseUnlock(p)
    BY <1>17, <1>1, Operations, SemaphAssumption DEF CloseUnlock, TypeOK
  <1>18. CASE sem_wait(p)
    BY <1>18, <1>1, Operations DEF sem_wait, TypeOK
  <1>19. CASE sem_signal(p)
    BY <1>19, <1>1, <1>2, Operations DEF sem_signal, TypeOK
  <1>20. CASE Fails(p)
    BY <1>20, UndoType DEF Fails, TypeOK, undo
  <1>21. CASE Exits(p)
    <2>1. exits' \in 0 .. MaxExits /\ id' \in [Proc -> 0 .. MaxSets]
      BY <1>21, SemaphAssumption DEF Exits, TypeOK
    <2>2. sem' \in [0 .. 2 -> Nat] /\ adj' \in [Proc -> [0 .. 2 -> Int]]
      BY <1>21, UndoType DEF Exits
    <2>3. pc' \in [Proc -> PC] /\ semval' \in [Proc -> Nat] /\ key' = key /\ count' = count
      BY <1>21 DEF Exits, TypeOK, undo
    <2> QED BY <2>1, <2>2, <2>3 DEF TypeOK
  <1> QED BY <1>3, <1>4, <1>5, <1>6, <1>7, <1>8, <1>9, <1>10, <1>11, <1>12, <1>13, <1>14, <1>15,
             <1>16, <1>17, <1>18, <1>19, <1>20, <1>21 DEF Creates, Closes

-----------------------------------------------------------------------------
(* Identifiers                                                                *)

LEMMA StepIdentified ==
  ASSUME SInv, NEW p \in Proc,
         \/ CallCreate(p) \/ Creates(p) \/ OpenGet(p) \/ Open(p) \/ CloseLock(p) \/ Closes(p)
         \/ sem_wait(p) \/ sem_signal(p) \/ Fails(p) \/ Exits(p)
  PROVE  Identified'
  <1> USE DEF SInv, TypeOK, At, Goto, Valid, kernel
  <1>1. Identified
    OBVIOUS
  <1>2. CASE CreateGet(p)
    BY <1>1, <1>2, SMTT(60) DEF CreateGet, semget, Identified
  <1>3. CASE sem_rm(p)
    BY <1>1, <1>3 DEF sem_rm, Identified
  <1>4. CASE CallCreate(p) \/ OpenGet(p)
    BY <1>1, <1>4, ZenonT(60) DEF CallCreate, OpenGet, Identified
  <1>5. CASE Exits(p)
    BY <1>1, <1>5 DEF Exits, undo, Identified
  <1>6. CASE CloseUnlock(p)
    BY <1>1, <1>6 DEF CloseUnlock, semop, Identified
  <1>7. CASE CreateFails(p) \/ Fails(p)
    BY <1>1, <1>7 DEF CreateFails, Fails, undo, Identified
  <1>8. CASE CreateAgain(p)
    BY <1>1, <1>8 DEF CreateAgain, Identified
  <1>9. CASE CreateLock(p) \/ CreateBlocks(p) \/ CreateEnd(p) \/ Open(p) \/ CloseLock(p)
             \/ sem_wait(p) \/ sem_signal(p)
    BY <1>1, <1>9, SMTT(60)
       DEF CreateLock, CreateBlocks, CreateEnd, Open, CloseLock, sem_wait, sem_signal,
           semop, Identified
  <1>10. CASE CreateGetval(p) \/ CreateSet0(p) \/ CreateSet1(p)
    BY <1>1, <1>10 DEF CreateGetval, CreateSet0, CreateSet1, SETVAL, Identified
  <1>11. CASE CloseGetval(p)
    <2>1. sem[1] <= BIGCOUNT
      BY Finite DEF Valued, Users, BIGCOUNT
    <2> QED BY <1>1, <1>11, <2>1 DEF CloseGetval, Identified, BIGCOUNT
  <1> QED BY <1>2, <1>3, <1>4, <1>5, <1>6, <1>7, <1>8, <1>9, <1>10, <1>11 DEF Creates, Closes

-----------------------------------------------------------------------------
(* Values.  What an action does to the three sets comes first, then what      *)
(* follows for the values.                                                    *)

NumberInv == Undone /\ Valued /\ Staged /\ Attended

\* The section has one process at most, and the values say what it knows.
LEMMA Alone ==
  ASSUME SInv
  PROVE  /\ sem[2] = 0 <=> InSection = {}
         /\ \A p \in InSection : InSection = {p} /\ sem[2] = 1
         /\ sem[1] # 0 <=> Users # {} \/ sem[1] = BIGCOUNT
         /\ Users # {} => sem[1] # 0
         /\ \A L : Those(L) \subseteq Proc
         /\ Those({"set0", "set1"}) \subseteq InSection /\ Those({"set1"}) \subseteq InSection
         /\ Those({"endcreate", "closeval", "rm", "unlock"}) \subseteq InSection
         /\ Those({"rm"}) \subseteq InSection /\ Those({"unlock"}) \subseteq InSection
  <1>1. IsFiniteSet(InSection) /\ IsFiniteSet(Users)
    BY Finite DEF InSection, Users
  <1>2. (sem[2] = 0 <=> InSection = {}) /\ \A p \in InSection : InSection = {p} /\ sem[2] = 1
    <2>1. sem[2] = Cardinality(InSection) /\ sem[2] <= 1 /\ Cardinality(InSection) \in Nat
      BY <1>1, FS_CardinalityType DEF SInv, Valued
    <2>2. Cardinality(InSection) = 0 <=> InSection = {}
      BY <1>1, FS_EmptySet
    <2>3. ASSUME NEW p \in InSection PROVE InSection = {p} /\ sem[2] = 1
      <3>1. Cardinality(InSection) >= 1
        BY <1>1, <2>3, OneMore
      <3>2. Cardinality(InSection) <= 1
        BY <2>1
      <3>3. InSection = {p}
        BY <1>1, <2>3, <3>2, OneMore
      <3> QED BY <2>1, <3>1, <3>3
    <2> QED BY <2>1, <2>2, <2>3
  <1>3. (sem[1] # 0 <=> Users # {} \/ sem[1] = BIGCOUNT) /\ (Users # {} => sem[1] # 0)
    BY <1>1, Finite, FS_EmptySet DEF SInv, Valued, BIGCOUNT
  <1> QED BY <1>2, <1>3 DEF Those, InSection

LEMMA Waiting ==
  ASSUME SInv, NEW p \in Proc,
         CallCreate(p) \/ CreateBlocks(p) \/ CreateAgain(p) \/ OpenGet(p)
  PROVE  NumberInv'
  <1> USE DEF SInv, At, Goto, kernel
  <1>1. UNCHANGED kernel /\ exits' = exits
    BY DEF CallCreate, CreateBlocks, CreateAgain, OpenGet
  <1>2. \A L : \/ L \cap {"idle", "get", "lock", "blocked", "opening"} # {}
               \/ Those(L)' = Those(L)
    BY DEF CallCreate, CreateBlocks, CreateAgain, OpenGet, Those, Valid, TypeOK
  <1>3. Users' = Users /\ Holders' = Holders /\ InSection' = InSection
    BY <1>2 DEF Users, Holders, InSection
  <1>4. Undone' /\ Valued'
    BY <1>1, <1>3 DEF Undone, Valued
  <1>5. Staged'
    BY <1>1, <1>2, <1>3 DEF Staged
  <1>6. Attended'
    <2>1. Those({"unlock"})' = Those({"unlock"})
      BY <1>2
    <2>2. ASSUME key # 0, \E q \in Proc : Valid(q) PROVE \E q \in Proc : Valid(q)'
      <3>1. PICK q \in Proc : Valid(q)
        BY <2>2
      <3>2. Valid(q)'
        BY <3>1, <2>2 DEF CallCreate, CreateBlocks, CreateAgain, OpenGet, Valid, TypeOK, Identified
      <3> QED BY <3>2
    <2> QED BY <1>1, <1>3, <2>1, <2>2 DEF Attended
  <1> QED BY <1>4, <1>5, <1>6 DEF NumberInv

\* Where a step to label l leaves the sets, for a process on the current set.
LEMMA Moves ==
  ASSUME TypeOK, NEW p \in Proc, NEW l, key' = key, pc' = [pc EXCEPT ![p] = l],
         Valid(p), id' = id
  PROVE  /\ Users' = IF l \in {"open", "critical"} THEN Users \cup {p} ELSE Users \ {p}
         /\ Holders' = IF l = "critical" THEN Holders \cup {p} ELSE Holders \ {p}
         /\ InSection' = IF l \in {"getval", "set0", "set1", "endcreate", "closeval", "rm", "unlock"}
                           THEN InSection \cup {p} ELSE InSection \ {p}
         /\ \A L : Those(L)' = IF l \in L THEN Those(L) \cup {p} ELSE Those(L) \ {p}
         /\ p \in Users <=> pc[p] \in {"open", "critical"}
         /\ p \in Holders <=> pc[p] = "critical"
         /\ p \in InSection
              <=> pc[p] \in {"getval", "set0", "set1", "endcreate", "closeval", "rm", "unlock"}
         /\ \A q \in Proc : Valid(q)' <=> Valid(q)
  <1>1. \A L : Those(L)' = IF l \in L THEN Those(L) \cup {p} ELSE Those(L) \ {p}
    BY DEF TypeOK, Those, Valid
  <1>2. \A L : p \in Those(L) <=> pc[p] \in L
    BY DEF Those
  <1>3. Users' = IF l \in {"open", "critical"} THEN Users \cup {p} ELSE Users \ {p}
    BY <1>1 DEF Users
  <1>4. Holders' = IF l = "critical" THEN Holders \cup {p} ELSE Holders \ {p}
    <2>1. l = "critical" <=> l \in {"critical"}
      OBVIOUS
    <2> QED BY <1>1, <2>1 DEF Holders
  <1>5. InSection' = IF l \in {"getval", "set0", "set1", "endcreate", "closeval", "rm", "unlock"}
                       THEN InSection \cup {p} ELSE InSection \ {p}
    BY <1>1 DEF InSection
  <1>6. /\ p \in Users <=> pc[p] \in {"open", "critical"}
        /\ p \in Holders <=> pc[p] = "critical"
        /\ p \in InSection
             <=> pc[p] \in {"getval", "set0", "set1", "endcreate", "closeval", "rm", "unlock"}
    BY <1>2 DEF Users, Holders, InSection
  <1>7. \A q \in Proc : Valid(q)' <=> Valid(q)
    BY DEF Valid
  <1> QED BY <1>1, <1>3, <1>4, <1>5, <1>6, <1>7

LEMMA Locking ==
  ASSUME SInv, NEW p \in Proc, CreateLock(p)
  PROVE  NumberInv'
  <1> USE DEF SInv
  <1>1. /\ Valid(p) /\ pc[p] \in {"lock", "blocked"} /\ sem[2] = 0 /\ exits' = exits /\ id' = id
        /\ pc' = [pc EXCEPT ![p] = "getval"] /\ semop(p, op_lock)
    BY DEF CreateLock, At, Goto, Unlocked
  <1>2. /\ sem'[0] = sem[0] /\ sem'[1] = sem[1] /\ sem'[2] = sem[2] + 1
        /\ key' = key
        /\ \A i \in 0 .. 2 : adj'[p][i] = adj[p][i] - op_lock[i]
        /\ \A q \in Proc \ {p} : adj'[q] = adj[q]
    BY <1>1, Semop, Operations DEF TypeOK
  <1>3. InSection = {}
    BY <1>1, Alone
  <1>0. TypeOK /\ Valid(p) /\ id' = id /\ key' = key /\ pc' = [pc EXCEPT ![p] = "getval"]
    BY <1>1, <1>2
  <1>4. Users' = Users /\ Holders' = Holders /\ InSection' = {p} /\ p \notin Users /\ p \notin Holders
    <2>1. Users' = Users \ {p} /\ Holders' = Holders \ {p} /\ InSection' = InSection \cup {p}
      BY <1>0, Moves
    <2>2. p \notin Users /\ p \notin Holders
      BY <1>1 DEF Users, Holders, Those
    <2> QED BY <1>3, <2>1, <2>2
  <1>5. Undone'
    BY <1>2, <1>3, <1>4, Operations DEF Undone
  <1>6. Valued'
    <2>1. Cardinality({p}) = 1
      BY FS_Singleton
    <2>2. key # 0
      BY <1>1 DEF Identified, Valid
    <2> QED BY <1>1, <1>2, <1>4, <2>1, <2>2 DEF Valued
  <1>7. \A L : "getval" \notin L /\ Those(L) \subseteq InSection => Those(L)' = {}
    <2>1. \A L : "getval" \notin L => Those(L)' = Those(L) \ {p}
      BY <1>0 DEF TypeOK, Those, Valid
    <2> QED BY <1>3, <2>1
  <1>8. Staged'
    BY <1>7, Alone DEF Staged
  <1>9. Attended'
    <2>1. Those({"unlock"})' = {} /\ Valid(p)'
      BY <1>1, <1>2, <1>7, Alone DEF Valid
    <2> QED BY <2>1 DEF Attended
  <1> QED BY <1>5, <1>6, <1>8, <1>9 DEF NumberInv

\* A step within the section: what it finds or sets is all that changes.
LEMMA Inside ==
  ASSUME SInv, NEW p \in InSection, NEW l \in {"set0", "set1", "endcreate", "rm", "unlock"},
         pc' = [pc EXCEPT ![p] = l], id' = id, key' = key, exits' = exits,
         sem' \in [0 .. 2 -> Int], sem'[2] = sem[2],
         \A q \in Proc : \A i \in 0 .. 2 : adj'[q][i] = adj[q][i],
         \/ sem'[1] = sem[1] /\ (sem[1] # 0 => sem'[0] = sem[0])
         \/ sem[1] = 0 /\ sem'[1] = BIGCOUNT /\ sem'[0] = initval,
         l \in {"set0", "set1"} => sem'[1] = 0,
         l = "set1" => sem'[0] = initval,
         l \in {"endcreate", "rm", "unlock"} => sem'[1] # 0,
         l = "rm" => Users \subseteq Openers,
         l = "unlock" => Users # {}
  PROVE  NumberInv'
  <1> USE DEF SInv
  <1>1. p \in Proc /\ Valid(p) /\ key # 0 /\ InSection = {p}
        /\ pc[p] \in {"getval", "set0", "set1", "endcreate", "closeval", "rm", "unlock"}
    BY Alone DEF InSection, Those, Identified, Valid
  <1> DEFINE Section == {"getval", "set0", "set1", "endcreate", "closeval", "rm", "unlock"}
  <1>2. Users' = Users /\ Holders' = Holders /\ InSection' = InSection
    <2>1. p \notin Users /\ p \notin Holders
      BY <1>1, Finite
    <2>2. l \in Section /\ l \notin {"open", "critical"} /\ l # "critical"
      OBVIOUS
    <2>3. Users' = Users \ {p} /\ Holders' = Holders \ {p} /\ InSection' = InSection \cup {p}
      BY <1>1, <2>2, Moves
    <2> QED BY <2>1, <2>3
  <1>3. Undone'
    BY <1>2 DEF Undone
  <1>4. Valued'
    <2>1. CASE sem'[1] = sem[1]
      BY <1>1, <1>2, <2>1 DEF Valued
    <2>2. CASE sem[1] = 0 /\ sem'[1] = BIGCOUNT /\ sem'[0] = initval
      <3>1. Users = {} /\ Holders = {}
        BY <2>2, Finite DEF Valued
      <3>2. Cardinality(Users) = 0 /\ Cardinality(Holders) = 0
        BY <3>1, FS_EmptySet
      <3> QED BY <1>1, <1>2, <2>2, <3>1, <3>2, SemaphAssumption DEF Valued, BIGCOUNT
    <2> QED BY <2>1, <2>2
  <1>5. \A L : l \notin L /\ Those(L) \subseteq InSection => Those(L)' = {}
    <2>1. \A L : l \notin L => Those(L)' = Those(L) \ {p}
      BY <1>1, Moves
    <2> QED BY <1>1, <2>1
  <1>6. Staged'
    BY <1>2, <1>5, Alone DEF Staged
  <1>7. Attended'
    <2>1. Valid(p)' /\ (l # "unlock" => Those({"unlock"})' = {})
      BY <1>1, <1>5, Alone DEF Valid
    <2> QED BY <1>1, <1>2, <2>1 DEF Attended
  <1> QED BY <1>3, <1>4, <1>6, <1>7 DEF NumberInv

LEMMA Setting ==
  ASSUME SInv, NEW p \in Proc,
         CreateGetval(p) \/ CreateSet0(p) \/ CreateSet1(p) \/ CloseGetval(p)
  PROVE  NumberInv'
  <1> USE DEF SInv, At, Goto
  <1>1. p \in InSection /\ id' = id /\ exits' = exits
    BY DEF CreateGetval, CreateSet0, CreateSet1, CloseGetval, InSection, Those
  <1>2. InSection = {p}
    BY <1>1, Alone
  <1>3. p \in Those({pc[p]})
    BY <1>1 DEF InSection, Those
  <1>4. IsFiniteSet(Users) /\ Cardinality(Users) \in Nat /\ (Cardinality(Users) = 0 <=> Users = {})
    BY Finite, FS_EmptySet DEF Users
  <1>5. CASE CreateGetval(p)
    <2>1. UNCHANGED <<key, sem, adj>>
      BY <1>5 DEF CreateGetval, kernel
    <2>2. PICK l \in {"set0", "endcreate"} :
            pc' = [pc EXCEPT ![p] = l] /\ (l = "set0" <=> sem[1] = 0)
      BY <1>5 DEF CreateGetval, NotSetUp
    <2>3. /\ sem' \in [0 .. 2 -> Int] /\ key' = key /\ sem'[2] = sem[2] /\ sem'[1] = sem[1]
          /\ sem'[0] = sem[0] /\ \A q \in Proc : \A i \in 0 .. 2 : adj'[q][i] = adj[q][i]
      BY <2>1 DEF TypeOK
    <2>4. /\ l \in {"set0", "set1", "endcreate", "rm", "unlock"}
          /\ l # "set1" /\ l # "rm" /\ l # "unlock"
          /\ l \in {"set0", "set1"} => sem'[1] = 0
          /\ l \in {"endcreate", "rm", "unlock"} => sem'[1] # 0
      BY <2>2, <2>3
    <2> QED BY <1>1, <2>2, <2>3, <2>4, Inside
  <1>6. CASE CreateSet0(p)
    <2>1. pc[p] = "set0" /\ pc' = [pc EXCEPT ![p] = "set1"] /\ SETVAL(0, initval)
      BY <1>6 DEF CreateSet0
    <2>2. sem[1] = 0 /\ Users = {} /\ Holders = {}
      BY <1>3, <2>1, Finite DEF Staged, Valued, Those
    <2>3. /\ key' = key /\ sem' \in [0 .. 2 -> Int]
          /\ sem'[0] = initval /\ sem'[1] = sem[1] /\ sem'[2] = sem[2]
      BY <2>1, SemaphAssumption DEF SETVAL, TypeOK
    <2>4. \A q \in Proc : adj[q][0] = 0
      BY <2>2 DEF Undone
    <2>5. \A q \in Proc : \A i \in 0 .. 2 : adj'[q][i] = adj[q][i]
      BY <2>1, <2>4 DEF SETVAL, TypeOK
    <2> QED BY <1>1, <2>1, <2>2, <2>3, <2>5, Inside
  <1>7. CASE CreateSet1(p)
    <2>1. pc[p] = "set1" /\ pc' = [pc EXCEPT ![p] = "endcreate"] /\ SETVAL(1, BIGCOUNT)
      BY <1>7 DEF CreateSet1
    <2>2. sem[1] = 0 /\ sem[0] = initval /\ Users = {}
      BY <1>3, <2>1 DEF Staged, Valued, Those
    <2>3. /\ key' = key /\ sem' \in [0 .. 2 -> Int]
          /\ sem'[0] = initval /\ sem'[1] = BIGCOUNT /\ sem'[2] = sem[2] /\ BIGCOUNT # 0
      BY <2>1, <2>2, SemaphAssumption DEF SETVAL, TypeOK, BIGCOUNT
    <2>4. \A q \in Proc : adj[q][1] = 0
      BY <2>2 DEF Undone
    <2>5. \A q \in Proc : \A i \in 0 .. 2 : adj'[q][i] = adj[q][i]
      BY <2>1, <2>4 DEF SETVAL, TypeOK
    <2> QED BY <1>1, <2>1, <2>2, <2>3, <2>5, Inside
  <1>8. CASE CloseGetval(p)
    <2>1. UNCHANGED <<key, sem, adj>> /\ pc[p] = "closeval"
      BY <1>8 DEF CloseGetval, kernel
    <2>2. sem[1] # 0
      BY <1>3, <2>1 DEF Staged, Those
    <2>3. sem[1] = BIGCOUNT - Cardinality(Users) /\ BIGCOUNT \in Nat
      BY <2>2 DEF Valued, BIGCOUNT
    <2>a. ~(sem[1] > BIGCOUNT)
      BY <1>4, <2>3
    <2> DEFINE l == IF sem[1] = BIGCOUNT THEN "rm" ELSE "unlock"
    <2>4. pc' = [pc EXCEPT ![p] = l]
      BY <1>8, <2>a DEF CloseGetval, LastOne
    <2>5. (l = "rm" => Users = {}) /\ (l = "unlock" => Users # {})
      BY <1>4, <2>3
    <2>6. /\ sem' \in [0 .. 2 -> Int] /\ key' = key /\ sem'[2] = sem[2] /\ sem'[1] = sem[1]
          /\ sem'[0] = sem[0] /\ \A q \in Proc : \A i \in 0 .. 2 : adj'[q][i] = adj[q][i]
      BY <2>1 DEF TypeOK
    <2>7. /\ l \in {"set0", "set1", "endcreate", "rm", "unlock"}
          /\ l # "set0" /\ l # "set1"
          /\ l = "rm" => Users \subseteq Openers
      BY <2>5
    <2> HIDE DEF l
    <2> QED BY <1>1, <2>2, <2>4, <2>5, <2>6, <2>7, Inside
  <1> QED BY <1>5, <1>6, <1>7, <1>8

LEMMA Getting ==
  ASSUME SInv, NEW p \in Proc, CreateGet(p)
  PROVE  NumberInv'
  <1> USE DEF SInv, At, Goto
  <1>1. pc[p] = "get" /\ pc' = [pc EXCEPT ![p] = "lock"] /\ exits' = exits /\ semget(p)
    BY DEF CreateGet
  <1>2. CASE key # 0
    <2>1. UNCHANGED <<key, sem, adj>> /\ id' = [id EXCEPT ![p] = key]
      BY <1>1, <1>2 DEF semget, kernel
    <2>2. \A L : "get" \in L \/ "lock" \in L \/ Those(L)' = Those(L)
      BY <1>1, <2>1 DEF Those, Valid, TypeOK
    <2>3. Users' = Users /\ Holders' = Holders /\ InSection' = InSection
      BY <2>2 DEF Users, Holders, InSection
    <2>4. Undone' /\ Valued'
      BY <2>1, <2>3 DEF Undone, Valued
    <2>5. Staged'
      BY <2>1, <2>2, <2>3 DEF Staged
    <2>6. Valid(p)'
      BY <2>1 DEF Valid, TypeOK
    <2>7. Those({"unlock"})' = Those({"unlock"})
      BY <2>2
    <2>8. Attended'
      BY <1>1, <2>3, <2>6, <2>7 DEF Attended
    <2> QED BY <2>4, <2>5, <2>8 DEF NumberInv
  <1>3. CASE key = 0
    <2>1. /\ key' = count + 1 /\ id' = [id EXCEPT ![p] = count + 1]
          /\ sem' = None3 /\ adj' = [q \in Proc |-> None3]
      BY <1>1, <1>3 DEF semget
    <2>2. \A L : "lock" \in L \/ Those(L)' = {}
      BY <1>1, <2>1 DEF Those, Valid, TypeOK, Identified
    <2>3. Users' = {} /\ Holders' = {} /\ InSection' = {}
      BY <2>2 DEF Users, Holders, InSection
    <2>4. sem'[0] = 0 /\ sem'[1] = 0 /\ sem'[2] = 0 /\ key' # 0
      BY <2>1 DEF None3, TypeOK
    <2>5. Undone'
      BY <2>1, <2>3 DEF Undone, None3
    <2>6. Valued'
      BY <2>3, <2>4, FS_EmptySet DEF Valued
    <2>7. Staged' /\ Those({"unlock"})' = {}
      BY <2>2, <2>4 DEF Staged
    <2>8. Valid(p)'
      BY <2>1 DEF Valid, TypeOK
    <2>9. Attended'
      BY <2>7, <2>8 DEF Attended
    <2> QED BY <2>5, <2>6, <2>7, <2>9 DEF NumberInv
  <1> QED BY <1>2, <1>3

-----------------------------------------------------------------------------
(* An operation of process p, or what undoes it, adds to the values what the  *)
(* move of p to or from the sets takes.                                       *)

In(p, S) == IF p \in S THEN 1 ELSE 0

OnlyMoves(p) == /\ Users' \ {p} = Users \ {p}
                /\ Holders' \ {p} = Holders \ {p}
                /\ InSection' \ {p} = InSection \ {p}

LEMMA Balance ==
  ASSUME NEW S, NEW T, NEW p, IsFiniteSet(S), T \ {p} = S \ {p}
  PROVE  Cardinality(T) = Cardinality(S) + In(p, T) - In(p, S)
  <1>1. Cardinality(S) \in Nat
    BY FS_CardinalityType
  <1>2. CASE p \in T <=> p \in S
    <2>1. T = S
      BY <1>2
    <2> QED BY <1>1, <2>1 DEF In
  <1>3. CASE p \in T /\ p \notin S
    <2>1. T = S \cup {p}
      BY <1>3
    <2>2. Cardinality(T) = Cardinality(S) + 1
      BY <1>3, <2>1, FS_AddElement
    <2> QED BY <1>1, <1>3, <2>2 DEF In
  <1>4. CASE p \notin T /\ p \in S
    <2>1. T = S \ {p}
      BY <1>4
    <2>2. Cardinality(T) = Cardinality(S) - 1
      BY <1>4, <2>1, FS_RemoveElement
    <2> QED BY <1>1, <1>4, <2>2 DEF In
  <1> QED BY <1>2, <1>3, <1>4

LEMMA Operate ==
  ASSUME SInv, NEW p \in Proc, NEW op \in [0 .. 2 -> Int], OnlyMoves(p),
         \A i \in 0 .. 2 : sem'[i] = sem[i] + op[i],
         \A i \in 0 .. 2 : adj'[p][i] = adj[p][i] - op[i],
         \A q \in Proc \ {p} : adj'[q] = adj[q],
         key' = key, key = 0 => sem' = None3,
         op[0] = In(p, Holders) - In(p, Holders'),
         op[1] = In(p, Users) - In(p, Users'),
         op[2] = In(p, InSection') - In(p, InSection),
         sem[1] # 0 \/ (op[0] = 0 /\ op[1] = 0),
         p \in InSection' => InSection \subseteq {p}
  PROVE  Undone' /\ Valued' /\ (sem'[1] = 0 <=> sem[1] = 0)
  <1>1. /\ Cardinality(Users') = Cardinality(Users) - op[1]
        /\ Cardinality(Holders') = Cardinality(Holders) - op[0]
        /\ Cardinality(InSection') = Cardinality(InSection) + op[2]
    <2>1. /\ Cardinality(Users) \in Nat /\ Cardinality(Holders) \in Nat
          /\ Cardinality(InSection) \in Nat
          /\ IsFiniteSet(Users) /\ IsFiniteSet(Holders) /\ IsFiniteSet(InSection)
      BY Finite DEF Users, Holders, InSection
    <2>2. Cardinality(Users') = Cardinality(Users) + In(p, Users') - In(p, Users)
      BY <2>1, Balance DEF OnlyMoves
    <2>3. Cardinality(Holders') = Cardinality(Holders) + In(p, Holders') - In(p, Holders)
      BY <2>1, Balance DEF OnlyMoves
    <2>4. Cardinality(InSection') = Cardinality(InSection) + In(p, InSection') - In(p, InSection)
      BY <2>1, Balance DEF OnlyMoves
    <2>5. \A S : In(p, S) \in Int
      BY DEF In
    <2> QED BY <2>1, <2>2, <2>3, <2>4, <2>5
  <1>2. Undone'
    <2>1. /\ adj[p][0] = In(p, Holders) /\ adj[p][1] = In(p, Users)
          /\ adj[p][2] = 0 - In(p, InSection)
      BY DEF SInv, Undone, In
    <2>2. \A S : In(p, S) \in Int
      BY DEF In
    <2>3. /\ adj'[p][0] = In(p, Holders') /\ adj'[p][1] = In(p, Users')
          /\ adj'[p][2] = 0 - In(p, InSection')
      BY <2>1, <2>2
    <2>4. \A q \in Proc \ {p} : /\ q \in Holders' <=> q \in Holders
                                /\ q \in Users' <=> q \in Users
                                /\ q \in InSection' <=> q \in InSection
      BY DEF OnlyMoves
    <2>5. \A q \in Proc \ {p} : /\ adj'[q][0] = IF q \in Holders' THEN 1 ELSE 0
                                /\ adj'[q][1] = IF q \in Users' THEN 1 ELSE 0
                                /\ adj'[q][2] = IF q \in InSection' THEN -1 ELSE 0
      BY <2>4 DEF SInv, Undone
    <2> QED BY <2>3, <2>5 DEF Undone, In
  <1>3. Valued' /\ (sem'[1] = 0 <=> sem[1] = 0)
    <2>1. /\ Cardinality(Users') < BIGCOUNT /\ BIGCOUNT \in Nat
          /\ Cardinality(Users) \in Nat /\ Cardinality(Users') \in Nat
          /\ Cardinality(Holders) \in Nat /\ Cardinality(InSection) \in Nat
      <3>1. \A L : Those(L)' \subseteq Proc
        BY DEF Those
      <3>2. Users' \subseteq Proc
        BY <3>1 DEF Users
      <3>3. IsFiniteSet(Users') /\ Cardinality(Users') <= Cardinality(Proc)
        BY <3>2, FS_Subset, SemaphAssumption
      <3> QED BY <3>3, Finite, FS_CardinalityType, SemaphAssumption
              DEF Users, Holders, InSection, BIGCOUNT
    <2>2. sem[0] \in Int /\ sem[1] \in Int /\ sem[2] \in Int
      BY DEF SInv, TypeOK
    <2>3. sem'[2] = Cardinality(InSection')
      BY <1>1, <2>1, <2>2 DEF SInv, Valued
    <2>4. sem'[2] <= 1
      <3>1. CASE p \in InSection'
        <4>1. InSection' = {p}
          BY <3>1 DEF OnlyMoves
        <4>2. Cardinality({p}) = 1
          BY FS_Singleton
        <4> QED BY <2>3, <4>1, <4>2
      <3>2. CASE p \notin InSection'
        <4>1. sem'[2] = sem[2] + op[2] /\ op[2] = 0 - In(p, InSection) /\ sem[2] <= 1
          BY <3>2 DEF SInv, Valued, In
        <4> QED BY <2>2, <4>1 DEF In
      <3> QED BY <3>1, <3>2
    <2>5. CASE sem[1] # 0
      <3>1. sem[1] = BIGCOUNT - Cardinality(Users) /\ sem'[1] = BIGCOUNT - Cardinality(Users')
        BY <1>1, <2>1, <2>2, <2>5 DEF SInv, Valued
      <3>2. sem'[1] # 0
        BY <2>1, <3>1
      <3>3. sem'[0] + Cardinality(Holders') = initval
        BY <1>1, <2>1, <2>2, <2>5, SemaphAssumption DEF SInv, Valued
      <3> QED BY <2>3, <2>4, <2>5, <3>1, <3>2, <3>3 DEF Valued
    <2>6. CASE sem[1] = 0
      <3>1. op[0] = 0 /\ op[1] = 0 /\ sem'[1] = 0
        BY <2>6
      <3>2. Users = {}
        BY <2>6 DEF SInv, Valued
      <3>3. Cardinality(Users') = 0
        BY <1>1, <2>1, <3>1, <3>2, FS_EmptySet
      <3>4. \A L : IsFiniteSet(Those(L)')
        BY FS_Subset, SemaphAssumption DEF Those
      <3>5. Users' = {}
        BY <3>3, <3>4, FS_EmptySet DEF Users
      <3> QED BY <2>3, <2>4, <2>6, <3>1, <3>5 DEF Valued
    <2> QED BY <2>5, <2>6
  <1> QED BY <1>2, <1>3

-----------------------------------------------------------------------------
(* The steps that operate on a set                                            *)

LEMMA Opening ==
  ASSUME SInv, NEW p \in Proc, Open(p)
  PROVE  NumberInv'
  <1> USE DEF SInv, At, Goto
  <1>1. /\ pc[p] = "opening" /\ Valid(p) /\ Proceeds(op_open) /\ semop(p, op_open)
        /\ pc' = [pc EXCEPT ![p] = "open"] /\ id' = id /\ exits' = exits
    BY DEF Open
  <1>2. /\ \A i \in 0 .. 2 : sem'[i] = sem[i] + op_open[i]
        /\ \A i \in 0 .. 2 : adj'[p][i] = adj[p][i] - op_open[i]
        /\ \A q \in Proc \ {p} : adj'[q] = adj[q]
        /\ key' = key /\ key # 0 /\ p \in Openers /\ sem[1] # 0 /\ sem'[0] = sem[0]
    BY <1>1, Semop, Operations DEF Identified, Valid, Proceeds, TypeOK
  <1>3. /\ Users' = Users \cup {p} /\ Holders' = Holders /\ InSection' = InSection
        /\ p \notin Users /\ p \notin Holders /\ p \notin InSection
        /\ \A L : "opening" \in L \/ "open" \in L \/ Those(L)' = Those(L)
    BY <1>1, <1>2 DEF TypeOK, Users, Holders, InSection, Those, Valid
  <1>4. Undone' /\ Valued' /\ sem'[1] # 0
    <2>1. /\ op_open[0] = In(p, Holders) - In(p, Holders')
          /\ op_open[1] = In(p, Users) - In(p, Users')
          /\ op_open[2] = In(p, InSection') - In(p, InSection)
      BY <1>3, Operations DEF In
    <2>2. OnlyMoves(p)
      BY <1>3 DEF OnlyMoves
    <2> QED BY <1>2, <1>3, <2>1, <2>2, Operations, Operate
  <1>5. Staged'
    BY <1>2, <1>3, <1>4 DEF Staged
  <1>6. Attended'
    BY <1>1, <1>2, <1>3 DEF Attended, Valid
  <1> QED BY <1>4, <1>5, <1>6 DEF NumberInv

LEMMA Ending ==
  ASSUME SInv, NEW p \in Proc, CreateEnd(p)
  PROVE  NumberInv'
  <1> USE DEF SInv, At, Goto
  <1>1. /\ pc[p] = "endcreate" /\ Valid(p) /\ semop(p, op_endcreate)
        /\ pc' = [pc EXCEPT ![p] = "open"] /\ id' = id /\ exits' = exits
    BY DEF CreateEnd
  <1>2. /\ \A i \in 0 .. 2 : sem'[i] = sem[i] + op_endcreate[i]
        /\ \A i \in 0 .. 2 : adj'[p][i] = adj[p][i] - op_endcreate[i]
        /\ \A q \in Proc \ {p} : adj'[q] = adj[q]
        /\ key' = key /\ key # 0
    BY <1>1, Semop, Operations, ZenonT(60) DEF Identified, Valid, TypeOK
  <1>3. p \in InSection /\ InSection = {p} /\ sem[1] # 0
    <2>1. p \in InSection /\ p \in Those({"endcreate", "closeval", "rm", "unlock"})
      BY <1>1 DEF InSection, Those
    <2> QED BY <2>1, Alone DEF Staged
  <1>4. /\ Users' = Users \cup {p} /\ Holders' = Holders /\ InSection' = InSection \ {p}
        /\ p \notin Users /\ p \notin Holders
        /\ \A L : "open" \in L \/ Those(L)' = Those(L) \ {p}
    BY <1>1, <1>2 DEF TypeOK, Users, Holders, InSection, Those, Valid
  <1>5. Undone' /\ Valued' /\ sem'[1] # 0
    <2>1. /\ op_endcreate[0] = In(p, Holders) - In(p, Holders')
          /\ op_endcreate[1] = In(p, Users) - In(p, Users')
          /\ op_endcreate[2] = In(p, InSection') - In(p, InSection)
      BY <1>3, <1>4, Operations DEF In
    <2>2. OnlyMoves(p)
      BY <1>4 DEF OnlyMoves
    <2> QED BY <1>2, <1>3, <1>4, <2>1, <2>2, Operations, Operate
  <1>6. \A L : "open" \notin L /\ Those(L) \subseteq InSection => Those(L)' = {}
    BY <1>3, <1>4
  <1>7. Staged'
    BY <1>6, Alone DEF Staged
  <1>8. Attended'
    BY <1>1, <1>2, <1>4 DEF Attended, Valid
  <1> QED BY <1>5, <1>7, <1>8 DEF NumberInv

LEMMA Closing ==
  ASSUME SInv, NEW p \in Proc, CloseLock(p)
  PROVE  NumberInv'
  <1> USE DEF SInv, At, Goto
  <1>1. /\ pc[p] = "open" /\ Valid(p) /\ sem[2] = 0 /\ semop(p, op_close)
        /\ pc' = [pc EXCEPT ![p] = "closeval"] /\ id' = id /\ exits' = exits
    BY DEF CloseLock, Unlocked
  <1>2. /\ \A i \in 0 .. 2 : sem'[i] = sem[i] + op_close[i]
        /\ \A i \in 0 .. 2 : adj'[p][i] = adj[p][i] - op_close[i]
        /\ \A q \in Proc \ {p} : adj'[q] = adj[q]
        /\ key' = key /\ key # 0
    BY <1>1, Semop, Operations, ZenonT(60) DEF Identified, Valid, TypeOK
  <1>3. p \in Users /\ InSection = {} /\ sem[1] # 0
    <2>1. p \in Users
      BY <1>1 DEF Users, Those
    <2> QED BY <1>1, <2>1, Alone
  <1>4. /\ Users' = Users \ {p} /\ Holders' = Holders /\ InSection' = {p} /\ p \notin Holders
        /\ \A L : "closeval" \in L \/ Those(L)' = Those(L) \ {p}
    BY <1>1, <1>2, <1>3 DEF TypeOK, Users, Holders, InSection, Those, Valid
  <1>5. Undone' /\ Valued' /\ sem'[1] # 0
    <2>1. /\ op_close[0] = In(p, Holders) - In(p, Holders')
          /\ op_close[1] = In(p, Users) - In(p, Users')
          /\ op_close[2] = In(p, InSection') - In(p, InSection)
      BY <1>3, <1>4, Operations DEF In
    <2>2. OnlyMoves(p)
      BY <1>3, <1>4 DEF OnlyMoves
    <2> QED BY <1>2, <1>3, <2>1, <2>2, Operations, Operate
  <1>6. \A L : "closeval" \notin L /\ Those(L) \subseteq InSection => Those(L)' = {}
    BY <1>3, <1>4
  <1>7. Staged'
    BY <1>5, <1>6, Alone DEF Staged
  <1>8. Those({"unlock"})' = {}
    BY <1>6, Alone
  <1>9. Attended'
    BY <1>1, <1>2, <1>8 DEF Attended, Valid
  <1> QED BY <1>5, <1>7, <1>9 DEF NumberInv

LEMMA Using ==
  ASSUME SInv, NEW p \in Proc, sem_wait(p) \/ sem_signal(p)
  PROVE  NumberInv'
  <1> USE DEF SInv, At, Goto
  <1> DEFINE v == IF pc[p] = "open" THEN -1 ELSE 1
             l == IF pc[p] = "open" THEN "critical" ELSE "open"
  <1>1. /\ pc[p] \in {"open", "critical"} /\ Valid(p) /\ semop(p, op_op(v))
        /\ pc' = [pc EXCEPT ![p] = l] /\ id' = id /\ exits' = exits
    BY DEF sem_wait, sem_signal
  <1>2. /\ op_op(v) \in [0 .. 2 -> Int] /\ op_op(v)[0] = v /\ op_op(v)[1] = 0 /\ op_op(v)[2] = 0
    BY Operations
  <1>3. /\ \A i \in 0 .. 2 : sem'[i] = sem[i] + op_op(v)[i]
        /\ \A i \in 0 .. 2 : adj'[p][i] = adj[p][i] - op_op(v)[i]
        /\ \A q \in Proc \ {p} : adj'[q] = adj[q]
        /\ key' = key /\ key # 0
    BY <1>1, <1>2, Semop DEF Identified, Valid, TypeOK
  <1>4. p \in Users /\ sem[1] # 0
    <2>1. p \in Users
      BY <1>1 DEF Users, Those
    <2> QED BY <2>1, Alone
  <1>5. /\ Users' = Users /\ InSection' = InSection /\ p \notin InSection
        /\ Holders' \ {p} = Holders \ {p}
        /\ p \in Holders <=> pc[p] = "critical"
        /\ p \in Holders' <=> pc[p] = "open"
        /\ \A L : "open" \in L \/ "critical" \in L \/ Those(L)' = Those(L)
    BY <1>1, <1>3, <1>4 DEF TypeOK, Users, Holders, InSection, Those, Valid
  <1>6. Undone' /\ Valued' /\ sem'[1] # 0
    <2>1. /\ v = In(p, Holders) - In(p, Holders')
          /\ 0 = In(p, Users) - In(p, Users')
          /\ 0 = In(p, InSection') - In(p, InSection)
      BY <1>1, <1>5 DEF In
    <2>2. OnlyMoves(p)
      BY <1>5 DEF OnlyMoves
    <2> HIDE DEF v
    <2> QED BY <1>2, <1>3, <1>4, <1>5, <2>1, <2>2, Operate
  <1>7. Those({"set1"}) = {}
    BY <1>4, Alone DEF Staged, Those
  <1>8. Staged'
    BY <1>4, <1>5, <1>6, <1>7 DEF Staged
  <1>9. Attended'
    BY <1>1, <1>3, <1>4, <1>5 DEF Attended, Valid
  <1> QED BY <1>6, <1>8, <1>9 DEF NumberInv

LEMMA Unlocking ==
  ASSUME SInv, NEW p \in Proc, CloseUnlock(p)
  PROVE  NumberInv'
  <1> USE DEF SInv, At, Goto
  <1>1. /\ pc[p] = "unlock" /\ Valid(p) /\ semop(p, op_unlock)
        /\ pc' = [pc EXCEPT ![p] = "idle"] /\ id' = [id EXCEPT ![p] = 0] /\ exits' = exits
    BY DEF CloseUnlock
  <1>2. /\ \A i \in 0 .. 2 : sem'[i] = sem[i] + op_unlock[i]
        /\ \A i \in 0 .. 2 : adj'[p][i] = adj[p][i] - op_unlock[i]
        /\ \A q \in Proc \ {p} : adj'[q] = adj[q]
        /\ key' = key /\ key # 0
    BY <1>1, Semop, Operations, ZenonT(60) DEF Identified, Valid, TypeOK
  <1>3. p \in Those({"unlock"}) /\ p \in InSection /\ InSection = {p} /\ sem[1] # 0
    <2>1. /\ p \in Those({"unlock"}) /\ p \in InSection
          /\ p \in Those({"endcreate", "closeval", "rm", "unlock"})
      BY <1>1 DEF InSection, Those
    <2> QED BY <2>1, Alone DEF Staged
  <1>4. /\ Users' = Users /\ Holders' = Holders /\ InSection' = InSection \ {p}
        /\ p \notin Users /\ p \notin Holders
        /\ \A L : "idle" \in L \/ Those(L)' = Those(L) \ {p}
    BY <1>1, <1>2 DEF TypeOK, Users, Holders, InSection, Those, Valid
  <1>5. Undone' /\ Valued'
    <2>1. /\ op_unlock[0] = In(p, Holders) - In(p, Holders')
          /\ op_unlock[1] = In(p, Users) - In(p, Users')
          /\ op_unlock[2] = In(p, InSection') - In(p, InSection)
      BY <1>3, <1>4, Operations DEF In
    <2>2. OnlyMoves(p)
      BY <1>4 DEF OnlyMoves
    <2> QED BY <1>2, <1>3, <1>4, <2>1, <2>2, Operations, Operate
  <1>6. \A L : "idle" \notin L /\ Those(L) \subseteq InSection => Those(L)' = {}
    BY <1>3, <1>4
  <1>7. Staged' /\ Those({"unlock"})' = {}
    BY <1>6, Alone DEF Staged
  <1>8. Attended'
    <2>1. ASSUME exits = 0 PROVE \E q \in Proc : Valid(q)'
      <3>1. PICK q \in Users : q # p
        BY <1>3, <1>4, <2>1 DEF Attended
      <3>2. q \in Proc /\ Valid(q)'
        BY <1>1, <1>2, <3>1 DEF Users, Those, Valid, TypeOK
      <3> QED BY <3>2
    <2> QED BY <1>1, <1>7, <2>1 DEF Attended
  <1> QED BY <1>5, <1>7, <1>8 DEF NumberInv

LEMMA Removing ==
  ASSUME SInv, NEW p \in Proc, sem_rm(p)
  PROVE  NumberInv'
  <1> USE DEF SInv, At, Goto
  <1>1. /\ key' = 0 /\ sem' = None3 /\ adj' = [q \in Proc |-> None3]
    BY DEF sem_rm
  <1>2. Identified'
    BY StepIdentified DEF Closes
  <1>3. \A L : "idle" \in L \/ "get" \in L \/ Those(L)' = {}
    BY <1>1, <1>2 DEF Identified, Those, Valid
  <1>4. Users' = {} /\ Holders' = {} /\ InSection' = {}
    BY <1>3 DEF Users, Holders, InSection
  <1>5. Undone'
    BY <1>1, <1>4 DEF Undone, None3
  <1>6. Valued'
    BY <1>1, <1>4, FS_EmptySet DEF Valued, None3
  <1>7. Staged' /\ Attended'
    BY <1>1, <1>3 DEF Staged, Attended
  <1> QED BY <1>5, <1>6, <1>7 DEF NumberInv

\* The system call of a process whose set is gone changes nothing.
LEMMA Failing ==
  ASSUME SInv, NEW p \in Proc, CreateFails(p) \/ Fails(p)
  PROVE  NumberInv'
  <1> USE DEF SInv, At, Goto
  <1>1. ~Valid(p) /\ undo(p) /\ id' = id /\ exits' = exits /\ key' = key
        /\ \E l : pc' = [pc EXCEPT ![p] = l]
    BY DEF CreateFails, Fails, undo
  <1>2. \A L : Those(L)' = Those(L)
    BY <1>1 DEF Those, Valid, TypeOK
  <1>3. Users' = Users /\ Holders' = Holders /\ InSection' = InSection
    BY <1>2 DEF Users, Holders, InSection
  <1>4. adj[p][0] = 0 /\ adj[p][1] = 0 /\ adj[p][2] = 0
    BY <1>1 DEF Undone, Users, Holders, InSection, Those
  <1>5. sem' = sem /\ \A q \in Proc : \A i \in 0 .. 2 : adj'[q][i] = adj[q][i]
    BY <1>1, <1>4 DEF undo, TypeOK, None3
  <1>6. Undone'
    BY <1>3, <1>5 DEF Undone
  <1>7. Valued' /\ Staged'
    BY <1>1, <1>2, <1>3, <1>5 DEF Valued, Staged
  <1>8. Attended'
    BY <1>1, <1>2, <1>3 DEF Attended, Valid
  <1> QED BY <1>6, <1>7, <1>8 DEF NumberInv

LEMMA Exiting ==
  ASSUME SInv, NEW p \in Proc, Exits(p)
  PROVE  NumberInv'
  <1> USE DEF SInv, At, Goto
  <1>1. /\ undo(p) /\ key' = key /\ exits' = exits + 1 /\ exits' # 0
        /\ pc' = [pc EXCEPT ![p] = "idle"] /\ id' = [id EXCEPT ![p] = 0]
        /\ pc[p] # "idle"
    BY DEF Exits, undo, TypeOK
  <1>2. /\ adj[p][0] = In(p, Holders) /\ adj[p][1] = In(p, Users)
        /\ adj[p][2] = 0 - In(p, InSection)
    BY DEF Undone, In
  <1>3. p \in InSection => sem[2] = 1
    BY Alone
  <1>4. \A i \in 0 .. 2 : sem[i] + adj[p][i] >= 0
    BY <1>2, <1>3 DEF In, TypeOK
  <1>5. /\ \A i \in 0 .. 2 : sem'[i] = sem[i] + adj[p][i]
        /\ \A i \in 0 .. 2 : adj'[p][i] = adj[p][i] - adj[p][i]
        /\ \A q \in Proc \ {p} : adj'[q] = adj[q]
        /\ adj[p] \in [0 .. 2 -> Int]
    BY <1>1, <1>4 DEF undo, TypeOK, None3
  <1>6. /\ Users' = Users \ {p} /\ Holders' = Holders \ {p} /\ InSection' = InSection \ {p}
        /\ \A L : "idle" \in L \/ Those(L)' = Those(L) \ {p}
    BY <1>1 DEF TypeOK, Users, Holders, InSection, Those, Valid
  <1>7. key = 0 => sem' = None3
    <2>1. key = 0 => /\ p \notin Users /\ p \notin Holders /\ p \notin InSection
      BY DEF Identified, Users, Holders, InSection, Those, Valid
    <2> QED BY <1>1, <1>2, <2>1 DEF Valued, undo, None3, In
  <1>8. sem[1] # 0 \/ (adj[p][0] = 0 /\ adj[p][1] = 0)
    BY <1>2, Finite DEF Valued, In
  <1>9. Undone' /\ Valued' /\ (sem'[1] = 0 <=> sem[1] = 0)
    <2>1. /\ adj[p][0] = In(p, Holders) - In(p, Holders')
          /\ adj[p][1] = In(p, Users) - In(p, Users')
          /\ adj[p][2] = In(p, InSection') - In(p, InSection)
      BY <1>2, <1>6 DEF In
    <2>2. OnlyMoves(p) /\ p \notin InSection'
      BY <1>6 DEF OnlyMoves
    <2> QED BY <1>1, <1>5, <1>7, <1>8, <2>1, <2>2, Operate
  <1>10. Staged'
    <2>1. sem[1] = 0 => sem'[0] = sem[0]
      <3>1. sem'[0] = sem[0] + adj[p][0] /\ sem[0] \in Int
        BY <1>5 DEF TypeOK
      <3> QED BY <1>8, <3>1
    <2>2. /\ Those({"set0", "set1"})' \subseteq Those({"set0", "set1"})
          /\ Those({"set1"})' \subseteq Those({"set1"})
          /\ Those({"endcreate", "closeval", "rm", "unlock"})'
               \subseteq Those({"endcreate", "closeval", "rm", "unlock"})
          /\ Those({"rm"})' \subseteq Those({"rm"})
          /\ Users' \subseteq Users
      BY <1>6
    <2>3. Those({"set1"}) # {} => sem[1] = 0
      BY DEF Staged, Those
    <2> QED BY <1>9, <2>1, <2>2, <2>3 DEF Staged
  <1>11. Attended'
    BY <1>1 DEF Attended
  <1> QED BY <1>9, <1>10, <1>11 DEF NumberInv

-----------------------------------------------------------------------------
(* The invariant, and what it implies                                         *)

LEMMA InitSInv == Init => SInv
  <1> SUFFICES ASSUME Init PROVE SInv
    OBVIOUS
  <1> USE SemaphAssumption DEF Init
  <1>1. TypeOK
    BY DEF TypeOK, None3, PC
  <1>2. Identified
    BY DEF Identified, Valid
  <1>3. \A L : "idle" \in L \/ Those(L) = {}
    BY DEF Those
  <1>4. Users = {} /\ Holders = {} /\ InSection = {}
    BY <1>3 DEF Users, Holders, InSection
  <1>5. Undone
    BY <1>4 DEF Undone, None3
  <1>6. Valued
    BY <1>4, FS_EmptySet DEF Valued, None3
  <1>7. Staged /\ Attended
    BY <1>3 DEF Staged, Attended
  <1> QED BY <1>1, <1>2, <1>5, <1>6, <1>7 DEF SInv

LEMMA StepSInv ==
  ASSUME SInv, Next
  PROVE  SInv'
  <1>1. PICK p \in Proc :
          \/ CallCreate(p) \/ Creates(p) \/ OpenGet(p) \/ Open(p) \/ CloseLock(p) \/ Closes(p)
          \/ sem_wait(p) \/ sem_signal(p) \/ Fails(p) \/ Exits(p)
    BY DEF Next
  <1>2. TypeOK' /\ Identified'
    BY <1>1, StepType, StepIdentified DEF SInv
  <1>3. NumberInv'
    BY <1>1, Waiting, Getting, Locking, Setting, Ending, Opening, Closing, Removing, Unlocking,
       Using, Failing, Exiting DEF Creates, Closes
  <1> QED BY <1>2, <1>3 DEF SInv, NumberInv

(* Every reachable state satisfies the invariant (semaph.c:61-282).            *)
THEOREM ValuesCorrect == Spec => []SInv
  <1>1. SInv /\ UNCHANGED vars => SInv'
    BY DEF SInv, vars, kernel, TypeOK, Identified, Undone, Valued, Staged, Attended, Users,
           Holders, InSection, Those, Valid
  <1> QED BY <1>1, InitSInv, StepSInv, PTL DEF Spec

(* The three values mean what the head of semaph.c (1-31) says, for any        *)
(* number of processes below BIGCOUNT, and the last close removes the set.     *)
THEOREM SemaphoreIsSound == Spec => []SemaphoreSound
  <1>1. SInv => SemaphoreSound
    <2> SUFFICES ASSUME SInv PROVE SemaphoreSound
      OBVIOUS
    <2>1. CounterIsUsers /\ ValueConserved /\ LockHeld
      BY DEF SInv, Valued, CounterIsUsers, ValueConserved, LockHeld
    <2>2. LastCloseRemoves
      <3> SUFFICES ASSUME key # 0, \A p \in Proc : pc[p] \in {"idle", "failed", "cantlock"},
                          exits = 0
                   PROVE  FALSE
        BY DEF LastCloseRemoves, SInv, TypeOK
      <3>1. PICK p \in Proc : Valid(p)
        BY DEF SInv, Attended
      <3> QED BY <3>1 DEF SInv, Identified
    <2> QED BY <2>1, <2>2 DEF SemaphoreSound
  <1> QED BY <1>1, ValuesCorrect, PTL

(* No set goes while a process that got it from sem_create has it open:        *)
(* sem_close removes it under the lock, which sem_create takes and sem_open    *)
(* does not (semaph.c:189-193, 243-249).                                       *)
THEOREM OnlyOpenersLose == Spec => RemovedIsUnused
  <1>1. ASSUME SInv, Next, key # 0, key' # key PROVE Users \subseteq Openers
    <2>1. PICK p \in Proc :
            \/ CallCreate(p) \/ Creates(p) \/ OpenGet(p) \/ Open(p) \/ CloseLock(p) \/ Closes(p)
            \/ sem_wait(p) \/ sem_signal(p) \/ Fails(p) \/ Exits(p)
      BY <1>1 DEF Next
    <2>2. sem_rm(p)
      BY <1>1, <2>1 DEF CallCreate, Creates, CreateGet, CreateLock, CreateBlocks, CreateAgain,
         CreateFails, CreateGetval, CreateSet0, CreateSet1, CreateEnd, OpenGet, Open, CloseLock,
         Closes, CloseGetval, CloseUnlock, sem_wait, sem_signal, Fails, Exits, semget, semop,
         SETVAL, undo, kernel
    <2>3. p \in Those({"rm"})
      BY <2>2 DEF sem_rm, At, Those
    <2> QED BY <1>1, <2>3 DEF SInv, Staged
  <1>2. SInv /\ [Next]_vars => [UnusedWhenRemoved]_key
    BY <1>1 DEF vars, kernel, UnusedWhenRemoved
  <1> QED BY <1>2, ValuesCorrect, PTL DEF Spec, RemovedIsUnused
-----------------------------------------------------------------------------
(* The linked list, with its memory and its texts.                            *)

\* The instance has its own names for the operators of FiniteSets.
LEMMA SqlSets == \A S : (Sql!IsFiniteSet(S) <=> IsFiniteSet(S)) /\ Sql!Cardinality(S) = Cardinality(S)
  <1>1. ASSUME NEW S PROVE Sql!IsFiniteSet(S) <=> IsFiniteSet(S)
    BY Zenon DEF Sql!IsFiniteSet, IsFiniteSet
  <1>2. ASSUME NEW S PROVE Sql!Cardinality(S) = Cardinality(S)
    BY Zenon DEF Sql!Cardinality, Cardinality, Sql!IsFiniteSet, IsFiniteSet
  <1> QED BY <1>1, <1>2

\* The nodes of the list, from Front on.
Chained(s) ==
  /\ s \in Seq(Node)
  /\ \A i, j \in 1 .. Len(s) : s[i] = s[j] => i = j
  /\ alloc = {s[i] : i \in 1 .. Len(s)}
  /\ Front = IF Len(s) = 0 THEN NULL ELSE s[1]
  /\ \A i \in 1 .. Len(s) : nodes[s[i]].Next = IF i = Len(s) THEN NULL ELSE s[i + 1]
  /\ busy # "dispose_queue" /\ Len(s) # 0 => Rear = s[Len(s)]

\* The dummy node is there until the queue is disposed of.
HasDummy == busy = "make_empty" => Front # NULL

ListInv == Sql!TypeOK /\ HasDummy /\ \E s : Chained(s)

\* A node of the list, and how its end is told.
LEMMA ChainFacts ==
  ASSUME Sql!SqlQueueAssumption, ListInv, NEW s, Chained(s)
  PROVE  /\ s \in Seq(Node) /\ Len(s) \in Nat
         /\ \A i \in 1 .. Len(s) : s[i] \in Node /\ s[i] \in alloc /\ s[i] # NULL
         /\ Front = NULL <=> Len(s) = 0
         /\ Front # NULL => Front = s[1] /\ 1 \in 1 .. Len(s)
         /\ Front # NULL /\ busy # "dispose_queue" => (Sql!is_empty <=> Len(s) = 1)
         /\ Len(s) > 1 => nodes[Front].Next = s[2] /\ Front = s[1] /\ 2 \in 1 .. Len(s)
         /\ Len(s) = 1 => nodes[Front].Next = NULL
  <1>1. s \in Seq(Node) /\ Len(s) \in Nat
    BY DEF Chained
  <1>2. \A i \in 1 .. Len(s) : s[i] \in Node /\ s[i] \in alloc /\ s[i] # NULL
    BY <1>1 DEF Chained, Sql!SqlQueueAssumption
  <1>3. Front = NULL <=> Len(s) = 0
    BY <1>1, <1>2 DEF Chained
  <1>4. Front # NULL => Front = s[1] /\ 1 \in 1 .. Len(s)
    BY <1>1, <1>3 DEF Chained
  <1>5. Front # NULL /\ busy # "dispose_queue" => (Sql!is_empty <=> Len(s) = 1)
    <2>1. SUFFICES ASSUME Front # NULL, busy # "dispose_queue" PROVE Sql!is_empty <=> Len(s) = 1
      OBVIOUS
    <2>2. Rear = s[Len(s)] /\ Front = s[1] /\ 1 \in 1 .. Len(s) /\ Len(s) \in 1 .. Len(s)
      BY <1>1, <1>3, <1>4, <2>1 DEF Chained
    <2>3. s[1] = s[Len(s)] => 1 = Len(s)
      BY <2>2 DEF Chained
    <2> QED BY <2>2, <2>3 DEF Sql!is_empty
  <1>6. Len(s) > 1 => nodes[Front].Next = s[2] /\ Front = s[1] /\ 2 \in 1 .. Len(s)
    BY <1>1 DEF Chained
  <1>7. Len(s) = 1 => nodes[Front].Next = NULL
    BY <1>1 DEF Chained
  <1> QED BY <1>1, <1>2, <1>3, <1>4, <1>5, <1>6, <1>7

\* create_queue.
LEMMA ListInit == ASSUME Sql!SqlQueueAssumption, Sql!Init PROVE ListInv
  <1>1. PICK n \in Node : alloc = {n} /\ Front = n /\ Rear = n
    BY DEF Sql!Init
  <1>2. nodes = [m \in Node |-> [Element |-> NULL, Next |-> NULL]]
    BY DEF Sql!Init
  <1>3. Sql!TypeOK
    BY <1>1, <1>2 DEF Sql!Init, Sql!TypeOK, Sql!Cell
  <1>4. Chained(<<n>>)
    BY <1>1, <1>2 DEF Chained, Sql!Init
  <1>5. HasDummy
    BY DEF HasDummy, Sql!Init
  <1> QED BY <1>3, <1>4, <1>5 DEF ListInv

\* p is linked behind the last node.
LEMMA EnqueueChains ==
  ASSUME Sql!SqlQueueAssumption, ListInv, NEW s, Chained(s), NEW X \in Values, Sql!enqueue(X)
  PROVE  ListInv' /\ \E p \in Node \ alloc : Chained(Append(s, p))' /\ nodes' = Sql!Link(p, X) /\ Rear = s[Len(s)]
  <1>1. PICK p \in Node \ alloc : alloc' = alloc \cup {p} /\ nodes' = Sql!Link(p, X) /\ Rear' = p
    BY DEF Sql!enqueue
  <1>2. UNCHANGED <<Front, busy, running, ret>> /\ busy = "no" /\ Front # NULL
    BY DEF Sql!enqueue, Sql!Idle
  <1>3. /\ s \in Seq(Node) /\ Len(s) \in Nat /\ Len(s) \in 1 .. Len(s) /\ Rear = s[Len(s)] /\ Rear \in Node
        /\ \A i \in 1 .. Len(s) : s[i] \in Node /\ s[i] \in alloc /\ s[i] # p
    BY <1>1, <1>2, ChainFacts DEF Chained
  <1>4. nodes \in [Node -> Sql!Cell]
    BY DEF ListInv, Sql!TypeOK
  <1>5. /\ nodes'[p].Next = NULL /\ nodes'[p].Element = X
        /\ nodes'[Rear].Next = p
        /\ \A n \in Node \ {p, Rear} : nodes'[n] = nodes[n]
        /\ nodes' \in [Node -> Sql!Cell]
    <2>1. PICK c : c = [Element |-> X, Next |-> NULL]
      OBVIOUS
    <2>2. nodes' = [nodes EXCEPT ![p] = c, ![Rear].Next = p]
      BY <1>1, <2>1 DEF Sql!Link
    <2>3. Rear # p /\ c \in Sql!Cell /\ nodes[Rear] \in Sql!Cell
      BY <1>3, <1>4, <2>1 DEF Sql!Cell
    <2>4. nodes'[p] = c /\ nodes'[Rear] = [nodes[Rear] EXCEPT !.Next = p] /\ \A n \in Node \ {p, Rear} : nodes'[n] = nodes[n]
      BY <1>3, <1>4, <2>2, <2>3
    <2>5. [nodes[Rear] EXCEPT !.Next = p] \in Sql!Cell /\ [nodes[Rear] EXCEPT !.Next = p].Next = p
      BY <2>3 DEF Sql!Cell
    <2>6. nodes' \in [Node -> Sql!Cell]
      BY <1>4, <2>2, <2>3, <2>4, <2>5
    <2> QED BY <2>1, <2>4, <2>5, <2>6
  <1>6. Sql!TypeOK'
    BY <1>1, <1>2, <1>5 DEF ListInv, Sql!TypeOK
  <1>7. Chained(Append(s, p))'
    <2>0. PICK t : t = Append(s, p)
      OBVIOUS
    <2>1. /\ t \in Seq(Node) /\ Len(t) = Len(s) + 1 /\ t[Len(s) + 1] = p
          /\ \A i \in 1 .. Len(s) : t[i] = s[i]
      BY <1>3, <2>0
    <2>2. \A i, j \in 1 .. Len(t) : t[i] = t[j] => i = j
      BY <1>3, <2>1 DEF Chained
    <2>3. alloc' = {t[i] : i \in 1 .. Len(t)}
      BY <1>1, <1>3, <2>1 DEF Chained
    <2>4. Front' = IF Len(t) = 0 THEN NULL ELSE t[1]
      BY <1>2, <1>3, <2>1, ChainFacts
    <2>5. ASSUME NEW i \in 1 .. Len(t) PROVE nodes'[t[i]].Next = IF i = Len(t) THEN NULL ELSE t[i + 1]
      <3>1. CASE i = Len(s) + 1
        BY <1>5, <2>1, <3>1
      <3>2. CASE i = Len(s)
        BY <1>3, <1>5, <2>1, <3>2
      <3>3. CASE i \in 1 .. Len(s) /\ i # Len(s)
        <4>1. s[i] # Rear
          BY <1>3, <3>3 DEF Chained
        <4>2. nodes'[s[i]].Next = nodes[s[i]].Next
          BY <1>3, <1>5, <3>3, <4>1
        <4>3. nodes[s[i]].Next = s[i + 1]
          BY <3>3 DEF Chained
        <4> QED BY <1>3, <2>1, <3>3, <4>2, <4>3
      <3> QED BY <1>3, <2>1, <3>1, <3>2, <3>3
    <2>6. Rear' = t[Len(t)]
      BY <1>1, <2>1
    <2>7. Chained(t)'
      BY <2>1, <2>2, <2>3, <2>4, <2>5, <2>6 DEF Chained
    <2> QED BY <2>0, <2>7
  <1>8. HasDummy'
    BY <1>2 DEF HasDummy
  <1> QED BY <1>1, <1>3, <1>6, <1>7, <1>8 DEF ListInv

\* The first text is unlinked and freed.
LEMMA UnlinkChains ==
  ASSUME Sql!SqlQueueAssumption, ListInv, NEW s, Chained(s), Front # NULL, ~Sql!is_empty, busy # "dispose_queue",
         Sql!Unlink, UNCHANGED <<Front, busy, running>>, ret' \in Values \cup {NULL}
  PROVE  /\ ListInv'
         /\ \E t \in Seq(Node) : /\ Chained(t)' /\ Len(t) = Len(s) - 1 /\ t[1] = s[1] /\ Len(t) \in Nat \ {0}
                                 /\ \A i \in 2 .. Len(t) : t[i] = s[i + 1]
         /\ \A n \in Node : nodes'[n].Element = nodes[n].Element
         /\ Len(s) \in Nat /\ Len(s) > 1
  <1>1. /\ s \in Seq(Node) /\ Len(s) \in Nat
        /\ \A i \in 1 .. Len(s) : s[i] \in Node /\ s[i] \in alloc /\ s[i] # NULL
        /\ Front = s[1] /\ Len(s) # 0 /\ Len(s) # 1
    BY ChainFacts
  <1>2. Len(s) > 1 /\ nodes[Front].Next = s[2] /\ 2 \in 1 .. Len(s) /\ 1 \in 1 .. Len(s) /\ Front \in Node
        /\ Rear = s[Len(s)]
    <2>1. Len(s) > 1 /\ 2 \in 1 .. Len(s) /\ 1 \in 1 .. Len(s)
      <3>1. \A k \in Nat : k # 0 /\ k # 1 => k > 1 /\ 2 \in 1 .. k /\ 1 \in 1 .. k
        OBVIOUS
      <3> QED BY <1>1, <3>1
    <2>2. nodes[Front].Next = s[2]
      <3>1. nodes[s[1]].Next = IF 1 = Len(s) THEN NULL ELSE s[1 + 1]
        BY <2>1 DEF Chained
      <3>2. 1 + 1 = 2
        OBVIOUS
      <3> QED BY <1>1, <3>1, <3>2
    <2>3. Rear = s[Len(s)]
      BY <1>1 DEF Chained
    <2> QED BY <1>1, <2>1, <2>2, <2>3
  <1>3. nodes \in [Node -> Sql!Cell]
    BY DEF ListInv, Sql!TypeOK
  <1>4. PICK q : q = nodes[s[2]].Next
    OBVIOUS
  <1>5. /\ nodes' = [nodes EXCEPT ![Front].Next = q]
        /\ Rear' = IF Rear = s[2] THEN Front ELSE Rear
        /\ alloc' = alloc \ {s[2]}
    BY <1>2, <1>4 DEF Sql!Unlink, Sql!RearWithout, Sql!GivenBack
  <1>6. q = IF Len(s) = 2 THEN NULL ELSE s[3]
    <2>1. nodes[s[2]].Next = IF 2 = Len(s) THEN NULL ELSE s[2 + 1]
      BY <1>2 DEF Chained
    <2>2. 2 + 1 = 3
      OBVIOUS
    <2> QED BY <1>4, <2>1, <2>2
  <1>7. q \in Node \cup {NULL}
    <2>1. Len(s) # 2 => 3 \in 1 .. Len(s)
      <3>1. \A k \in Nat : k > 1 /\ k # 2 => 3 \in 1 .. k
        OBVIOUS
      <3> QED BY <1>1, <1>2, <3>1
    <2> QED BY <1>1, <1>6, <2>1
  <1>8. nodes[Front] \in Sql!Cell
    BY <1>2, <1>3
  <1>9. [nodes[Front] EXCEPT !.Next = q] \in Sql!Cell /\ [nodes[Front] EXCEPT !.Next = q].Next = q
        /\ [nodes[Front] EXCEPT !.Next = q].Element = nodes[Front].Element
    BY <1>7, <1>8 DEF Sql!Cell
  <1>10. nodes'[Front] = [nodes[Front] EXCEPT !.Next = q] /\ \A n \in Node \ {Front} : nodes'[n] = nodes[n]
    BY <1>2, <1>3, <1>5
  <1>11. nodes' \in [Node -> Sql!Cell]
    BY <1>3, <1>5, <1>9, <1>10
  <1>12. Rear' \in Node
    BY <1>1, <1>2, <1>5
  <1>13. Sql!TypeOK'
    BY <1>5, <1>11, <1>12 DEF ListInv, Sql!TypeOK
  <1>14. HasDummy'
    BY DEF HasDummy
  <1>15. \A n \in Node : nodes'[n].Element = nodes[n].Element
    BY <1>9, <1>10
  <1>16. PICK t : t = [i \in 1 .. Len(s) - 1 |-> IF i = 1 THEN s[1] ELSE s[i + 1]]
    OBVIOUS
  <1>17. t \in Seq(Node) /\ Len(t) = Len(s) - 1 /\ t[1] = s[1] /\ Len(t) \in Nat \ {0}
         /\ \A i \in 2 .. Len(t) : t[i] = s[i + 1]
    <2>1. Len(s) - 1 \in Nat \ {0} /\ 1 \in 1 .. Len(s) - 1
      BY <1>1, <1>2
    <2>2. t \in [1 .. Len(s) - 1 -> Node]
      <3> SUFFICES ASSUME NEW i \in 1 .. Len(s) - 1 PROVE (IF i = 1 THEN s[1] ELSE s[i + 1]) \in Node
        BY <1>16
      <3>1. i + 1 \in 1 .. Len(s) /\ 1 \in 1 .. Len(s)
        BY <1>1
      <3> QED BY <1>1, <3>1
    <2>3. t \in Seq(Node) /\ Len(t) = Len(s) - 1
      BY <2>1, <2>2
    <2>4. t[1] = s[1]
      BY <1>16, <2>1
    <2>5. ASSUME NEW i \in 2 .. Len(t) PROVE t[i] = s[i + 1]
      BY <1>16, <2>1, <2>3
    <2> QED BY <2>1, <2>3, <2>4, <2>5
  <1>18. Chained(t)'
    <2>1. ASSUME NEW i \in 1 .. Len(t) PROVE i + 1 \in 1 .. Len(s) /\ i \in 1 .. Len(s)
                                             /\ t[i] = IF i = 1 THEN s[1] ELSE s[i + 1]
      BY <1>1, <1>2, <1>17
    <2>2. \A i, j \in 1 .. Len(s) : s[i] = s[j] => i = j
      BY DEF Chained
    <2>3. ASSUME NEW i \in 1 .. Len(t), NEW j \in 1 .. Len(t), t[i] = t[j] PROVE i = j
      <3>1. CASE i = 1
        BY <2>1, <2>2, <2>3, <3>1, <1>2, <1>17
      <3>2. CASE j = 1
        BY <2>1, <2>2, <2>3, <3>2, <1>2, <1>17
      <3>3. CASE i # 1 /\ j # 1
        <4>1. s[i + 1] = s[j + 1]
          BY <2>1, <2>3, <3>3
        <4>2. i + 1 = j + 1
          BY <2>1, <2>2, <4>1
        <4> QED BY <4>2, <1>17
      <3> QED BY <3>1, <3>2, <3>3
    <2>4. alloc' = {t[i] : i \in 1 .. Len(t)}
      <3>1. ASSUME NEW n \in alloc' PROVE n \in {t[i] : i \in 1 .. Len(t)}
        <4>1. PICK i \in 1 .. Len(s) : n = s[i] /\ i # 2
          BY <1>5, <3>1 DEF Chained
        <4>2. CASE i = 1
          BY <4>1, <4>2, <1>17
        <4>3. CASE i # 1
          <5>1. i - 1 \in 2 .. Len(t) /\ i - 1 \in 1 .. Len(t) /\ (i - 1) + 1 = i
            BY <4>1, <4>3, <1>1, <1>17
          <5>2. t[i - 1] = s[i]
            BY <5>1, <1>17
          <5> QED BY <4>1, <5>1, <5>2
        <4> QED BY <4>2, <4>3
      <3>2. ASSUME NEW i \in 1 .. Len(t) PROVE t[i] \in alloc'
        <4>1. PICK j \in 1 .. Len(s) : t[i] = s[j] /\ j # 2
          <5>1. CASE i = 1
            BY <2>1, <1>2, <5>1
          <5>2. CASE i # 1
            BY <2>1, <5>2, <1>1
          <5> QED BY <5>1, <5>2
        <4>2. s[j] # s[2]
          BY <1>2, <2>2, <4>1
        <4> QED BY <1>1, <1>5, <4>1, <4>2
      <3> QED BY <3>1, <3>2
    <2>5. Front' = IF Len(t) = 0 THEN NULL ELSE t[1]
      BY <1>1, <1>17
    <2>6. ASSUME NEW i \in 1 .. Len(t) PROVE nodes'[t[i]].Next = IF i = Len(t) THEN NULL ELSE t[i + 1]
      <3>1. CASE i = 1
        <4>1. nodes'[t[i]].Next = q
          BY <1>1, <1>9, <1>10, <1>17, <3>1
        <4>2. CASE Len(s) = 2
          BY <1>6, <1>17, <3>1, <4>1, <4>2
        <4>3. CASE Len(s) # 2
          <5>1. 2 \in 2 .. Len(t) /\ Len(t) # 1
            BY <1>1, <1>2, <1>17, <4>3
          <5>2. t[2] = s[3]
            BY <5>1, <1>17
          <5> QED BY <1>6, <3>1, <4>1, <4>3, <5>1, <5>2
        <4> QED BY <4>2, <4>3
      <3>2. CASE i # 1
        <4>1. i + 1 \in 1 .. Len(s) /\ t[i] = s[i + 1] /\ i + 1 # 1
          BY <2>1, <3>2, <1>17
        <4>2. s[i + 1] # Front /\ s[i + 1] \in Node
          BY <4>1, <1>1, <1>2, <2>2
        <4>3. nodes'[t[i]].Next = nodes[s[i + 1]].Next
          BY <4>1, <4>2, <1>10
        <4>4. nodes[s[i + 1]].Next = IF i + 1 = Len(s) THEN NULL ELSE s[(i + 1) + 1]
          BY <4>1 DEF Chained
        <4>5. CASE i = Len(t)
          BY <4>3, <4>4, <4>5, <1>1, <1>17
        <4>6. CASE i # Len(t)
          <5>1. i + 1 \in 2 .. Len(t) /\ i + 1 # Len(s)
            BY <4>6, <3>2, <1>1, <1>17
          <5> QED BY <4>3, <4>4, <4>6, <5>1, <1>17
        <4> QED BY <4>5, <4>6
      <3> QED BY <3>1, <3>2
    <2>7. Rear' = t[Len(t)]
      <3>1. CASE Len(s) = 2
        BY <1>1, <1>2, <1>5, <1>17, <3>1
      <3>2. CASE Len(s) # 2
        <4>1. Len(t) \in 2 .. Len(t) /\ Len(t) + 1 = Len(s) /\ Len(s) \in 1 .. Len(s)
          BY <1>1, <1>2, <1>17, <3>2
        <4>2. Rear # s[2]
          BY <1>2, <2>2, <3>2, <4>1
        <4> QED BY <1>2, <1>5, <1>17, <4>1, <4>2
      <3> QED BY <3>1, <3>2
    <2> QED BY <1>17, <2>3, <2>4, <2>5, <2>6, <2>7 DEF Chained
  <1>19. ListInv'
    BY <1>13, <1>14, <1>18 DEF ListInv
  <1> QED BY <1>1, <1>2, <1>15, <1>17, <1>18, <1>19

\* dispose_queue frees the node the list starts with.
LEMMA DisposeChains ==
  ASSUME Sql!SqlQueueAssumption, ListInv, NEW s, Chained(s), Front # NULL, busy = "dispose_queue",
         Rear' = nodes[Front].Next, alloc' = alloc \ {Front}, Front' = nodes[Front].Next,
         UNCHANGED <<nodes, busy, running, ret>>
  PROVE  ListInv' /\ Chained(Tail(s))' /\ Tail(s) \in Seq(Node) /\ Len(s) # 0
  <1>1. /\ s \in Seq(Node) /\ Len(s) \in Nat
        /\ \A i \in 1 .. Len(s) : s[i] \in Node /\ s[i] \in alloc /\ s[i] # NULL
        /\ Front = s[1] /\ Len(s) # 0 /\ 1 \in 1 .. Len(s)
    BY ChainFacts
  <1>2. PICK t : t = Tail(s)
    OBVIOUS
  <1>3. t \in Seq(Node) /\ Len(t) = Len(s) - 1 /\ Len(t) \in Nat /\ \A i \in 1 .. Len(t) : t[i] = s[i + 1]
    BY <1>1, <1>2
  <1>4. Front' = IF Len(t) = 0 THEN NULL ELSE t[1]
    <2>1. nodes[Front].Next = IF 1 = Len(s) THEN NULL ELSE s[1 + 1]
      BY <1>1 DEF Chained
    <2> QED BY <1>1, <1>3, <2>1
  <1>5. \A i, j \in 1 .. Len(s) : s[i] = s[j] => i = j
    BY DEF Chained
  <1>6. ASSUME NEW i \in 1 .. Len(t) PROVE i + 1 \in 1 .. Len(s) /\ i + 1 # 1
    BY <1>1, <1>3
  <1>7. Chained(t)'
    <2>1. ASSUME NEW i \in 1 .. Len(t), NEW j \in 1 .. Len(t), t[i] = t[j] PROVE i = j
      <3>1. i + 1 = j + 1
        BY <1>3, <1>5, <1>6, <2>1
      <3> QED BY <1>3, <3>1
    <2>2. alloc' = {t[i] : i \in 1 .. Len(t)}
      <3>1. ASSUME NEW n \in alloc' PROVE n \in {t[i] : i \in 1 .. Len(t)}
        <4>1. PICK i \in 1 .. Len(s) : n = s[i] /\ i # 1
          BY <1>1, <3>1 DEF Chained
        <4>2. i - 1 \in 1 .. Len(t) /\ (i - 1) + 1 = i
          BY <1>1, <1>3, <4>1
        <4> QED BY <1>3, <4>1, <4>2
      <3>2. ASSUME NEW i \in 1 .. Len(t) PROVE t[i] \in alloc'
        BY <1>1, <1>3, <1>5, <1>6
      <3> QED BY <3>1, <3>2
    <2>3. ASSUME NEW i \in 1 .. Len(t) PROVE nodes'[t[i]].Next = IF i = Len(t) THEN NULL ELSE t[i + 1]
      <3>1. nodes[s[i + 1]].Next = IF i + 1 = Len(s) THEN NULL ELSE s[(i + 1) + 1]
        BY <1>6 DEF Chained
      <3>2. CASE i = Len(t)
        BY <1>1, <1>3, <3>1, <3>2
      <3>3. CASE i # Len(t)
        <4>1. i + 1 \in 1 .. Len(t) /\ i + 1 # Len(s)
          BY <1>1, <1>3, <3>3
        <4> QED BY <1>3, <3>1, <3>3, <4>1
      <3> QED BY <3>2, <3>3
    <2> QED BY <1>3, <1>4, <2>1, <2>2, <2>3 DEF Chained
  <1>8. Sql!TypeOK'
    <2>1. Front' \in Node \cup {NULL}
      BY <1>3, <1>4
    <2> QED BY <2>1 DEF ListInv, Sql!TypeOK
  <1>9. HasDummy'
    BY DEF HasDummy
  <1> QED BY <1>1, <1>2, <1>3, <1>7, <1>8, <1>9 DEF ListInv

\* A step that leaves the list alone.
LEMMA SameChain ==
  ASSUME ListInv, NEW s, Chained(s), Sql!TypeOK', HasDummy', UNCHANGED <<nodes, alloc, Front, Rear>>,
         busy # "dispose_queue" \/ busy' = "dispose_queue" \/ Len(s) = 0
  PROVE  ListInv' /\ Chained(s)'
  <1>1. Chained(s)'
    BY DEF Chained
  <1> QED BY <1>1 DEF ListInv

-----------------------------------------------------------------------------
(* What NodeAt, a recursive function, computes for every list.                *)

\* The natural numbers are well ordered: ...
LEMMA LeastNatural ==
  ASSUME NEW T \in SUBSET Nat, T # {}
  PROVE  \E n \in T : \A m \in T : n <= m
  <1> DEFINE R == {ss \in Nat \X Nat : ss[1] < ss[2]}
  <1>1. IsWellFoundedOn(R, Nat)
    BY NatLessThanWellFounded DEF OpToRel
  <1>2. \E x \in T : \A y \in T : ~(<<y, x>> \in R)
    BY <1>1, WFMin
  <1>3. \A x, y \in Nat : y < x => <<y, x>> \in R
    OBVIOUS
  <1> HIDE DEF R
  <1>4. PICK x \in T : \A y \in T : ~(<<y, x>> \in R)
    BY <1>2
  <1>5. ASSUME NEW y \in T PROVE x <= y
    <2>1. ~(y < x)
      BY <1>3, <1>4
    <2> QED BY <2>1
  <1> QED BY <1>5

\* what holds of 0, and of n + 1 when it holds of n, ...
LEMMA Induction ==
  ASSUME NEW S, 0 \in S, \A n \in Nat : n \in S => n + 1 \in S
  PROVE  Nat \subseteq S
  <1> SUFFICES ASSUME Nat \ S # {} PROVE FALSE
    OBVIOUS
  <1>1. PICK n \in Nat \ S : \A m \in Nat \ S : n <= m
    BY LeastNatural
  <1>2. n # 0 /\ n - 1 \in Nat
    OBVIOUS
  <1>3. n - 1 \in S
    BY <1>1, <1>2
  <1> QED BY <1>2, <1>3

\* What NodeAt is defined by at i.
NodeStep(f, i) == IF i = 0 THEN Front ELSE IF f[i - 1] = NULL THEN NULL ELSE nodes[f[i - 1]].Next

\* The i-th node of list s, from 0 on.
Nth(s, i) == IF i < Len(s) THEN s[i + 1] ELSE NULL

\* NodeAt is a solution of its recursion, since the list is one.
LEMMA NodeAtSolves ==
  ASSUME Sql!SqlQueueAssumption, ListInv, NEW s, Chained(s)
  PROVE  Sql!NodeAt = [i \in Nat |-> NodeStep(Sql!NodeAt, i)]
  <1> DEFINE g == [i \in Nat |-> Nth(s, i)]
  <1>1. /\ Len(s) \in Nat
        /\ \A i \in 1 .. Len(s) : s[i] # NULL
        /\ Front = NULL <=> Len(s) = 0
        /\ Front # NULL => Front = s[1]
    BY ChainFacts
  <1>3. ASSUME NEW i \in Nat PROVE g[i] = NodeStep(g, i)
    <2>1. CASE i = 0
      <3>1. 0 < Len(s) <=> Len(s) # 0
        BY <1>1
      <3>2. g[0] = IF 0 < Len(s) THEN s[0 + 1] ELSE NULL
        BY <2>1 DEF Nth
      <3>3. 0 + 1 = 1
        OBVIOUS
      <3> QED BY <1>1, <2>1, <3>1, <3>2, <3>3 DEF NodeStep
    <2>2. CASE i # 0
      <3>1. i - 1 \in Nat /\ (i - 1) + 1 = i
        BY <2>2
      <3>2. g[i - 1] = IF i - 1 < Len(s) THEN s[i] ELSE NULL
        BY <3>1 DEF Nth
      <3>3. g[i] = IF i < Len(s) THEN s[i + 1] ELSE NULL
        BY DEF Nth
      <3>4. CASE i - 1 < Len(s)
        <4>1. i \in 1 .. Len(s)
          BY <1>1, <2>2, <3>4
        <4>2. g[i - 1] = s[i] /\ s[i] # NULL
          BY <1>1, <3>2, <3>4, <4>1
        <4>3. nodes[s[i]].Next = IF i = Len(s) THEN NULL ELSE s[i + 1]
          BY <4>1 DEF Chained
        <4>4. i < Len(s) <=> i # Len(s)
          BY <1>1, <4>1
        <4> HIDE DEF g
        <4> QED BY <2>2, <3>3, <4>2, <4>3, <4>4 DEF NodeStep
      <3>5. CASE ~(i - 1 < Len(s))
        <4>1. ~(i < Len(s))
          BY <1>1, <3>5
        <4> HIDE DEF g
        <4> QED BY <2>2, <3>2, <3>3, <3>5, <4>1 DEF NodeStep
      <3> QED BY <3>4, <3>5
    <2> QED BY <2>1, <2>2
  <1>4. g = [i \in Nat |-> g[i]]
    OBVIOUS
  <1>5. g = [i \in Nat |-> NodeStep(g, i)]
    <2> HIDE DEF g
    <2> QED BY <1>3, <1>4
  <1> HIDE DEF g
  <1>6. Sql!NodeAt = CHOOSE f : f = [i \in Nat |-> NodeStep(f, i)]
    BY Zenon DEF Sql!NodeAt, NodeStep
  <1> QED BY <1>5, <1>6, Zenon

\* There are no more nodes on the list than there are.
LEMMA ListIsBounded ==
  ASSUME Sql!SqlQueueAssumption, ListInv, NEW s, Chained(s)
  PROVE  /\ Len(s) \in 0 .. Cardinality(Node) /\ Cardinality(Node) \in Nat
         /\ Cardinality(alloc) = Len(s)
  <1>1. s \in Seq(Node) /\ Len(s) \in Nat /\ \A i \in 1 .. Len(s) : s[i] \in Node /\ s[i] \in alloc
    BY ChainFacts
  <1>2. IsFiniteSet(Node) /\ Cardinality(Node) \in Nat
    BY FS_CardinalityType, SqlSets DEF Sql!SqlQueueAssumption
  <1>3. PICK f : f = [i \in 1 .. Len(s) |-> s[i]]
    OBVIOUS
  <1>4. IsFiniteSet(1 .. Len(s)) /\ Cardinality(1 .. Len(s)) = Len(s)
    <2>1. 1 \in Int /\ Len(s) \in Int
      BY <1>1
    <2>2. /\ IsFiniteSet(1 .. Len(s))
          /\ Cardinality(1 .. Len(s)) = IF 1 > Len(s) THEN 0 ELSE Len(s) - 1 + 1
      BY <2>1, FS_Interval
    <2> QED BY <1>1, <2>2
  <1>5. \A i, j \in 1 .. Len(s) : f[i] = f[j] => i = j
    BY <1>3 DEF Chained
  <1>6. f \in Injection(1 .. Len(s), Node)
    BY <1>1, <1>3, <1>5 DEF Injection, IsInjective
  <1>7. Cardinality(1 .. Len(s)) <= Cardinality(Node)
    BY <1>2, <1>6, FS_Injection
  <1>8. f \in Surjection(1 .. Len(s), alloc)
    BY <1>1, <1>3 DEF Surjection, Chained
  <1>9. f \in Injection(1 .. Len(s), alloc)
    BY <1>1, <1>3, <1>5 DEF Injection, IsInjective
  <1>10. Cardinality(alloc) = Cardinality(1 .. Len(s))
    BY <1>4, <1>8, <1>9, FS_Surjection
  <1> QED BY <1>1, <1>2, <1>4, <1>7, <1>10

LEMMA NodeAtIsList ==
  ASSUME Sql!SqlQueueAssumption, ListInv, NEW s, Chained(s)
  PROVE  \A i \in Nat : Sql!NodeAt[i] = Nth(s, i)
  <1>1. /\ Len(s) \in Nat
        /\ \A i \in 1 .. Len(s) : s[i] # NULL
        /\ Front = NULL <=> Len(s) = 0
        /\ Front # NULL => Front = s[1]
    BY ChainFacts
  <1>2. \A i \in Nat : Sql!NodeAt[i] = NodeStep(Sql!NodeAt, i)
    BY NodeAtSolves
  <1> DEFINE Good == {i \in Nat : Sql!NodeAt[i] = Nth(s, i)}
  <1>3. 0 \in Good
    <2>1. Sql!NodeAt[0] = Front
      BY <1>2 DEF NodeStep
    <2>2. Nth(s, 0) = IF 0 < Len(s) THEN s[0 + 1] ELSE NULL
      BY DEF Nth
    <2>3. 0 + 1 = 1 /\ (0 < Len(s) <=> Len(s) # 0)
      BY <1>1
    <2> QED BY <1>1, <2>1, <2>2, <2>3
  <1>4. ASSUME NEW i \in Nat, i \in Good PROVE i + 1 \in Good
    <2>1. i + 1 \in Nat /\ i + 1 # 0 /\ (i + 1) - 1 = i
      OBVIOUS
    <2>2. Sql!NodeAt[i] = Nth(s, i)
      BY <1>4
    <2>3. Sql!NodeAt[i + 1] = IF Sql!NodeAt[i] = NULL THEN NULL ELSE nodes[Sql!NodeAt[i]].Next
      BY <1>2, <2>1 DEF NodeStep
    <2>4. CASE i < Len(s)
      <3>1. i + 1 \in 1 .. Len(s) /\ (i + 1 < Len(s) <=> i + 1 # Len(s))
        BY <1>1, <2>4
      <3>2. Sql!NodeAt[i] = s[i + 1] /\ s[i + 1] # NULL
        BY <1>1, <2>2, <2>4, <3>1 DEF Nth
      <3>3. nodes[s[i + 1]].Next = IF i + 1 = Len(s) THEN NULL ELSE s[(i + 1) + 1]
        BY <3>1 DEF Chained
      <3> QED BY <2>1, <2>3, <3>1, <3>2, <3>3 DEF Nth
    <2>5. CASE ~(i < Len(s))
      <3>1. ~(i + 1 < Len(s))
        BY <1>1, <2>5
      <3> QED BY <2>1, <2>2, <2>3, <2>5, <3>1 DEF Nth
    <2> QED BY <2>4, <2>5
  <1> HIDE DEF Good
  <1>5. Nat \subseteq Good
    BY <1>3, <1>4, Induction
  <1> QED BY <1>5 DEF Good

\* Positions, Reachable and Contents, of any list.
LEMMA ListMeans ==
  ASSUME Sql!SqlQueueAssumption, ListInv, NEW s, Chained(s)
  PROVE  /\ Sql!Positions = 0 .. Len(s) - 1 /\ Cardinality(Sql!Positions) = Len(s)
         /\ Sql!Reachable = alloc /\ Cardinality(Sql!Reachable) = Len(s)
         /\ Sql!Contents = [i \in 1 .. Len(s) - 1 |-> nodes[s[i + 1]].Element]
         /\ Len(s) # 0 => Sql!NodeAt[Len(s) - 1] = s[Len(s)]
  <1>1. Len(s) \in Nat /\ \A i \in 1 .. Len(s) : s[i] # NULL
    BY ChainFacts
  <1>2. Len(s) \in 0 .. Cardinality(Node) /\ Cardinality(Node) \in Nat /\ Cardinality(alloc) = Len(s)
    BY ListIsBounded
  <1>3. ASSUME NEW i \in 0 .. Cardinality(Node) PROVE Sql!NodeAt[i] = IF i < Len(s) THEN s[i + 1] ELSE NULL
    <2>1. i \in Nat
      BY <1>2
    <2> QED BY <2>1, NodeAtIsList DEF Nth
  <1>4. Sql!Positions = 0 .. Len(s) - 1
    <2>1. ASSUME NEW i \in 0 .. Cardinality(Node) PROVE Sql!NodeAt[i] # NULL <=> i \in 0 .. Len(s) - 1
      <3>1. CASE i < Len(s)
        <4>1. i + 1 \in 1 .. Len(s) /\ i \in 0 .. Len(s) - 1
          BY <1>1, <1>2, <3>1
        <4> QED BY <1>1, <1>3, <3>1, <4>1
      <3>2. CASE ~(i < Len(s))
        <4>1. i \notin 0 .. Len(s) - 1
          BY <1>1, <1>2, <3>2
        <4> QED BY <1>3, <3>2, <4>1
      <3> QED BY <3>1, <3>2
    <2>2. 0 .. Len(s) - 1 \subseteq 0 .. Cardinality(Node)
      BY <1>2
    <2> QED BY <2>1, <2>2, SqlSets DEF Sql!Positions
  <1>5. Cardinality(Sql!Positions) = Len(s)
    <2>1. 0 \in Int /\ Len(s) - 1 \in Int
      BY <1>1
    <2>2. Cardinality(0 .. Len(s) - 1) = IF 0 > Len(s) - 1 THEN 0 ELSE (Len(s) - 1) - 0 + 1
      BY <2>1, FS_Interval
    <2> QED BY <1>1, <1>4, <2>2
  <1>6. Sql!Reachable = alloc
    <2>1. ASSUME NEW i \in Sql!Positions PROVE i + 1 \in 1 .. Len(s) /\ Sql!NodeAt[i] = s[i + 1]
      BY <1>1, <1>2, <1>3, <1>4
    <2>2. ASSUME NEW i \in 1 .. Len(s) PROVE i - 1 \in Sql!Positions /\ Sql!NodeAt[i - 1] = s[i]
      <3>1. i - 1 \in Sql!Positions /\ (i - 1) + 1 = i
        BY <1>1, <1>4
      <3> QED BY <2>1, <3>1
    <2> QED BY <2>1, <2>2 DEF Sql!Reachable, Chained
  <1>7. Sql!Contents = [i \in 1 .. Len(s) - 1 |-> nodes[s[i + 1]].Element]
    <2>1. Sql!Contents = [i \in 1 .. Len(s) - 1 |-> nodes[Sql!NodeAt[i]].Element]
      BY <1>5, SqlSets DEF Sql!Contents
    <2>2. ASSUME NEW i \in 1 .. Len(s) - 1 PROVE Sql!NodeAt[i] = s[i + 1]
      BY <1>1, <1>2, <1>3
    <2> QED BY <2>1, <2>2
  <1>8. ASSUME Len(s) # 0 PROVE Sql!NodeAt[Len(s) - 1] = s[Len(s)]
    <2>1. Len(s) - 1 \in 0 .. Cardinality(Node) /\ Len(s) - 1 < Len(s) /\ (Len(s) - 1) + 1 = Len(s)
      BY <1>1, <1>2, <1>8
    <2> QED BY <1>3, <2>1
  <1> QED BY <1>2, <1>4, <1>5, <1>6, <1>7, <1>8

-----------------------------------------------------------------------------
(* The theorems about the queue.                                              *)

LEMMA ListStep == Sql!SqlQueueAssumption /\ ListInv /\ [Sql!Next]_(Sql!vars) => ListInv'
  <1> SUFFICES ASSUME Sql!SqlQueueAssumption, ListInv, [Sql!Next]_(Sql!vars) PROVE ListInv'
    OBVIOUS
  <1>1. PICK s : Chained(s)
    BY DEF ListInv
  <1>2. Sql!TypeOK /\ HasDummy
    BY DEF ListInv
  <1>3. ASSUME UNCHANGED <<nodes, alloc, Front, Rear, busy>>, running' \in BOOLEAN, ret' \in Values \cup {NULL}
        PROVE  ListInv'
    <2>1. Sql!TypeOK' /\ HasDummy'
      BY <1>2, <1>3 DEF Sql!TypeOK, HasDummy
    <2> QED BY <1>1, <1>3, <2>1, SameChain
  <1>4. CASE \E X \in Values : Sql!enqueue(X)
    BY <1>1, <1>4, EnqueueChains
  <1>5. CASE Sql!OutOfSpace
    BY <1>2, <1>3, <1>5 DEF Sql!OutOfSpace, Sql!TypeOK
  <1>6. ASSUME ~Sql!is_empty, Front # NULL, busy # "dispose_queue"
        PROVE  Sql!FirstElement \in Values \cup {NULL}
    <2>1. Len(s) \in Nat /\ Len(s) # 0 /\ Len(s) # 1 /\ \A i \in 1 .. Len(s) : s[i] \in Node
      BY <1>1, <1>6, ChainFacts
    <2>2. 2 \in 1 .. Len(s) /\ nodes[Front].Next = s[2]
      <3>1. \A k \in Nat : k # 0 /\ k # 1 => k > 1 /\ 2 \in 1 .. k
        OBVIOUS
      <3>2. Len(s) > 1 /\ 2 \in 1 .. Len(s)
        BY <2>1, <3>1
      <3> QED BY <1>1, <3>2, ChainFacts
    <2>3. nodes[s[2]] \in Sql!Cell
      BY <1>2, <2>1, <2>2 DEF Sql!TypeOK
    <2> QED BY <2>2, <2>3 DEF Sql!FirstElement, Sql!Cell
  <1>7. CASE Sql!front
    <2>1. ret' \in Values \cup {NULL}
      BY <1>6, <1>7 DEF Sql!front, Sql!Idle
    <2> QED BY <1>2, <1>3, <1>7, <2>1 DEF Sql!front, Sql!TypeOK
  <1>8. CASE Sql!dequeue
    <2>1. ret' \in Values \cup {NULL}
      BY <1>2, <1>8 DEF Sql!dequeue, Sql!TypeOK
    <2> QED BY <1>1, <1>8, <2>1, UnlinkChains DEF Sql!dequeue, Sql!Idle
  <1>9. CASE Sql!front_and_dequeue
    <2>1. CASE ~Sql!is_empty /\ ret' = Sql!FirstElement /\ Sql!Unlink
      BY <1>1, <1>6, <1>9, <2>1, UnlinkChains DEF Sql!front_and_dequeue, Sql!Idle
    <2>2. CASE Sql!is_empty /\ ret' = NULL /\ UNCHANGED <<nodes, Rear, alloc>>
      BY <1>2, <1>3, <1>9, <2>2 DEF Sql!front_and_dequeue, Sql!TypeOK
    <2> QED BY <1>9, <2>1, <2>2 DEF Sql!front_and_dequeue
  <1>10. CASE Sql!make_empty
    <2>1. ret' \in Values \cup {NULL} /\ UNCHANGED <<Front, running, ret>>
      BY <1>2, <1>10 DEF Sql!make_empty, Sql!TypeOK
    <2>2. CASE busy = "make_empty" /\ ~Sql!is_empty /\ Sql!Unlink /\ UNCHANGED busy
      <3>1. Front # NULL
        BY <1>2, <2>2 DEF HasDummy
      <3> QED BY <1>1, <2>1, <2>2, <3>1, UnlinkChains
    <2>3. ASSUME UNCHANGED <<nodes, Rear, alloc>>, busy # "dispose_queue", busy' \in {"no", "make_empty"},
                 busy' = "make_empty" => Front # NULL
          PROVE  ListInv'
      <3>1. Sql!TypeOK' /\ HasDummy'
        BY <1>2, <2>1, <2>3 DEF Sql!TypeOK, HasDummy
      <3> QED BY <1>1, <2>1, <2>3, <3>1, SameChain
    <2> QED BY <1>10, <2>2, <2>3 DEF Sql!make_empty
  <1>11. CASE Sql!dispose_queue
    <2>1. UNCHANGED <<nodes, running, ret>>
      BY <1>11 DEF Sql!dispose_queue
    <2>2. CASE busy = "dispose_queue" /\ Front # NULL /\ Rear' = nodes[Front].Next /\ alloc' = alloc \ {Front}
               /\ Front' = nodes[Front].Next /\ UNCHANGED busy
      BY <1>1, <2>1, <2>2, DisposeChains
    <2>3. ASSUME UNCHANGED <<Rear, alloc, Front>>,
                 busy' = "dispose_queue" \/ (busy = "dispose_queue" /\ Front = NULL /\ busy' = "no")
          PROVE  ListInv'
      <3>1. Sql!TypeOK' /\ HasDummy'
        BY <1>2, <2>1, <2>3 DEF Sql!TypeOK, HasDummy
      <3>2. Front = NULL => Len(s) = 0
        BY <1>1, ChainFacts
      <3>3. busy # "dispose_queue" \/ busy' = "dispose_queue" \/ Len(s) = 0
        BY <2>3, <3>2
      <3> QED BY <1>1, <2>1, <2>3, <3>1, <3>3, SameChain
    <2> QED BY <1>11, <2>2, <2>3 DEF Sql!dispose_queue
  <1>12. CASE UNCHANGED Sql!vars
    BY <1>2, <1>3, <1>12 DEF Sql!vars, Sql!TypeOK
  <1> QED BY <1>4, <1>5, <1>7, <1>8, <1>9, <1>10, <1>11, <1>12 DEF Sql!Next

(* Whatever is queued, removed and disposed of, in memory of any size, the    *)
(* allocated nodes are those on the list, each once, and Rear is the last of  *)
(* them: nothing leaks and nothing freed is still linked.                     *)
THEOREM NothingLeaks ==
  ASSUME Sql!SqlQueueAssumption
  PROVE  Sql!Spec => [](Sql!TypeOK /\ Sql!ListIsHeap)
  <1>1. ListInv => Sql!TypeOK /\ Sql!ListIsHeap
    <2> SUFFICES ASSUME ListInv PROVE Sql!ListIsHeap
      BY DEF ListInv
    <2>1. PICK s : Chained(s)
      BY DEF ListInv
    <2>2. /\ Cardinality(Sql!Positions) = Len(s) /\ Sql!Reachable = alloc /\ Cardinality(Sql!Reachable) = Len(s)
          /\ Len(s) # 0 => Sql!NodeAt[Len(s) - 1] = s[Len(s)]
      BY <2>1, ListMeans
    <2>3. Front # NULL => Len(s) # 0
      BY <2>1, ChainFacts
    <2>4. busy # "dispose_queue" /\ Len(s) # 0 => Rear = s[Len(s)]
      BY <2>1 DEF Chained
    <2> QED BY <2>2, <2>3, <2>4, SqlSets DEF Sql!ListIsHeap
  <1>2. Sql!Init => ListInv
    BY ListInit
  <1>3. ListInv /\ [Sql!Next]_(Sql!vars) => ListInv'
    BY ListStep
  <1> QED BY <1>1, <1>2, <1>3, PTL DEF Sql!Spec

(* front_and_dequeue follows Front->Next exactly when Front == Rear is false. *)
THEOREM EmptyTestHolds ==
  ASSUME Sql!SqlQueueAssumption
  PROVE  Sql!Spec => []Sql!EmptyMeansNoNext
  <1>1. ListInv => Sql!EmptyMeansNoNext
    <2> SUFFICES ASSUME ListInv, Front # NULL, busy # "dispose_queue"
                 PROVE  Sql!is_empty <=> nodes[Front].Next = NULL
      BY DEF Sql!EmptyMeansNoNext
    <2>1. PICK s : Chained(s)
      BY DEF ListInv
    <2>2. Len(s) \in Nat /\ Len(s) # 0 /\ (Sql!is_empty <=> Len(s) = 1)
      BY <2>1, ChainFacts
    <2>3. CASE Len(s) = 1
      BY <2>1, <2>2, <2>3, ChainFacts
    <2>4. CASE Len(s) # 1
      <3>1. \A k \in Nat : k # 0 /\ k # 1 => k > 1
        OBVIOUS
      <3>2. Len(s) > 1
        BY <2>2, <2>4, <3>1
      <3>3. nodes[Front].Next = s[2] /\ s[2] # NULL
        BY <2>1, <3>2, ChainFacts
      <3> QED BY <2>2, <2>4, <3>3
    <2> QED BY <2>3, <2>4
  <1>2. Sql!Init => ListInv
    BY ListInit
  <1>3. ListInv /\ [Sql!Next]_(Sql!vars) => ListInv'
    BY ListStep
  <1> QED BY <1>1, <1>2, <1>3, PTL DEF Sql!Spec

-----------------------------------------------------------------------------
(* The list implements Fifo.                                                  *)

\* The texts of list s; what Contents is, of any list.
Texts(s) == [i \in 1 .. Len(s) - 1 |-> nodes[s[i + 1]].Element]
Means == \A s : Chained(s) => Sql!Contents = Texts(s)

\* A sequence given element by element, and all but its first element; ...
LEMMA TextsAre ==
  ASSUME NEW n \in Nat, NEW E, NEW f \in [1 .. n -> E]
  PROVE  /\ f \in Seq(E) /\ Len(f) = n /\ (f = <<>> <=> n = 0)
         /\ n # 0 => Head(f) = f[1] /\ Tail(f) = [i \in 1 .. n - 1 |-> f[i + 1]]
  <1>1. f \in Seq(E) /\ Len(f) = n
    OBVIOUS
  <1>2. f = <<>> <=> n = 0
    BY <1>1, EmptySeq
  <1>3. ASSUME n # 0 PROVE Head(f) = f[1] /\ Tail(f) = [i \in 1 .. n - 1 |-> f[i + 1]]
    <2>1. f # <<>>
      BY <1>2, <1>3
    <2>2. /\ Tail(f) \in Seq(E) /\ Len(Tail(f)) = n - 1
          /\ \A i \in 1 .. Len(Tail(f)) : Tail(f)[i] = f[i + 1]
      BY <1>1, <2>1, HeadTailProperties
    <2>3. Tail(f) \in [1 .. n - 1 -> E]
      BY <2>2, LenProperties
    <2>4. Tail(f) = [i \in 1 .. n - 1 |-> f[i + 1]]
      BY <2>2, <2>3
    <2> QED BY <1>1, <2>1, <2>4
  <1> QED BY <1>1, <1>2, <1>3

\* ... and with one more.
LEMMA AppendIs ==
  ASSUME NEW n \in Nat, NEW E, NEW f \in [1 .. n -> E], NEW v \in E
  PROVE  /\ Append(f, v) \in [1 .. n + 1 -> E]
         /\ \A i \in 1 .. n + 1 : Append(f, v)[i] = IF i = n + 1 THEN v ELSE f[i]
  <1>1. f \in Seq(E) /\ Len(f) = n
    OBVIOUS
  <1>2. Append(f, v) \in Seq(E) /\ Len(Append(f, v)) = n + 1
    BY <1>1, AppendProperties
  <1>3. Append(f, v) \in [1 .. n + 1 -> E]
    BY <1>2, LenProperties
  <1>4. ASSUME NEW i \in 1 .. n + 1 PROVE Append(f, v)[i] = IF i = n + 1 THEN v ELSE f[i]
    <2>1. i # n + 1 => i \in 1 .. n
      OBVIOUS
    <2> QED BY <1>1, <2>1, AppendProperties
  <1> QED BY <1>3, <1>4

LEMMA TextsType ==
  ASSUME Sql!SqlQueueAssumption, ListInv, NEW s, Chained(s)
  PROVE  /\ Len(s) \in Nat
         /\ Len(s) # 0 => Len(s) - 1 \in Nat /\ Texts(s) \in [1 .. Len(s) - 1 -> Values \cup {NULL}]
         /\ Len(s) = 0 => Texts(s) = <<>>
  <1>1. Len(s) \in Nat /\ \A i \in 1 .. Len(s) : s[i] \in Node
    BY ChainFacts
  <1>2. ASSUME NEW i \in 1 .. Len(s) - 1 PROVE nodes[s[i + 1]].Element \in Values \cup {NULL}
    <2>1. i + 1 \in 1 .. Len(s)
      BY <1>1
    <2>2. nodes[s[i + 1]] \in Sql!Cell
      BY <1>1, <2>1 DEF ListInv, Sql!TypeOK
    <2> QED BY <2>2 DEF Sql!Cell
  <1>3. Len(s) = 0 => Texts(s) = <<>>
    <2> SUFFICES ASSUME Len(s) = 0 PROVE Texts(s) = <<>>
      OBVIOUS
    <2>1. 1 .. Len(s) - 1 = {}
      BY <1>1
    <2>2. Texts(s) = [i \in {} |-> nodes[s[i + 1]].Element]
      BY <2>1 DEF Texts
    <2>3. Texts(s) \in [1 .. 0 -> {}]
      BY <2>2
    <2> QED BY <2>3, TextsAre
  <1> QED BY <1>1, <1>2, <1>3 DEF Texts

\* A text is put behind the others.
LEMMA PutTaken ==
  ASSUME Sql!SqlQueueAssumption, ListInv, Means, Means', NEW X \in Values, Sql!enqueue(X)
  PROVE  Sql!Contents' = Append(Sql!Contents, X) /\ UNCHANGED ret
  <1>1. PICK s : Chained(s)
    BY DEF ListInv
  <1>2. PICK p \in Node \ alloc : Chained(Append(s, p))' /\ nodes' = Sql!Link(p, X) /\ Rear = s[Len(s)]
    BY <1>1, EnqueueChains
  <1>3. PICK t : t = Append(s, p)
    OBVIOUS
  <1>4. /\ s \in Seq(Node) /\ Len(s) \in Nat /\ Len(s) # 0 /\ Len(s) - 1 \in Nat
        /\ \A i \in 1 .. Len(s) : s[i] \in Node /\ s[i] \in alloc
    BY <1>1, ChainFacts DEF Sql!enqueue, Sql!Idle
  <1>5. Len(t) = Len(s) + 1 /\ t[Len(s) + 1] = p /\ \A i \in 1 .. Len(s) : t[i] = s[i]
    BY <1>3, <1>4
  <1>6. nodes'[p].Element = X /\ \A n \in Node \ {p} : nodes'[n].Element = nodes[n].Element
    <2>1. PICK c : c = [Element |-> X, Next |-> NULL]
      OBVIOUS
    <2>2. nodes' = [nodes EXCEPT ![p] = c, ![Rear].Next = p]
      BY <1>2, <2>1 DEF Sql!Link
    <2>3. nodes \in [Node -> Sql!Cell]
      BY DEF ListInv, Sql!TypeOK
    <2>4. Rear \in Node /\ Rear # p
      <3>1. Len(s) \in 1 .. Len(s)
        BY <1>4
      <3> QED BY <1>2, <1>4, <3>1
    <2>5. nodes[Rear] \in Sql!Cell
      BY <2>3, <2>4
    <2>6. nodes'[p] = c /\ nodes'[Rear] = [nodes[Rear] EXCEPT !.Next = p] /\ \A n \in Node \ {p, Rear} : nodes'[n] = nodes[n]
      BY <2>2, <2>3, <2>4
    <2>7. [nodes[Rear] EXCEPT !.Next = p].Element = nodes[Rear].Element
      BY <2>5 DEF Sql!Cell
    <2>8. ASSUME NEW n \in Node \ {p} PROVE nodes'[n].Element = nodes[n].Element
      <3>1. CASE n = Rear
        BY <2>6, <2>7, <3>1
      <3>2. CASE n # Rear
        BY <2>6, <3>2
      <3> QED BY <3>1, <3>2
    <2> QED BY <2>1, <2>6, <2>8
  <1>7. Sql!Contents = Texts(s)
    BY <1>1 DEF Means
  <1>8. Sql!Contents' = [i \in 1 .. Len(t) - 1 |-> nodes'[t[i + 1]].Element]
    <2>1. Chained(t)'
      BY <1>2, <1>3
    <2> QED BY <2>1 DEF Means, Texts
  <1>9. /\ \A i \in 1 .. (Len(s) - 1) + 1 :
              Append(Sql!Contents, X)[i] = IF i = (Len(s) - 1) + 1 THEN X ELSE Sql!Contents[i]
        /\ Append(Sql!Contents, X) \in [1 .. (Len(s) - 1) + 1 -> Values \cup {NULL}]
    <2>1. Sql!Contents \in [1 .. Len(s) - 1 -> Values \cup {NULL}]
      BY <1>1, <1>4, <1>7, TextsType
    <2>2. X \in Values \cup {NULL}
      OBVIOUS
    <2>3. PICK n, E, c : n = Len(s) - 1 /\ E = Values \cup {NULL} /\ c = Sql!Contents
      OBVIOUS
    <2>4. n \in Nat /\ c \in [1 .. n -> E] /\ X \in E
      BY <1>4, <2>1, <2>2, <2>3
    <2>5. /\ Append(c, X) \in [1 .. n + 1 -> E]
          /\ \A i \in 1 .. n + 1 : Append(c, X)[i] = IF i = n + 1 THEN X ELSE c[i]
      BY <2>4, AppendIs
    <2> QED BY <2>3, <2>5
  <1>10. (Len(s) - 1) + 1 = Len(s) /\ Len(t) - 1 = Len(s)
    BY <1>4, <1>5
  <1>11. ASSUME NEW i \in 1 .. Len(s) PROVE nodes'[t[i + 1]].Element = IF i = Len(s) THEN X ELSE Sql!Contents[i]
    <2>1. CASE i = Len(s)
      BY <1>5, <1>6, <2>1
    <2>2. CASE i # Len(s)
      <3>1. i + 1 \in 1 .. Len(s) /\ i \in 1 .. Len(s) - 1
        BY <1>4, <2>2
      <3>2. t[i + 1] = s[i + 1] /\ s[i + 1] \in Node /\ s[i + 1] # p
        BY <1>4, <1>5, <3>1
      <3>3. Sql!Contents[i] = nodes[s[i + 1]].Element
        BY <1>7, <3>1 DEF Texts
      <3> QED BY <1>6, <2>2, <3>2, <3>3
    <2> QED BY <2>1, <2>2
  <1>12. Sql!Contents' = Append(Sql!Contents, X)
    <2>1. /\ Append(Sql!Contents, X) = [i \in 1 .. Len(s) |-> Append(Sql!Contents, X)[i]]
          /\ \A i \in 1 .. Len(s) : Append(Sql!Contents, X)[i] = IF i = Len(s) THEN X ELSE Sql!Contents[i]
      BY <1>9, <1>10
    <2>2. Sql!Contents' = [i \in 1 .. Len(s) |-> nodes'[t[i + 1]].Element]
      BY <1>8, <1>10
    <2> QED BY <1>11, <2>1, <2>2
  <1> QED BY <1>12 DEF Sql!enqueue

\* The oldest text is removed.
LEMMA DropTaken ==
  ASSUME Sql!SqlQueueAssumption, ListInv, Means, Means', Front # NULL, ~Sql!is_empty, busy # "dispose_queue",
         Sql!Unlink, UNCHANGED <<Front, busy, running>>, ret' \in Values \cup {NULL}
  PROVE  Sql!Contents # <<>> /\ Sql!Contents' = Tail(Sql!Contents) /\ Sql!FirstElement = Head(Sql!Contents)
  <1>1. PICK s : Chained(s)
    BY DEF ListInv
  <1>2. /\ \A n \in Node : nodes'[n].Element = nodes[n].Element
        /\ Len(s) \in Nat /\ Len(s) > 1
    BY <1>1, UnlinkChains
  <1>3. PICK t \in Seq(Node) : /\ Chained(t)' /\ Len(t) = Len(s) - 1 /\ t[1] = s[1]
                               /\ \A i \in 2 .. Len(t) : t[i] = s[i + 1]
    BY <1>1, UnlinkChains
  <1>4. Sql!Contents = Texts(s)
    BY <1>1 DEF Means
  <1>5. Sql!Contents' = [i \in 1 .. Len(t) - 1 |-> nodes'[t[i + 1]].Element]
    BY <1>3 DEF Means, Texts
  <1>6. \A i \in 1 .. Len(s) : s[i] \in Node
    BY <1>1, ChainFacts
  <1>7. Len(s) - 1 \in Nat /\ Len(s) - 1 # 0 /\ 1 \in 1 .. Len(s) - 1
    <2>1. \A k \in Nat : k > 1 => k - 1 \in Nat /\ k - 1 # 0 /\ 1 \in 1 .. k - 1
      OBVIOUS
    <2> QED BY <1>2, <2>1
  <1>8. /\ Sql!Contents # <<>> /\ Head(Sql!Contents) = Sql!Contents[1]
        /\ Tail(Sql!Contents) = [i \in 1 .. (Len(s) - 1) - 1 |-> Sql!Contents[i + 1]]
    <2>1. Sql!Contents \in [1 .. Len(s) - 1 -> Values \cup {NULL}]
      BY <1>1, <1>2, <1>4, TextsType
    <2> QED BY <1>7, <2>1, TextsAre
  <1>9. Sql!FirstElement = Sql!Contents[1]
    <2>1. nodes[Front].Next = s[1 + 1]
      BY <1>1, <1>2, ChainFacts
    <2>2. Sql!Contents[1] = nodes[s[1 + 1]].Element
      BY <1>4, <1>7 DEF Texts
    <2> QED BY <2>1, <2>2 DEF Sql!FirstElement
  <1>10. ASSUME NEW i \in 1 .. (Len(s) - 1) - 1 PROVE nodes'[t[i + 1]].Element = Sql!Contents[i + 1]
    <2>1. /\ i + 1 \in 2 .. Len(t) /\ (i + 1) + 1 \in 1 .. Len(s) /\ i + 1 \in 1 .. Len(s) - 1
      BY <1>2, <1>3
    <2>2. t[i + 1] = s[(i + 1) + 1]
      BY <1>3, <2>1
    <2>3. Sql!Contents[i + 1] = nodes[s[(i + 1) + 1]].Element
      BY <1>4, <2>1 DEF Texts
    <2> QED BY <1>2, <1>6, <2>1, <2>2, <2>3
  <1>11. Sql!Contents' = Tail(Sql!Contents)
    BY <1>3, <1>5, <1>8, <1>10
  <1> QED BY <1>8, <1>9, <1>11

\* dispose_queue frees the dummy, or the first of the others.
LEMMA DisposeTaken ==
  ASSUME Sql!SqlQueueAssumption, ListInv, Means, Means', Front # NULL, busy = "dispose_queue",
         Rear' = nodes[Front].Next, alloc' = alloc \ {Front}, Front' = nodes[Front].Next,
         UNCHANGED <<nodes, busy, running, ret>>
  PROVE  UNCHANGED Sql!Contents \/ (Sql!Contents # <<>> /\ Sql!Contents' = Tail(Sql!Contents))
  <1>1. PICK s : Chained(s)
    BY DEF ListInv
  <1>2. PICK t : t = Tail(s)
    OBVIOUS
  <1>3. Chained(t)' /\ Len(s) # 0 /\ s \in Seq(Node) /\ Len(s) \in Nat
    BY <1>1, <1>2, ChainFacts, DisposeChains
  <1>4. Len(t) = Len(s) - 1 /\ Len(t) \in Nat /\ \A i \in 1 .. Len(t) : t[i] = s[i + 1]
    BY <1>2, <1>3
  <1>5. Sql!Contents = Texts(s)
    BY <1>1 DEF Means
  <1>6. Sql!Contents' = [i \in 1 .. Len(t) - 1 |-> nodes[t[i + 1]].Element]
    BY <1>3 DEF Means, Texts
  <1>7. Sql!Contents \in [1 .. Len(t) -> Values \cup {NULL}]
    BY <1>1, <1>3, <1>4, <1>5, TextsType
  <1>8. CASE Len(t) = 0
    <2>1. 1 .. Len(t) - 1 = {} /\ 1 .. Len(t) = {}
      BY <1>8
    <2>2. Sql!Contents' = Sql!Contents
      BY <1>6, <1>7, <2>1
    <2> QED BY <2>2
  <1>9. CASE Len(t) # 0
    <2>1. Sql!Contents # <<>> /\ Tail(Sql!Contents) = [i \in 1 .. Len(t) - 1 |-> Sql!Contents[i + 1]]
      BY <1>4, <1>7, <1>9, TextsAre
    <2>2. ASSUME NEW i \in 1 .. Len(t) - 1 PROVE nodes[t[i + 1]].Element = Sql!Contents[i + 1]
      <3>1. i + 1 \in 1 .. Len(t) /\ i + 1 \in 1 .. Len(s) - 1
        BY <1>4
      <3> QED BY <1>4, <1>5, <3>1 DEF Texts
    <2>3. Sql!Contents' = Tail(Sql!Contents)
      BY <1>6, <2>1, <2>2
    <2> QED BY <2>1, <2>3
  <1> QED BY <1>8, <1>9

Taken == Sql!Abstract!FifoNext \/ UNCHANGED <<Sql!Contents, ret>>

LEMMA StepTaken ==
  ASSUME Sql!SqlQueueAssumption, ListInv, Means, Means', Sql!Next
  PROVE  Taken
  <1>1. Sql!TypeOK /\ HasDummy
    BY DEF ListInv
  <1>2. ASSUME UNCHANGED <<nodes, alloc, Front, Rear>>
        PROVE  UNCHANGED Sql!Contents
    <2>1. PICK s : Chained(s)
      BY DEF ListInv
    <2>2. Sql!NodeAt' = Sql!NodeAt
      BY <1>2 DEF Sql!NodeAt
    <2>3. Sql!Positions' = Sql!Positions
      BY <2>2 DEF Sql!Positions
    <2> QED BY <1>2, <2>2, <2>3 DEF Sql!Contents
  <1>3. CASE \E X \in Values : Sql!enqueue(X)
    <2>1. PICK X \in Values : Sql!Contents' = Append(Sql!Contents, X) /\ UNCHANGED ret
      BY <1>3, PutTaken
    <2>2. Sql!Abstract!Put(X)
      BY <2>1 DEF Sql!Abstract!Put
    <2> QED BY <2>2 DEF Taken, Sql!Abstract!FifoNext
  <1>4. CASE Sql!OutOfSpace
    BY <1>2, <1>4 DEF Sql!OutOfSpace, Taken
  <1>5. ASSUME UNCHANGED <<nodes, alloc, Front, Rear>>, ret' = IF Sql!is_empty THEN NULL ELSE Sql!FirstElement, Sql!Idle
        PROVE  Sql!Abstract!Peek
    <2>1. PICK s : Chained(s)
      BY DEF ListInv
    <2>2. Sql!Contents = Texts(s)
      BY <2>1 DEF Means
    <2>3. Len(s) \in Nat /\ Len(s) # 0 /\ (Sql!is_empty <=> Len(s) = 1)
      BY <1>5, <2>1, ChainFacts DEF Sql!Idle
    <2>4. Len(s) - 1 \in Nat /\ Sql!Contents \in [1 .. Len(s) - 1 -> Values \cup {NULL}]
      BY <2>1, <2>2, <2>3, TextsType
    <2>5. Sql!Contents = <<>> <=> Len(s) - 1 = 0
      BY <2>4, TextsAre
    <2>6. CASE Sql!is_empty
      BY <1>2, <1>5, <2>3, <2>5, <2>6 DEF Sql!Abstract!Peek
    <2>7. CASE ~Sql!is_empty
      <3>1. \A k \in Nat : k # 0 /\ k # 1 => k > 1 /\ 1 \in 1 .. k - 1 /\ k - 1 # 0
        OBVIOUS
      <3>2. Len(s) > 1 /\ 1 \in 1 .. Len(s) - 1 /\ Len(s) - 1 # 0
        BY <2>3, <2>7, <3>1
      <3>3. Head(Sql!Contents) = Sql!Contents[1]
        BY <2>4, <3>2, TextsAre
      <3>4. nodes[Front].Next = s[1 + 1]
        BY <2>1, <3>2, ChainFacts
      <3>5. Sql!Contents[1] = nodes[s[1 + 1]].Element
        BY <2>2, <3>2 DEF Texts
      <3> QED BY <1>2, <1>5, <2>5, <2>7, <3>2, <3>3, <3>4, <3>5 DEF Sql!Abstract!Peek, Sql!FirstElement
    <2> QED BY <2>6, <2>7
  <1>6. CASE Sql!front
    <2>1. Sql!Abstract!Peek
      BY <1>5, <1>6 DEF Sql!front
    <2> QED BY <2>1 DEF Taken, Sql!Abstract!FifoNext
  <1>7. CASE Sql!dequeue
    <2>1. ret' \in Values \cup {NULL}
      BY <1>1, <1>7 DEF Sql!dequeue, Sql!TypeOK
    <2>2. Sql!Contents # <<>> /\ Sql!Contents' = Tail(Sql!Contents)
      BY <1>7, <2>1, DropTaken DEF Sql!dequeue, Sql!Idle
    <2>3. Sql!Abstract!Drop
      BY <1>7, <2>2 DEF Sql!dequeue, Sql!Abstract!Drop
    <2> QED BY <2>3 DEF Taken, Sql!Abstract!FifoNext
  <1>8. CASE Sql!front_and_dequeue
    <2>1. CASE ~Sql!is_empty /\ ret' = Sql!FirstElement /\ Sql!Unlink
      <3>1. ret' \in Values \cup {NULL}
        <4>1. PICK s : Chained(s)
          BY DEF ListInv
        <4>2. /\ Len(s) \in Nat /\ Len(s) # 0 /\ Len(s) # 1
              /\ \A i \in 1 .. Len(s) : s[i] \in Node
          BY <1>8, <2>1, <4>1, ChainFacts DEF Sql!front_and_dequeue, Sql!Idle
        <4>3. \A k \in Nat : k # 0 /\ k # 1 => k > 1 /\ 2 \in 1 .. k
          OBVIOUS
        <4>4. Len(s) > 1 /\ 2 \in 1 .. Len(s)
          BY <4>2, <4>3
        <4>5. nodes[Front].Next = s[2] /\ nodes[s[2]] \in Sql!Cell
          BY <1>1, <4>1, <4>2, <4>4, ChainFacts DEF Sql!TypeOK
        <4> QED BY <2>1, <4>5 DEF Sql!FirstElement, Sql!Cell
      <3>2. Sql!Contents # <<>> /\ Sql!Contents' = Tail(Sql!Contents) /\ Sql!FirstElement = Head(Sql!Contents)
        BY <1>8, <2>1, <3>1, DropTaken DEF Sql!front_and_dequeue, Sql!Idle
      <3>3. Sql!Abstract!Take
        BY <2>1, <3>2 DEF Sql!Abstract!Take
      <3> QED BY <3>3 DEF Taken, Sql!Abstract!FifoNext
    <2>2. CASE Sql!is_empty /\ ret' = NULL /\ UNCHANGED <<nodes, Rear, alloc>>
      <3>1. Sql!Abstract!Peek
        BY <1>5, <1>8, <2>2 DEF Sql!front_and_dequeue
      <3> QED BY <3>1 DEF Taken, Sql!Abstract!FifoNext
    <2> QED BY <1>8, <2>1, <2>2 DEF Sql!front_and_dequeue
  <1>9. CASE Sql!make_empty
    <2>1. ret' \in Values \cup {NULL} /\ UNCHANGED <<Front, running, ret>>
      BY <1>1, <1>9 DEF Sql!make_empty, Sql!TypeOK
    <2>2. CASE busy = "make_empty" /\ ~Sql!is_empty /\ Sql!Unlink /\ UNCHANGED busy
      <3>1. Front # NULL
        BY <1>1, <2>2 DEF HasDummy
      <3>2. Sql!Contents # <<>> /\ Sql!Contents' = Tail(Sql!Contents)
        BY <2>1, <2>2, <3>1, DropTaken
      <3>3. Sql!Abstract!Drop
        BY <2>1, <3>2 DEF Sql!Abstract!Drop
      <3> QED BY <3>3 DEF Taken, Sql!Abstract!FifoNext
    <2>3. CASE UNCHANGED <<nodes, Rear, alloc>>
      BY <1>2, <2>1, <2>3 DEF Taken
    <2> QED BY <1>9, <2>2, <2>3 DEF Sql!make_empty
  <1>10. CASE Sql!dispose_queue
    <2>1. UNCHANGED <<nodes, running, ret>>
      BY <1>10 DEF Sql!dispose_queue
    <2>2. CASE busy = "dispose_queue" /\ Front # NULL /\ Rear' = nodes[Front].Next /\ alloc' = alloc \ {Front}
               /\ Front' = nodes[Front].Next /\ UNCHANGED busy
      <3>1. UNCHANGED Sql!Contents \/ (Sql!Contents # <<>> /\ Sql!Contents' = Tail(Sql!Contents))
        BY <2>1, <2>2, DisposeTaken
      <3> QED BY <2>1, <3>1 DEF Taken, Sql!Abstract!FifoNext, Sql!Abstract!Drop
    <2>3. CASE UNCHANGED <<Rear, alloc, Front>>
      BY <1>2, <2>1, <2>3 DEF Taken
    <2> QED BY <1>10, <2>2, <2>3 DEF Sql!dispose_queue
  <1> QED BY <1>3, <1>4, <1>6, <1>7, <1>8, <1>9, <1>10 DEF Sql!Next

(* The linked list is a first-in first-out queue of its texts: every step of  *)
(* its operations, each free of the disposal included, is one of Fifo or      *)
(* leaves the texts alone.                                                    *)
THEOREM ImplementsFifo ==
  ASSUME Sql!SqlQueueAssumption
  PROVE  Sql!Spec => Sql!IsFifo
  <1>1. Sql!Init => ListInv
    BY ListInit
  <1>2. ListInv /\ [Sql!Next]_(Sql!vars) => ListInv'
    BY ListStep
  <1>3. ListInv => Means
    BY ListMeans DEF Means, Texts
  <1>4. Sql!Init => Sql!Abstract!FifoInit
    <2> SUFFICES ASSUME Sql!Init PROVE Sql!Abstract!FifoInit
      OBVIOUS
    <2>1. PICK n \in Node : alloc = {n} /\ Front = n /\ Rear = n
      BY DEF Sql!Init
    <2>2. Chained(<<n>>)
      BY <2>1 DEF Chained, Sql!Init
    <2>3. ListInv /\ Sql!Contents = Texts(<<n>>)
      BY <1>1, <1>3, <2>2 DEF Means
    <2>4. Texts(<<n>>) \in [1 .. 0 -> Values \cup {NULL}]
      <3>1. Len(<<n>>) = 1
        OBVIOUS
      <3> QED BY <2>2, <2>3, <3>1, TextsType
    <2>5. Texts(<<n>>) = <<>>
      BY <2>4, TextsAre
    <2> QED BY <2>3, <2>5 DEF Sql!Init, Sql!Abstract!FifoInit
  <1>5. ListInv /\ Means /\ Means' /\ [Sql!Next]_(Sql!vars) => [Sql!Abstract!FifoNext]_(Sql!Abstract!fifoVars)
    <2> SUFFICES ASSUME ListInv, Means, Means', [Sql!Next]_(Sql!vars) PROVE Taken
      BY DEF Taken, Sql!Abstract!fifoVars
    <2>1. CASE Sql!Next
      BY <2>1, StepTaken
    <2>2. CASE UNCHANGED Sql!vars
      <3>1. Sql!NodeAt' = Sql!NodeAt
        BY <2>2 DEF Sql!vars, Sql!NodeAt
      <3>2. Sql!Positions' = Sql!Positions
        BY <3>1 DEF Sql!Positions
      <3> QED BY <2>2, <3>1, <3>2 DEF Sql!vars, Sql!Contents, Taken
    <2> QED BY <2>1, <2>2
  <1> QED BY <1>1, <1>2, <1>3, <1>4, <1>5, PTL DEF Sql!Spec, Sql!IsFifo, Sql!Abstract!FifoSpec

-----------------------------------------------------------------------------
(* The ring buffer, with any number of producers and consumers.               *)

Thing == Nat \X Nat

\* The threads of T that are at a place of L.
AtIn(T, f, L) == {t \in T : f[t] \in L}

RingType ==
  /\ locks \in BOOLEAN /\ empty \in Nat /\ full \in Nat
  /\ buffer \in [Ring!Place -> Thing] /\ in \in Ring!Place /\ out \in Ring!Place /\ filled \in Int
  /\ ppc \in [Producer -> {"wait", "lock", "insert", "advance", "post"}]
  /\ made \in [Producer -> 1 .. Items + 1]
  /\ cpc \in [Consumer -> {"wait", "lock", "remove", "advance", "post"}]
  /\ used \in [Consumer -> 0 .. Items]
  /\ item \in [Consumer -> Thing]
  /\ put \in Seq(Thing) /\ got \in Seq(Thing)

\* A thread that is at work has an item left to handle.
Working ==
  /\ \A p \in Producer : ppc[p] # "wait" => p \in Ring!Active /\ made[p] <= Items
  /\ \A c \in Consumer : cpc[c] # "wait" => c \in Ring!Active /\ used[c] < Items
  /\ \A t \in Producer \ Ring!Active : made[t] = 1 /\ used[t] = 0

\* The mutex is held by the one thread that is between Lock and Unlock.
Exclusion ==
  IF locks THEN /\ \A p \in Producer : ppc[p] \in {"insert", "advance"} <=> mutex = <<"producer", p>>
                /\ \A c \in Consumer : cpc[c] \in {"remove", "advance"} <=> mutex = <<"consumer", c>>
           ELSE mutex = Ring!Free

\* Who has taken a unit of a semaphore, and who has still to give one back.
EmptyTaken == AtIn(Producer, ppc, {"lock", "insert"})
FullOwed   == AtIn(Producer, ppc, {"advance", "post"})
FullTaken  == AtIn(Consumer, cpc, {"lock", "remove", "advance"})
EmptyOwed  == AtIn(Consumer, cpc, {"post"})

\* The number of items in the buffer.
Held == Len(put) - Len(got)

Tokens ==
  /\ IsFiniteSet(EmptyTaken) /\ IsFiniteSet(FullOwed) /\ IsFiniteSet(FullTaken) /\ IsFiniteSet(EmptyOwed)
  /\ full + Cardinality(FullOwed) + Cardinality(FullTaken) = Held
  /\ empty + Cardinality(EmptyTaken) + Cardinality(EmptyOwed) = BUFFER_SIZE - Held

\* The items that have been put in, and the turns in which one has been taken out.
PutItems == {pk \in Producer \X (1 .. Items) :
               \/ pk[2] < made[pk[1]]
               \/ pk[2] = made[pk[1]] /\ ppc[pk[1]] \in {"advance", "post"}}
GotTurns == {ck \in Consumer \X (1 .. Items) :
               \/ ck[2] <= used[ck[1]]
               \/ ck[2] = used[ck[1]] + 1 /\ cpc[ck[1]] = "post"}

Turns == /\ IsFiniteSet(PutItems) /\ Cardinality(PutItems) = Len(put)
         /\ IsFiniteSet(GotTurns) /\ Cardinality(GotTurns) = Len(got)

\* The k-th place, counting round the ring once.
Slot(k) == IF k < BUFFER_SIZE THEN k ELSE k - BUFFER_SIZE

\* An item has been put in and in has not moved on.
Advancing == IF \E p \in Producer : ppc[p] = "advance" THEN 1 ELSE 0

Contained ==
  /\ in = Slot(out + Held - Advancing)
  /\ \A i \in 0 .. Held - 1 : buffer[Slot(out + i)] = put[Len(got) + 1 + i]
  /\ \A i \in 1 .. Len(got) : got[i] = put[i]
  /\ \A c \in Consumer : cpc[c] = "advance" => item[c] = put[Len(got) + 1]
  /\ locks => filled = Held - Advancing

RingInv == RingType /\ Working /\ Exclusion /\ Tokens /\ Turns /\ Contained

-----------------------------------------------------------------------------
\* t moves, and nobody else.
Moved(T, f, g, t, to) == DOMAIN f = T /\ t \in T /\ g = [f EXCEPT ![t] = to]

\* What a move does to the number of threads at places of L.
LEMMA AtInMove ==
  ASSUME NEW T, NEW f, NEW g, NEW t, NEW to, Moved(T, f, g, t, to), NEW L, IsFiniteSet(AtIn(T, f, L))
  PROVE  /\ IsFiniteSet(AtIn(T, g, L)) /\ Cardinality(AtIn(T, f, L)) \in Nat
         /\ f[t] \in L /\ to \in L => Cardinality(AtIn(T, g, L)) = Cardinality(AtIn(T, f, L))
         /\ f[t] \notin L /\ to \notin L => Cardinality(AtIn(T, g, L)) = Cardinality(AtIn(T, f, L))
         /\ f[t] \in L /\ to \notin L => Cardinality(AtIn(T, g, L)) = Cardinality(AtIn(T, f, L)) - 1
         /\ f[t] \notin L /\ to \in L => Cardinality(AtIn(T, g, L)) = Cardinality(AtIn(T, f, L)) + 1
  <1> DEFINE A == AtIn(T, f, L)
             B == AtIn(T, g, L)
  <1>1. IsFiniteSet(A) /\ Cardinality(A) \in Nat
    BY FS_CardinalityType
  <1>2. t \in T /\ g[t] = to /\ \A u \in T \ {t} : g[u] = f[u]
    BY DEF Moved
  <1>3. CASE f[t] \in L <=> to \in L
    <2>1. B = A
      BY <1>2, <1>3 DEF AtIn
    <2> QED BY <1>1, <1>3, <2>1
  <1>4. CASE f[t] \in L /\ to \notin L
    <2>1. B = A \ {t} /\ t \in A
      BY <1>2, <1>4 DEF AtIn
    <2> HIDE DEF A, B
    <2>2. IsFiniteSet(B) /\ Cardinality(B) = Cardinality(A) - 1
      BY <1>1, <2>1, FS_RemoveElement
    <2> QED BY <1>1, <1>4, <2>2 DEF A, B
  <1>5. CASE f[t] \notin L /\ to \in L
    <2>1. B = A \cup {t} /\ t \notin A
      BY <1>2, <1>5 DEF AtIn
    <2> HIDE DEF A, B
    <2>2. IsFiniteSet(B) /\ Cardinality(B) = Cardinality(A) + 1
      BY <1>1, <2>1, FS_AddElement
    <2> QED BY <1>1, <1>5, <2>2 DEF A, B
  <1> QED BY <1>3, <1>4, <1>5

\* ... and who is there is counted.
LEMMA AtInSome ==
  ASSUME NEW T, NEW f, NEW t \in T, NEW L, IsFiniteSet(AtIn(T, f, L)), f[t] \in L
  PROVE  Cardinality(AtIn(T, f, L)) >= 1
  <1>1. t \in AtIn(T, f, L)
    BY DEF AtIn
  <1>2. Cardinality(AtIn(T, f, L)) \in Nat /\ (Cardinality(AtIn(T, f, L)) = 0 <=> AtIn(T, f, L) = {})
    BY FS_CardinalityType, FS_EmptySet
  <1> QED BY <1>1, <1>2

\* At most one thread of a kind changes the buffer and its index at a time.
LEMMA OneEach ==
  ASSUME RingType, Working, Exclusion
  PROVE  /\ \A p, q \in Producer : ppc[p] \in {"insert", "advance"} /\ ppc[q] \in {"insert", "advance"} => p = q
         /\ \A c, d \in Consumer : cpc[c] \in {"remove", "advance"} /\ cpc[d] \in {"remove", "advance"} => c = d
         /\ locks => \A p \in Producer, c \in Consumer :
                       ~(ppc[p] \in {"insert", "advance"} /\ cpc[c] \in {"remove", "advance"})
  <1>1. CASE locks
    BY <1>1 DEF Exclusion
  <1>2. CASE ~locks
    BY <1>2 DEF Working, Ring!Active
  <1> QED BY <1>1, <1>2

\* How many items are held, while some thread is at work.
LEMMA HeldFacts ==
  ASSUME Ring!SemBufferAssumption, RingType, Tokens
  PROVE  /\ Len(put) \in Nat /\ Len(got) \in Nat /\ Held \in 0 .. BUFFER_SIZE /\ BUFFER_SIZE \in Nat \ {0}
         /\ \A p \in Producer : ppc[p] \in {"lock", "insert"} => Held < BUFFER_SIZE
         /\ \A c \in Consumer : cpc[c] \in {"lock", "remove", "advance"} => Held > 0
         /\ \A p \in Producer : ppc[p] \in {"advance", "post"} => Held > 0
         /\ \A p \in Producer, c \in Consumer :
               ppc[p] \in {"advance", "post"} /\ cpc[c] \in {"lock", "remove", "advance"} => Held > 1
  <1>1. Len(put) \in Nat /\ Len(got) \in Nat /\ empty \in Nat /\ full \in Nat /\ BUFFER_SIZE \in Nat \ {0}
    BY DEF RingType, Ring!SemBufferAssumption
  <1>2. /\ Cardinality(EmptyTaken) \in Nat /\ Cardinality(FullOwed) \in Nat
        /\ Cardinality(FullTaken) \in Nat /\ Cardinality(EmptyOwed) \in Nat
    BY FS_CardinalityType DEF Tokens
  <1>3. Held \in Int
    BY <1>1 DEF Held
  <1>4. ASSUME NEW p \in Producer, ppc[p] \in {"lock", "insert"} PROVE Cardinality(EmptyTaken) >= 1
    BY <1>4, AtInSome DEF Tokens, EmptyTaken
  <1>5. ASSUME NEW p \in Producer, ppc[p] \in {"advance", "post"} PROVE Cardinality(FullOwed) >= 1
    BY <1>5, AtInSome DEF Tokens, FullOwed
  <1>6. ASSUME NEW c \in Consumer, cpc[c] \in {"lock", "remove", "advance"} PROVE Cardinality(FullTaken) >= 1
    BY <1>6, AtInSome DEF Tokens, FullTaken
  <1>7. /\ full + Cardinality(FullOwed) + Cardinality(FullTaken) = Held
        /\ empty + Cardinality(EmptyTaken) + Cardinality(EmptyOwed) = BUFFER_SIZE - Held
    BY DEF Tokens
  <1> HIDE DEF Held, EmptyTaken, FullOwed, FullTaken, EmptyOwed
  <1>8. Held \in 0 .. BUFFER_SIZE
    BY <1>1, <1>2, <1>3, <1>7
  <1>9. ASSUME NEW p \in Producer, ppc[p] \in {"lock", "insert"} PROVE Held < BUFFER_SIZE
    <2>1. Cardinality(EmptyTaken) >= 1
      BY <1>4, <1>9
    <2> QED BY <1>1, <1>2, <1>3, <1>7, <2>1
  <1>10. ASSUME NEW c \in Consumer, cpc[c] \in {"lock", "remove", "advance"} PROVE Held > 0
    BY <1>1, <1>2, <1>3, <1>6, <1>7, <1>10
  <1>11. ASSUME NEW p \in Producer, ppc[p] \in {"advance", "post"} PROVE Held > 0
    BY <1>1, <1>2, <1>3, <1>5, <1>7, <1>11
  <1>12. ASSUME NEW p \in Producer, NEW c \in Consumer,
                ppc[p] \in {"advance", "post"}, cpc[c] \in {"lock", "remove", "advance"}
         PROVE  Held > 1
    BY <1>1, <1>2, <1>3, <1>5, <1>6, <1>7, <1>12
  <1> QED BY <1>1, <1>8, <1>9, <1>10, <1>11, <1>12

\* (in + 1) % BUFFER_SIZE is the next place of the ring.
LEMMA NextPlace ==
  ASSUME Ring!SemBufferAssumption, NEW i \in Ring!Place
  PROVE  (i + 1) % BUFFER_SIZE = Slot(i + 1) /\ Slot(i + 1) \in Ring!Place
  <1>1. BUFFER_SIZE \in Nat \ {0} /\ i \in 0 .. BUFFER_SIZE - 1
    BY DEF Ring!SemBufferAssumption, Ring!Place
  <1>2. (i + 1) % BUFFER_SIZE = IF i + 1 = BUFFER_SIZE THEN 0 ELSE i + 1
    BY <1>1
  <1>3. Slot(i + 1) = IF i + 1 = BUFFER_SIZE THEN 0 ELSE i + 1
    BY <1>1 DEF Slot
  <1> QED BY <1>1, <1>2, <1>3 DEF Ring!Place

LEMMA RingTypeKept ==
  ASSUME Ring!SemBufferAssumption, RingType, Working, Ring!Next
  PROVE  RingType'
  <1>1. PICK t \in Producer :
          \/ Ring!WaitEmpty(t) \/ Ring!ProducerLock(t) \/ Ring!Insert(t) \/ Ring!ProducerAdvances(t) \/ Ring!PostFull(t)
          \/ Ring!WaitFull(t) \/ Ring!ConsumerLock(t) \/ Ring!Remove(t) \/ Ring!ConsumerAdvances(t) \/ Ring!PostEmpty(t)
    BY DEF Ring!Next
  <1>2. t \in Consumer /\ t \in Nat /\ Items \in Nat
    BY DEF Ring!SemBufferAssumption
  <1>3. CASE Ring!WaitEmpty(t)
    BY <1>3 DEF Ring!WaitEmpty, Ring!Produces, RingType
  <1>4. CASE Ring!ProducerLock(t)
    BY <1>4 DEF Ring!ProducerLock, Ring!Produces, RingType
  <1>5. CASE Ring!Insert(t)
    <2>1. <<t, made[t]>> \in Thing
      BY <1>2 DEF RingType, Thing
    <2>2. put' \in Seq(Thing) /\ buffer' \in [Ring!Place -> Thing]
      BY <1>5, <2>1 DEF Ring!Insert, RingType
    <2> QED BY <1>5, <2>2 DEF Ring!Insert, Ring!Produces, RingType
  <1>6. CASE Ring!ProducerAdvances(t)
    <2>1. in' \in Ring!Place
      BY <1>6, NextPlace DEF Ring!ProducerAdvances, RingType
    <2>2. filled' \in Int
      BY <1>6 DEF Ring!ProducerAdvances, RingType
    <2> QED BY <1>6, <2>1, <2>2 DEF Ring!ProducerAdvances, Ring!Produces, RingType
  <1>7. CASE Ring!PostFull(t)
    <2>1. made[t] \in 1 .. Items + 1 /\ made[t] <= Items
      BY <1>7 DEF Ring!PostFull, Ring!Produces, RingType, Working
    <2>2. made[t] + 1 \in 1 .. Items + 1
      BY <1>2, <2>1
    <2>3. made' \in [Producer -> 1 .. Items + 1]
      BY <1>7, <2>2 DEF Ring!PostFull, RingType
    <2> QED BY <1>7, <2>3 DEF Ring!PostFull, Ring!Produces, RingType
  <1>8. CASE Ring!WaitFull(t)
    BY <1>2, <1>8 DEF Ring!WaitFull, Ring!Consumes, RingType
  <1>9. CASE Ring!ConsumerLock(t)
    BY <1>9 DEF Ring!ConsumerLock, Ring!Consumes, RingType
  <1>10. CASE Ring!Remove(t)
    <2>1. buffer[out] \in Thing
      BY DEF RingType
    <2>2. item' \in [Consumer -> Thing]
      BY <1>10, <2>1 DEF Ring!Remove, RingType
    <2> QED BY <1>10, <2>2 DEF Ring!Remove, Ring!Consumes, RingType
  <1>11. CASE Ring!ConsumerAdvances(t)
    <2>1. out' \in Ring!Place
      BY <1>11, NextPlace DEF Ring!ConsumerAdvances, RingType
    <2>2. filled' \in Int
      BY <1>11 DEF Ring!ConsumerAdvances, RingType
    <2>3. got' \in Seq(Thing)
      BY <1>2, <1>11 DEF Ring!ConsumerAdvances, RingType
    <2> QED BY <1>11, <2>1, <2>2, <2>3 DEF Ring!ConsumerAdvances, Ring!Consumes, RingType
  <1>12. CASE Ring!PostEmpty(t)
    <2>1. used[t] \in 0 .. Items /\ used[t] < Items
      BY <1>2, <1>12 DEF Ring!PostEmpty, Ring!Consumes, RingType, Working
    <2>2. used[t] + 1 \in 0 .. Items
      BY <1>2, <2>1
    <2>3. used' \in [Consumer -> 0 .. Items]
      BY <1>12, <2>2 DEF Ring!PostEmpty, RingType
    <2> QED BY <1>12, <2>3 DEF Ring!PostEmpty, Ring!Consumes, RingType
  <1> QED BY <1>1, <1>3, <1>4, <1>5, <1>6, <1>7, <1>8, <1>9, <1>10, <1>11, <1>12

LEMMA WorkingKept ==
  ASSUME Ring!SemBufferAssumption, RingType, Working, Ring!Next
  PROVE  Working'
  <1>1. PICK t \in Producer :
          \/ Ring!WaitEmpty(t) \/ Ring!ProducerLock(t) \/ Ring!Insert(t) \/ Ring!ProducerAdvances(t) \/ Ring!PostFull(t)
          \/ Ring!WaitFull(t) \/ Ring!ConsumerLock(t) \/ Ring!Remove(t) \/ Ring!ConsumerAdvances(t) \/ Ring!PostEmpty(t)
    BY DEF Ring!Next
  <1>2. t \in Consumer /\ Items \in Nat /\ made[t] \in Nat /\ used[t] \in Nat
    BY DEF Ring!SemBufferAssumption, RingType
  <1>3. Ring!Active' = Ring!Active /\ t \in Ring!Active /\ locks' = locks
    BY <1>1 DEF Ring!WaitEmpty, Ring!ProducerLock, Ring!Insert, Ring!ProducerAdvances, Ring!PostFull, Ring!WaitFull, Ring!ConsumerLock, Ring!Remove,
                Ring!ConsumerAdvances, Ring!PostEmpty, Ring!Produces, Ring!Consumes, Ring!Active
  <1>4. /\ DOMAIN ppc = Producer /\ DOMAIN cpc = Consumer /\ DOMAIN made = Producer /\ DOMAIN used = Consumer
        /\ Producer = Consumer
    BY DEF RingType, Ring!SemBufferAssumption
  <1>5. ASSUME NEW from, NEW to, Ring!Produces(t, from, to), made' = made, UNCHANGED <<cpc, used>>,
               from # "wait" \/ made[t] <= Items
        PROVE  Working'
    BY <1>3, <1>4, <1>5 DEF Working, Ring!Produces
  <1>6. ASSUME NEW from, NEW to, Ring!Consumes(t, from, to), used' = used, UNCHANGED <<ppc, made>>,
               from # "wait" \/ used[t] < Items
        PROVE  Working'
    BY <1>2, <1>3, <1>4, <1>6 DEF Working, Ring!Consumes
  <1>7. CASE Ring!PostFull(t)
    BY <1>3, <1>4, <1>7 DEF Ring!PostFull, Ring!Produces, Working
  <1>8. CASE Ring!PostEmpty(t)
    BY <1>2, <1>3, <1>4, <1>8 DEF Ring!PostEmpty, Ring!Consumes, Working
  <1>9. CASE Ring!WaitEmpty(t)
    BY <1>5, <1>9 DEF Ring!WaitEmpty
  <1>10. CASE Ring!ProducerLock(t)
    BY <1>5, <1>10 DEF Ring!ProducerLock
  <1>11. CASE Ring!Insert(t)
    BY <1>5, <1>11 DEF Ring!Insert
  <1>12. CASE Ring!ProducerAdvances(t)
    BY <1>5, <1>12 DEF Ring!ProducerAdvances
  <1>13. CASE Ring!WaitFull(t)
    BY <1>6, <1>13 DEF Ring!WaitFull
  <1>14. CASE Ring!ConsumerLock(t)
    BY <1>6, <1>14 DEF Ring!ConsumerLock
  <1>15. CASE Ring!Remove(t)
    BY <1>6, <1>15 DEF Ring!Remove
  <1>16. CASE Ring!ConsumerAdvances(t)
    BY <1>6, <1>16 DEF Ring!ConsumerAdvances
  <1> QED BY <1>1, <1>7, <1>8, <1>9, <1>10, <1>11, <1>12, <1>13, <1>14, <1>15, <1>16

LEMMA ExclusionKept ==
  ASSUME Ring!SemBufferAssumption, RingType, Working, Exclusion, Ring!Next
  PROVE  Exclusion'
  <1>1. PICK t \in Producer :
          \/ Ring!WaitEmpty(t) \/ Ring!ProducerLock(t) \/ Ring!Insert(t) \/ Ring!ProducerAdvances(t) \/ Ring!PostFull(t)
          \/ Ring!WaitFull(t) \/ Ring!ConsumerLock(t) \/ Ring!Remove(t) \/ Ring!ConsumerAdvances(t) \/ Ring!PostEmpty(t)
    BY DEF Ring!Next
  <1>2. t \in Consumer /\ DOMAIN ppc = Producer /\ DOMAIN cpc = Consumer
    BY DEF Ring!SemBufferAssumption, RingType
  <1>3. locks' = locks
    BY <1>1 DEF Ring!WaitEmpty, Ring!ProducerLock, Ring!Insert, Ring!ProducerAdvances, Ring!PostFull, Ring!WaitFull, Ring!ConsumerLock, Ring!Remove,
                Ring!ConsumerAdvances, Ring!PostEmpty
  <1>4. CASE ~locks
    <2>1. mutex' = Ring!Free
      BY <1>1, <1>4 DEF Ring!WaitEmpty, Ring!ProducerLock, Ring!Insert, Ring!ProducerAdvances, Ring!PostFull, Ring!WaitFull, Ring!ConsumerLock, Ring!Remove,
                Ring!ConsumerAdvances, Ring!PostEmpty, Ring!Lock, Ring!Unlock, Exclusion
    <2> QED BY <1>3, <1>4, <2>1 DEF Exclusion
  <1>5. CASE locks
    <2>1. \A p : Ring!Free # <<"producer", p>> /\ Ring!Free # <<"consumer", p>>
      BY DEF Ring!Free
    <2>2. /\ \A p, q : <<"producer", p>> # <<"consumer", q>>
          /\ \A p, q : <<"producer", p>> = <<"producer", q>> => p = q
          /\ \A p, q : <<"consumer", p>> = <<"consumer", q>> => p = q
      OBVIOUS
    <2>3. /\ \A p \in Producer : ppc[p] \in {"insert", "advance"} <=> mutex = <<"producer", p>>
          /\ \A c \in Consumer : cpc[c] \in {"remove", "advance"} <=> mutex = <<"consumer", c>>
      BY <1>5 DEF Exclusion
    <2>4. ASSUME NEW from, NEW to, Ring!Produces(t, from, to), UNCHANGED <<cpc, mutex>>,
                 from \in {"insert", "advance"} <=> to \in {"insert", "advance"}
          PROVE  Exclusion'
      BY <1>2, <1>3, <1>5, <2>3, <2>4 DEF Exclusion, Ring!Produces
    <2>5. ASSUME NEW from, NEW to, Ring!Consumes(t, from, to), UNCHANGED <<ppc, mutex>>,
                 from \in {"remove", "advance"} <=> to \in {"remove", "advance"}
          PROVE  Exclusion'
      BY <1>2, <1>3, <1>5, <2>3, <2>5 DEF Exclusion, Ring!Consumes
    <2>6. CASE Ring!ProducerLock(t)
      <3>1. mutex = Ring!Free /\ mutex' = <<"producer", t>> /\ ppc' = [ppc EXCEPT ![t] = "insert"] /\ cpc' = cpc
        BY <1>5, <2>6 DEF Ring!ProducerLock, Ring!Lock, Ring!Produces
      <3> QED BY <1>2, <1>3, <1>5, <2>1, <2>2, <2>3, <3>1 DEF Exclusion
    <2>7. CASE Ring!ConsumerLock(t)
      <3>1. mutex = Ring!Free /\ mutex' = <<"consumer", t>> /\ cpc' = [cpc EXCEPT ![t] = "remove"] /\ ppc' = ppc
        BY <1>5, <2>7 DEF Ring!ConsumerLock, Ring!Lock, Ring!Consumes
      <3> QED BY <1>2, <1>3, <1>5, <2>1, <2>2, <2>3, <3>1 DEF Exclusion
    <2>8. CASE Ring!ProducerAdvances(t)
      <3>1. ppc[t] = "advance" /\ mutex' = Ring!Free /\ ppc' = [ppc EXCEPT ![t] = "post"] /\ cpc' = cpc
        BY <2>8 DEF Ring!ProducerAdvances, Ring!Unlock, Ring!Produces
      <3>2. mutex = <<"producer", t>>
        BY <2>3, <3>1
      <3> QED BY <1>2, <1>3, <1>5, <2>1, <2>2, <2>3, <3>1, <3>2 DEF Exclusion
    <2>9. CASE Ring!ConsumerAdvances(t)
      <3>1. cpc[t] = "advance" /\ mutex' = Ring!Free /\ cpc' = [cpc EXCEPT ![t] = "post"] /\ ppc' = ppc
        BY <2>9 DEF Ring!ConsumerAdvances, Ring!Unlock, Ring!Consumes
      <3>2. mutex = <<"consumer", t>>
        BY <1>2, <2>3, <3>1
      <3> QED BY <1>2, <1>3, <1>5, <2>1, <2>2, <2>3, <3>1, <3>2 DEF Exclusion
    <2>10. CASE Ring!WaitEmpty(t)
      BY <2>4, <2>10 DEF Ring!WaitEmpty
    <2>11. CASE Ring!Insert(t)
      BY <2>4, <2>11 DEF Ring!Insert
    <2>12. CASE Ring!PostFull(t)
      BY <2>4, <2>12 DEF Ring!PostFull
    <2>13. CASE Ring!WaitFull(t)
      BY <2>5, <2>13 DEF Ring!WaitFull
    <2>14. CASE Ring!Remove(t)
      BY <2>5, <2>14 DEF Ring!Remove
    <2>15. CASE Ring!PostEmpty(t)
      BY <2>5, <2>15 DEF Ring!PostEmpty
    <2> QED BY <1>1, <2>6, <2>7, <2>8, <2>9, <2>10, <2>11, <2>12, <2>13, <2>14, <2>15
  <1> QED BY <1>4, <1>5

\* A unit of a semaphore is somewhere: in it, with the thread that has taken it, or in an item.
LEMMA TokensKept ==
  ASSUME Ring!SemBufferAssumption, RingType, Tokens, Ring!Next
  PROVE  Tokens'
  <1>1. PICK t \in Producer :
          \/ Ring!WaitEmpty(t) \/ Ring!ProducerLock(t) \/ Ring!Insert(t) \/ Ring!ProducerAdvances(t) \/ Ring!PostFull(t)
          \/ Ring!WaitFull(t) \/ Ring!ConsumerLock(t) \/ Ring!Remove(t) \/ Ring!ConsumerAdvances(t) \/ Ring!PostEmpty(t)
    BY DEF Ring!Next
  <1>2. t \in Consumer /\ DOMAIN ppc = Producer /\ DOMAIN cpc = Consumer
    BY DEF Ring!SemBufferAssumption, RingType
  <1>3. /\ Len(put) \in Nat /\ Len(got) \in Nat /\ empty \in Nat /\ full \in Nat /\ BUFFER_SIZE \in Nat
        /\ put \in Seq(Thing) /\ got \in Seq(Thing)
    BY DEF Ring!SemBufferAssumption, RingType
  <1>4. /\ IsFiniteSet(EmptyTaken) /\ IsFiniteSet(FullOwed) /\ IsFiniteSet(FullTaken) /\ IsFiniteSet(EmptyOwed)
        /\ full + Cardinality(FullOwed) + Cardinality(FullTaken) = Held
        /\ empty + Cardinality(EmptyTaken) + Cardinality(EmptyOwed) = BUFFER_SIZE - Held
    BY DEF Tokens
  <1>5. /\ Cardinality(EmptyTaken) \in Nat /\ Cardinality(FullOwed) \in Nat
        /\ Cardinality(FullTaken) \in Nat /\ Cardinality(EmptyOwed) \in Nat
    BY <1>4, FS_CardinalityType
  <1>6. ASSUME NEW from, NEW to, Ring!Produces(t, from, to), cpc' = cpc
        PROVE  /\ IsFiniteSet(EmptyTaken') /\ IsFiniteSet(FullOwed') /\ FullTaken' = FullTaken /\ EmptyOwed' = EmptyOwed
               /\ (from \in {"lock", "insert"} <=> to \in {"lock", "insert"}) => Cardinality(EmptyTaken') = Cardinality(EmptyTaken)
               /\ from \in {"lock", "insert"} /\ to \notin {"lock", "insert"} => Cardinality(EmptyTaken') = Cardinality(EmptyTaken) - 1
               /\ from \notin {"lock", "insert"} /\ to \in {"lock", "insert"} => Cardinality(EmptyTaken') = Cardinality(EmptyTaken) + 1
               /\ (from \in {"advance", "post"} <=> to \in {"advance", "post"}) => Cardinality(FullOwed') = Cardinality(FullOwed)
               /\ from \in {"advance", "post"} /\ to \notin {"advance", "post"} => Cardinality(FullOwed') = Cardinality(FullOwed) - 1
               /\ from \notin {"advance", "post"} /\ to \in {"advance", "post"} => Cardinality(FullOwed') = Cardinality(FullOwed) + 1
    <2>1. ppc' = [ppc EXCEPT ![t] = to] /\ ppc[t] = from
      BY <1>6 DEF Ring!Produces
    <2>2. FullTaken' = FullTaken /\ EmptyOwed' = EmptyOwed
      BY <1>6 DEF FullTaken, EmptyOwed, AtIn
    <2>3. EmptyTaken' = AtIn(Producer, ppc', {"lock", "insert"}) /\ FullOwed' = AtIn(Producer, ppc', {"advance", "post"})
      BY DEF EmptyTaken, FullOwed, AtIn
    <2>4. EmptyTaken = AtIn(Producer, ppc, {"lock", "insert"}) /\ FullOwed = AtIn(Producer, ppc, {"advance", "post"})
      BY DEF EmptyTaken, FullOwed
    <2>5. /\ IsFiniteSet(EmptyTaken')
          /\ (from \in {"lock", "insert"} <=> to \in {"lock", "insert"}) => Cardinality(EmptyTaken') = Cardinality(EmptyTaken)
          /\ from \in {"lock", "insert"} /\ to \notin {"lock", "insert"} => Cardinality(EmptyTaken') = Cardinality(EmptyTaken) - 1
          /\ from \notin {"lock", "insert"} /\ to \in {"lock", "insert"} => Cardinality(EmptyTaken') = Cardinality(EmptyTaken) + 1
      <3>1. PICK f, g, L : f = ppc /\ g = ppc' /\ L = {"lock", "insert"}
        OBVIOUS
      <3>2. Moved(Producer, f, g, t, to) /\ IsFiniteSet(AtIn(Producer, f, L)) /\ f[t] = from
        BY <1>2, <1>4, <2>1, <2>4, <3>1 DEF Moved
      <3>3. /\ IsFiniteSet(AtIn(Producer, g, L))
            /\ f[t] \in L /\ to \in L => Cardinality(AtIn(Producer, g, L)) = Cardinality(AtIn(Producer, f, L))
            /\ f[t] \notin L /\ to \notin L => Cardinality(AtIn(Producer, g, L)) = Cardinality(AtIn(Producer, f, L))
            /\ f[t] \in L /\ to \notin L => Cardinality(AtIn(Producer, g, L)) = Cardinality(AtIn(Producer, f, L)) - 1
            /\ f[t] \notin L /\ to \in L => Cardinality(AtIn(Producer, g, L)) = Cardinality(AtIn(Producer, f, L)) + 1
        BY <3>2, AtInMove
      <3>4. EmptyTaken' = AtIn(Producer, g, L) /\ EmptyTaken = AtIn(Producer, f, L)
        BY <2>3, <2>4, <3>1
      <3>5. \A x : x \in L <=> x \in {"lock", "insert"}
        BY <3>1
      <3> QED BY <3>2, <3>3, <3>4, <3>5
    <2>6. /\ IsFiniteSet(FullOwed')
          /\ (from \in {"advance", "post"} <=> to \in {"advance", "post"}) => Cardinality(FullOwed') = Cardinality(FullOwed)
          /\ from \in {"advance", "post"} /\ to \notin {"advance", "post"} => Cardinality(FullOwed') = Cardinality(FullOwed) - 1
          /\ from \notin {"advance", "post"} /\ to \in {"advance", "post"} => Cardinality(FullOwed') = Cardinality(FullOwed) + 1
      <3>1. PICK f, g, L : f = ppc /\ g = ppc' /\ L = {"advance", "post"}
        OBVIOUS
      <3>2. Moved(Producer, f, g, t, to) /\ IsFiniteSet(AtIn(Producer, f, L)) /\ f[t] = from
        BY <1>2, <1>4, <2>1, <2>4, <3>1 DEF Moved
      <3>3. /\ IsFiniteSet(AtIn(Producer, g, L))
            /\ f[t] \in L /\ to \in L => Cardinality(AtIn(Producer, g, L)) = Cardinality(AtIn(Producer, f, L))
            /\ f[t] \notin L /\ to \notin L => Cardinality(AtIn(Producer, g, L)) = Cardinality(AtIn(Producer, f, L))
            /\ f[t] \in L /\ to \notin L => Cardinality(AtIn(Producer, g, L)) = Cardinality(AtIn(Producer, f, L)) - 1
            /\ f[t] \notin L /\ to \in L => Cardinality(AtIn(Producer, g, L)) = Cardinality(AtIn(Producer, f, L)) + 1
        BY <3>2, AtInMove
      <3>4. FullOwed' = AtIn(Producer, g, L) /\ FullOwed = AtIn(Producer, f, L)
        BY <2>3, <2>4, <3>1
      <3>5. \A x : x \in L <=> x \in {"advance", "post"}
        BY <3>1
      <3> QED BY <3>2, <3>3, <3>4, <3>5
    <2> QED BY <2>2, <2>5, <2>6
  <1>7. ASSUME NEW from, NEW to, Ring!Consumes(t, from, to), ppc' = ppc
        PROVE  /\ IsFiniteSet(FullTaken') /\ IsFiniteSet(EmptyOwed') /\ EmptyTaken' = EmptyTaken /\ FullOwed' = FullOwed
               /\ (from \in {"lock", "remove", "advance"} <=> to \in {"lock", "remove", "advance"})
                     => Cardinality(FullTaken') = Cardinality(FullTaken)
               /\ from \in {"lock", "remove", "advance"} /\ to \notin {"lock", "remove", "advance"}
                     => Cardinality(FullTaken') = Cardinality(FullTaken) - 1
               /\ from \notin {"lock", "remove", "advance"} /\ to \in {"lock", "remove", "advance"}
                     => Cardinality(FullTaken') = Cardinality(FullTaken) + 1
               /\ (from \in {"post"} <=> to \in {"post"}) => Cardinality(EmptyOwed') = Cardinality(EmptyOwed)
               /\ from \in {"post"} /\ to \notin {"post"} => Cardinality(EmptyOwed') = Cardinality(EmptyOwed) - 1
               /\ from \notin {"post"} /\ to \in {"post"} => Cardinality(EmptyOwed') = Cardinality(EmptyOwed) + 1
    <2>1. cpc' = [cpc EXCEPT ![t] = to] /\ cpc[t] = from
      BY <1>7 DEF Ring!Consumes
    <2>2. EmptyTaken' = EmptyTaken /\ FullOwed' = FullOwed
      BY <1>7 DEF EmptyTaken, FullOwed, AtIn
    <2>3. FullTaken' = AtIn(Consumer, cpc', {"lock", "remove", "advance"}) /\ EmptyOwed' = AtIn(Consumer, cpc', {"post"})
      BY DEF FullTaken, EmptyOwed, AtIn
    <2>4. FullTaken = AtIn(Consumer, cpc, {"lock", "remove", "advance"}) /\ EmptyOwed = AtIn(Consumer, cpc, {"post"})
      BY DEF FullTaken, EmptyOwed
    <2>5. /\ IsFiniteSet(FullTaken')
          /\ (from \in {"lock", "remove", "advance"} <=> to \in {"lock", "remove", "advance"})
                     => Cardinality(FullTaken') = Cardinality(FullTaken)
          /\ from \in {"lock", "remove", "advance"} /\ to \notin {"lock", "remove", "advance"}
                     => Cardinality(FullTaken') = Cardinality(FullTaken) - 1
          /\ from \notin {"lock", "remove", "advance"} /\ to \in {"lock", "remove", "advance"}
                     => Cardinality(FullTaken') = Cardinality(FullTaken) + 1
      <3>1. PICK f, g, L : f = cpc /\ g = cpc' /\ L = {"lock", "remove", "advance"}
        OBVIOUS
      <3>2. Moved(Consumer, f, g, t, to) /\ IsFiniteSet(AtIn(Consumer, f, L)) /\ f[t] = from
        BY <1>2, <1>4, <2>1, <2>4, <3>1 DEF Moved
      <3>3. /\ IsFiniteSet(AtIn(Consumer, g, L))
            /\ f[t] \in L /\ to \in L => Cardinality(AtIn(Consumer, g, L)) = Cardinality(AtIn(Consumer, f, L))
            /\ f[t] \notin L /\ to \notin L => Cardinality(AtIn(Consumer, g, L)) = Cardinality(AtIn(Consumer, f, L))
            /\ f[t] \in L /\ to \notin L => Cardinality(AtIn(Consumer, g, L)) = Cardinality(AtIn(Consumer, f, L)) - 1
            /\ f[t] \notin L /\ to \in L => Cardinality(AtIn(Consumer, g, L)) = Cardinality(AtIn(Consumer, f, L)) + 1
        BY <3>2, AtInMove
      <3>4. FullTaken' = AtIn(Consumer, g, L) /\ FullTaken = AtIn(Consumer, f, L)
        BY <2>3, <2>4, <3>1
      <3>5. \A x : x \in L <=> x \in {"lock", "remove", "advance"}
        BY <3>1
      <3> QED BY <3>2, <3>3, <3>4, <3>5
    <2>6. /\ IsFiniteSet(EmptyOwed')
          /\ (from \in {"post"} <=> to \in {"post"}) => Cardinality(EmptyOwed') = Cardinality(EmptyOwed)
          /\ from \in {"post"} /\ to \notin {"post"} => Cardinality(EmptyOwed') = Cardinality(EmptyOwed) - 1
          /\ from \notin {"post"} /\ to \in {"post"} => Cardinality(EmptyOwed') = Cardinality(EmptyOwed) + 1
      <3>1. PICK f, g, L : f = cpc /\ g = cpc' /\ L = {"post"}
        OBVIOUS
      <3>2. Moved(Consumer, f, g, t, to) /\ IsFiniteSet(AtIn(Consumer, f, L)) /\ f[t] = from
        BY <1>2, <1>4, <2>1, <2>4, <3>1 DEF Moved
      <3>3. /\ IsFiniteSet(AtIn(Consumer, g, L))
            /\ f[t] \in L /\ to \in L => Cardinality(AtIn(Consumer, g, L)) = Cardinality(AtIn(Consumer, f, L))
            /\ f[t] \notin L /\ to \notin L => Cardinality(AtIn(Consumer, g, L)) = Cardinality(AtIn(Consumer, f, L))
            /\ f[t] \in L /\ to \notin L => Cardinality(AtIn(Consumer, g, L)) = Cardinality(AtIn(Consumer, f, L)) - 1
            /\ f[t] \notin L /\ to \in L => Cardinality(AtIn(Consumer, g, L)) = Cardinality(AtIn(Consumer, f, L)) + 1
        BY <3>2, AtInMove
      <3>4. EmptyOwed' = AtIn(Consumer, g, L) /\ EmptyOwed = AtIn(Consumer, f, L)
        BY <2>3, <2>4, <3>1
      <3>5. \A x : x \in L <=> x \in {"post"}
        BY <3>1
      <3> QED BY <3>2, <3>3, <3>4, <3>5
    <2> QED BY <2>2, <2>5, <2>6
  <1>8. Held = Len(put) - Len(got) /\ Held' = Len(put') - Len(got') /\ Held \in Int
    BY <1>3 DEF Held
  <1>19. empty \in Nat /\ full \in Nat /\ BUFFER_SIZE \in Nat
    BY <1>3
  <1> SUFFICES /\ IsFiniteSet(EmptyTaken') /\ IsFiniteSet(FullOwed') /\ IsFiniteSet(FullTaken') /\ IsFiniteSet(EmptyOwed')
               /\ full' + Cardinality(FullOwed') + Cardinality(FullTaken') = Held'
               /\ empty' + Cardinality(EmptyTaken') + Cardinality(EmptyOwed') = BUFFER_SIZE - Held'
    BY DEF Tokens
  <1> HIDE DEF EmptyTaken, FullOwed, FullTaken, EmptyOwed, Held
  <1>9. CASE Ring!WaitEmpty(t)
    <2>1. Cardinality(EmptyTaken') = Cardinality(EmptyTaken) + 1 /\ Cardinality(FullOwed') = Cardinality(FullOwed)
      BY <1>6, <1>9 DEF Ring!WaitEmpty
    <2>2. empty' = empty - 1 /\ full' = full /\ put' = put /\ got' = got
      BY <1>9 DEF Ring!WaitEmpty
    <2>3. IsFiniteSet(EmptyTaken') /\ IsFiniteSet(FullOwed') /\ FullTaken' = FullTaken /\ EmptyOwed' = EmptyOwed
      BY <1>6, <1>9 DEF Ring!WaitEmpty
    <2> QED BY <1>3, <1>4, <1>5, <1>8, <2>1, <2>2, <2>3
  <1>10. CASE Ring!ProducerLock(t)
    <2>1. Cardinality(EmptyTaken') = Cardinality(EmptyTaken) /\ Cardinality(FullOwed') = Cardinality(FullOwed)
      BY <1>6, <1>10 DEF Ring!ProducerLock
    <2>2. empty' = empty /\ full' = full /\ put' = put /\ got' = got
      BY <1>10 DEF Ring!ProducerLock
    <2>3. IsFiniteSet(EmptyTaken') /\ IsFiniteSet(FullOwed') /\ FullTaken' = FullTaken /\ EmptyOwed' = EmptyOwed
      BY <1>6, <1>10 DEF Ring!ProducerLock
    <2> QED BY <1>3, <1>4, <1>5, <1>8, <2>1, <2>2, <2>3
  <1>11. CASE Ring!Insert(t)
    <2>1. Cardinality(EmptyTaken') = Cardinality(EmptyTaken) - 1 /\ Cardinality(FullOwed') = Cardinality(FullOwed) + 1
      BY <1>6, <1>11 DEF Ring!Insert
    <2>2. empty' = empty /\ full' = full /\ Len(put') = Len(put) + 1 /\ got' = got
      BY <1>3, <1>11 DEF Ring!Insert
    <2>3. IsFiniteSet(EmptyTaken') /\ IsFiniteSet(FullOwed') /\ FullTaken' = FullTaken /\ EmptyOwed' = EmptyOwed
      BY <1>6, <1>11 DEF Ring!Insert
    <2>4. Held' = Held + 1 /\ Held \in Int
      BY <1>3, <1>8, <2>2
    <2> QED BY <1>4, <1>5, <1>19, <2>1, <2>2, <2>3, <2>4
  <1>12. CASE Ring!ProducerAdvances(t)
    <2>1. Cardinality(EmptyTaken') = Cardinality(EmptyTaken) /\ Cardinality(FullOwed') = Cardinality(FullOwed)
      BY <1>6, <1>12 DEF Ring!ProducerAdvances
    <2>2. empty' = empty /\ full' = full /\ put' = put /\ got' = got
      BY <1>12 DEF Ring!ProducerAdvances
    <2>3. IsFiniteSet(EmptyTaken') /\ IsFiniteSet(FullOwed') /\ FullTaken' = FullTaken /\ EmptyOwed' = EmptyOwed
      BY <1>6, <1>12 DEF Ring!ProducerAdvances
    <2> QED BY <1>3, <1>4, <1>5, <1>8, <2>1, <2>2, <2>3
  <1>13. CASE Ring!PostFull(t)
    <2>1. Cardinality(EmptyTaken') = Cardinality(EmptyTaken) /\ Cardinality(FullOwed') = Cardinality(FullOwed) - 1
      BY <1>6, <1>13 DEF Ring!PostFull
    <2>2. empty' = empty /\ full' = full + 1 /\ put' = put /\ got' = got
      BY <1>13 DEF Ring!PostFull
    <2>3. IsFiniteSet(EmptyTaken') /\ IsFiniteSet(FullOwed') /\ FullTaken' = FullTaken /\ EmptyOwed' = EmptyOwed
      BY <1>6, <1>13 DEF Ring!PostFull
    <2> QED BY <1>3, <1>4, <1>5, <1>8, <2>1, <2>2, <2>3
  <1>14. CASE Ring!WaitFull(t)
    <2>1. Cardinality(FullTaken') = Cardinality(FullTaken) + 1 /\ Cardinality(EmptyOwed') = Cardinality(EmptyOwed)
      BY <1>7, <1>14 DEF Ring!WaitFull
    <2>2. empty' = empty /\ full' = full - 1 /\ put' = put /\ got' = got
      BY <1>14 DEF Ring!WaitFull
    <2>3. IsFiniteSet(FullTaken') /\ IsFiniteSet(EmptyOwed') /\ EmptyTaken' = EmptyTaken /\ FullOwed' = FullOwed
      BY <1>7, <1>14 DEF Ring!WaitFull
    <2> QED BY <1>3, <1>4, <1>5, <1>8, <2>1, <2>2, <2>3
  <1>15. CASE Ring!ConsumerLock(t)
    <2>1. Cardinality(FullTaken') = Cardinality(FullTaken) /\ Cardinality(EmptyOwed') = Cardinality(EmptyOwed)
      BY <1>7, <1>15 DEF Ring!ConsumerLock
    <2>2. empty' = empty /\ full' = full /\ put' = put /\ got' = got
      BY <1>15 DEF Ring!ConsumerLock
    <2>3. IsFiniteSet(FullTaken') /\ IsFiniteSet(EmptyOwed') /\ EmptyTaken' = EmptyTaken /\ FullOwed' = FullOwed
      BY <1>7, <1>15 DEF Ring!ConsumerLock
    <2> QED BY <1>3, <1>4, <1>5, <1>8, <2>1, <2>2, <2>3
  <1>16. CASE Ring!Remove(t)
    <2>1. Cardinality(FullTaken') = Cardinality(FullTaken) /\ Cardinality(EmptyOwed') = Cardinality(EmptyOwed)
      BY <1>7, <1>16 DEF Ring!Remove
    <2>2. empty' = empty /\ full' = full /\ put' = put /\ got' = got
      BY <1>16 DEF Ring!Remove
    <2>3. IsFiniteSet(FullTaken') /\ IsFiniteSet(EmptyOwed') /\ EmptyTaken' = EmptyTaken /\ FullOwed' = FullOwed
      BY <1>7, <1>16 DEF Ring!Remove
    <2> QED BY <1>3, <1>4, <1>5, <1>8, <2>1, <2>2, <2>3
  <1>17. CASE Ring!ConsumerAdvances(t)
    <2>1. Cardinality(FullTaken') = Cardinality(FullTaken) - 1 /\ Cardinality(EmptyOwed') = Cardinality(EmptyOwed) + 1
      BY <1>7, <1>17 DEF Ring!ConsumerAdvances
    <2>2. empty' = empty /\ full' = full /\ put' = put /\ Len(got') = Len(got) + 1
      BY <1>3, <1>17 DEF Ring!ConsumerAdvances
    <2>3. IsFiniteSet(FullTaken') /\ IsFiniteSet(EmptyOwed') /\ EmptyTaken' = EmptyTaken /\ FullOwed' = FullOwed
      BY <1>7, <1>17 DEF Ring!ConsumerAdvances
    <2>4. Held' = Held - 1 /\ Held \in Int
      BY <1>3, <1>8, <2>2
    <2> QED BY <1>4, <1>5, <1>19, <2>1, <2>2, <2>3, <2>4
  <1>18. CASE Ring!PostEmpty(t)
    <2>1. Cardinality(FullTaken') = Cardinality(FullTaken) /\ Cardinality(EmptyOwed') = Cardinality(EmptyOwed) - 1
      BY <1>7, <1>18 DEF Ring!PostEmpty
    <2>2. empty' = empty + 1 /\ full' = full /\ put' = put /\ got' = got
      BY <1>18 DEF Ring!PostEmpty
    <2>3. IsFiniteSet(FullTaken') /\ IsFiniteSet(EmptyOwed') /\ EmptyTaken' = EmptyTaken /\ FullOwed' = FullOwed
      BY <1>7, <1>18 DEF Ring!PostEmpty
    <2> QED BY <1>3, <1>4, <1>5, <1>8, <2>1, <2>2, <2>3
  <1> QED BY <1>1, <1>9, <1>10, <1>11, <1>12, <1>13, <1>14, <1>15, <1>16, <1>17, <1>18

LEMMA TurnsKept ==
  ASSUME Ring!SemBufferAssumption, RingType, Working, Turns, Ring!Next
  PROVE  Turns'
  <1>1. PICK t \in Producer :
          \/ Ring!WaitEmpty(t) \/ Ring!ProducerLock(t) \/ Ring!Insert(t) \/ Ring!ProducerAdvances(t) \/ Ring!PostFull(t)
          \/ Ring!WaitFull(t) \/ Ring!ConsumerLock(t) \/ Ring!Remove(t) \/ Ring!ConsumerAdvances(t) \/ Ring!PostEmpty(t)
    BY DEF Ring!Next
  <1>2. /\ t \in Consumer /\ DOMAIN ppc = Producer /\ DOMAIN cpc = Consumer /\ Items \in Nat
        /\ DOMAIN made = Producer /\ DOMAIN used = Consumer
        /\ \A p \in Producer : made[p] \in 1 .. Items + 1
        /\ \A c \in Consumer : used[c] \in 0 .. Items
        /\ Len(put) \in Nat /\ Len(got) \in Nat /\ put \in Seq(Thing) /\ got \in Seq(Thing)
    BY DEF Ring!SemBufferAssumption, RingType
  <1>3. /\ IsFiniteSet(PutItems) /\ Cardinality(PutItems) = Len(put)
        /\ IsFiniteSet(GotTurns) /\ Cardinality(GotTurns) = Len(got)
    BY DEF Turns
  <1>4. ASSUME PutItems' = PutItems, GotTurns' = GotTurns, put' = put, got' = got PROVE Turns'
    BY <1>3, <1>4 DEF Turns
  <1>5. ASSUME UNCHANGED <<ppc, made>> PROVE PutItems' = PutItems
    BY <1>5 DEF PutItems
  <1>6. ASSUME UNCHANGED <<cpc, used>> PROVE GotTurns' = GotTurns
    BY <1>6 DEF GotTurns
  <1>7. ASSUME NEW from, NEW to, Ring!Produces(t, from, to), made' = made,
               from \in {"advance", "post"} <=> to \in {"advance", "post"}
        PROVE  PutItems' = PutItems
    BY <1>2, <1>7 DEF PutItems, Ring!Produces
  <1>8. ASSUME NEW from, NEW to, Ring!Consumes(t, from, to), used' = used, from # "post", to # "post"
        PROVE  GotTurns' = GotTurns
    BY <1>2, <1>8 DEF GotTurns, Ring!Consumes
  <1>9. CASE Ring!WaitEmpty(t)
    BY <1>4, <1>6, <1>7, <1>9 DEF Ring!WaitEmpty
  <1>10. CASE Ring!ProducerLock(t)
    BY <1>4, <1>6, <1>7, <1>10 DEF Ring!ProducerLock
  <1>11. CASE Ring!ProducerAdvances(t)
    BY <1>4, <1>6, <1>7, <1>11 DEF Ring!ProducerAdvances
  <1>12. CASE Ring!WaitFull(t)
    BY <1>4, <1>5, <1>8, <1>12 DEF Ring!WaitFull
  <1>13. CASE Ring!ConsumerLock(t)
    BY <1>4, <1>5, <1>8, <1>13 DEF Ring!ConsumerLock
  <1>14. CASE Ring!Remove(t)
    BY <1>4, <1>5, <1>8, <1>14 DEF Ring!Remove
  <1>15. CASE Ring!Insert(t)
    <2>1. made[t] \in 1 .. Items
      BY <1>2, <1>15 DEF Ring!Insert, Ring!Produces, Working
    <2>2. ppc[t] = "insert" /\ ppc' = [ppc EXCEPT ![t] = "advance"] /\ made' = made
      BY <1>15 DEF Ring!Insert, Ring!Produces
    <2>3. PutItems' = PutItems \cup {<<t, made[t]>>} /\ <<t, made[t]>> \notin PutItems
      BY <1>2, <2>1, <2>2 DEF PutItems
    <2>4. GotTurns' = GotTurns /\ got' = got
      BY <1>6, <1>15 DEF Ring!Insert
    <2>5. Len(put') = Len(put) + 1
      BY <1>2, <1>15 DEF Ring!Insert
    <2> HIDE DEF PutItems, GotTurns
    <2>6. IsFiniteSet(PutItems') /\ Cardinality(PutItems') = Cardinality(PutItems) + 1
      BY <1>3, <2>3, FS_AddElement
    <2> QED BY <1>3, <2>4, <2>5, <2>6 DEF Turns
  <1>16. CASE Ring!PostFull(t)
    <2>1. ppc[t] = "post" /\ ppc' = [ppc EXCEPT ![t] = "wait"] /\ made' = [made EXCEPT ![t] = @ + 1]
      BY <1>16 DEF Ring!PostFull, Ring!Produces
    <2>2. PutItems' = PutItems
      <3>1. ASSUME NEW p \in Producer, NEW k \in 1 .. Items
            PROVE  (k < made'[p] \/ (k = made'[p] /\ ppc'[p] \in {"advance", "post"}))
                     <=> (k < made[p] \/ (k = made[p] /\ ppc[p] \in {"advance", "post"}))
        <4>1. CASE p = t
          <5>1. made'[p] = made[p] + 1 /\ ppc'[p] = "wait" /\ ppc[p] = "post" /\ made[p] \in Nat
            BY <1>2, <2>1, <4>1
          <5> QED BY <5>1
        <4>2. CASE p # t
          BY <1>2, <2>1, <4>2
        <4> QED BY <4>1, <4>2
      <3> QED BY <3>1 DEF PutItems
    <2> QED BY <1>4, <1>6, <1>16, <2>2 DEF Ring!PostFull
  <1>17. CASE Ring!ConsumerAdvances(t)
    <2>1. used[t] + 1 \in 1 .. Items
      <3>1. cpc[t] = "advance"
        BY <1>17 DEF Ring!ConsumerAdvances, Ring!Consumes
      <3>2. used[t] < Items /\ used[t] \in 0 .. Items
        BY <1>2, <3>1 DEF Working
      <3> QED BY <1>2, <3>2
    <2>2. cpc[t] = "advance" /\ cpc' = [cpc EXCEPT ![t] = "post"] /\ used' = used
      BY <1>17 DEF Ring!ConsumerAdvances, Ring!Consumes
    <2>3. GotTurns' = GotTurns \cup {<<t, used[t] + 1>>} /\ <<t, used[t] + 1>> \notin GotTurns
      BY <1>2, <2>1, <2>2 DEF GotTurns
    <2>4. PutItems' = PutItems /\ put' = put
      BY <1>5, <1>17 DEF Ring!ConsumerAdvances
    <2>5. Len(got') = Len(got) + 1
      BY <1>2, <1>17 DEF Ring!ConsumerAdvances
    <2> HIDE DEF PutItems, GotTurns
    <2>6. IsFiniteSet(GotTurns') /\ Cardinality(GotTurns') = Cardinality(GotTurns) + 1
      BY <1>3, <2>3, FS_AddElement
    <2> QED BY <1>3, <2>4, <2>5, <2>6 DEF Turns
  <1>18. CASE Ring!PostEmpty(t)
    <2>1. cpc[t] = "post" /\ cpc' = [cpc EXCEPT ![t] = "wait"] /\ used' = [used EXCEPT ![t] = @ + 1]
      BY <1>18 DEF Ring!PostEmpty, Ring!Consumes
    <2>2. GotTurns' = GotTurns
      <3>1. ASSUME NEW c \in Consumer, NEW k \in 1 .. Items
            PROVE  (k <= used'[c] \/ (k = used'[c] + 1 /\ cpc'[c] = "post"))
                     <=> (k <= used[c] \/ (k = used[c] + 1 /\ cpc[c] = "post"))
        <4>1. CASE c = t
          <5>1. used'[c] = used[c] + 1 /\ cpc'[c] = "wait" /\ cpc[c] = "post" /\ used[c] \in Nat
            BY <1>2, <2>1, <4>1
          <5> QED BY <5>1
        <4>2. CASE c # t
          BY <1>2, <2>1, <4>2
        <4> QED BY <4>1, <4>2
      <3> QED BY <3>1 DEF GotTurns
    <2> QED BY <1>4, <1>5, <1>18, <2>2 DEF Ring!PostEmpty
  <1> QED BY <1>1, <1>9, <1>10, <1>11, <1>12, <1>13, <1>14, <1>15, <1>16, <1>17, <1>18

\* Places that are less than the size of the buffer apart are different.
LEMMA SlotFacts ==
  ASSUME Ring!SemBufferAssumption, NEW o \in Ring!Place
  PROVE  /\ \A k \in 0 .. BUFFER_SIZE : Slot(o + k) \in Ring!Place
         /\ \A k, m \in 0 .. BUFFER_SIZE - 1 : Slot(o + k) = Slot(o + m) => k = m
         /\ \A k \in 0 .. BUFFER_SIZE - 1 : Slot(Slot(o + 1) + k) = Slot(o + (k + 1))
                                            /\ Slot(Slot(o + k) + 1) = Slot(o + (k + 1))
         /\ Slot(o) = o /\ Slot(o + 0) = o
  BY DEF Ring!SemBufferAssumption, Ring!Place, Slot

\* Whether a producer is between the item and its index.
LEMMA AdvancingIs ==
  ASSUME RingType, Working, Exclusion
  PROVE  /\ Advancing \in {0, 1}
         /\ \A p \in Producer : ppc[p] = "insert" => Advancing = 0
         /\ \A p \in Producer : ppc[p] = "advance" => Advancing = 1
         /\ Advancing = 1 => \E p \in Producer : ppc[p] = "advance"
         /\ \A p \in Producer : \A to : ppc[p] = "advance" /\ to # "advance" /\ ppc' = [ppc EXCEPT ![p] = to] => Advancing' = 0
         /\ \A p \in Producer : ppc' = [ppc EXCEPT ![p] = "advance"] => Advancing' = 1
         /\ \A p \in Producer : \A to : ppc[p] # "advance" /\ to # "advance" /\ ppc' = [ppc EXCEPT ![p] = to]
               => Advancing' = Advancing
         /\ ppc' = ppc => Advancing' = Advancing
  <1>1. \A p, q \in Producer : ppc[p] \in {"insert", "advance"} /\ ppc[q] \in {"insert", "advance"} => p = q
    BY OneEach
  <1>2. DOMAIN ppc = Producer
    BY DEF RingType
  <1> QED BY <1>1, <1>2 DEF Advancing

\* Steps that change nothing the buffer's contents are made of.
LEMMA ContainedSame ==
  ASSUME Contained, UNCHANGED <<locks, in, out, filled, buffer, put, got>>, Advancing' = Advancing,
         \A c \in Consumer : cpc'[c] = "advance" => cpc[c] = "advance" /\ item'[c] = item[c]
  PROVE  Contained'
  <1>1. Held' = Held
    BY DEF Held
  <1> QED BY <1>1 DEF Contained, Slot

LEMMA ContainedKept ==
  ASSUME Ring!SemBufferAssumption, RingType, Working, Exclusion, Tokens, Contained, Ring!Next
  PROVE  Contained'
  <1>1. PICK t \in Producer :
          \/ Ring!WaitEmpty(t) \/ Ring!ProducerLock(t) \/ Ring!Insert(t) \/ Ring!ProducerAdvances(t) \/ Ring!PostFull(t)
          \/ Ring!WaitFull(t) \/ Ring!ConsumerLock(t) \/ Ring!Remove(t) \/ Ring!ConsumerAdvances(t) \/ Ring!PostEmpty(t)
    BY DEF Ring!Next
  <1>2. t \in Consumer /\ DOMAIN ppc = Producer /\ DOMAIN cpc = Consumer /\ DOMAIN item = Consumer
    BY DEF Ring!SemBufferAssumption, RingType
  <1>3. ASSUME NEW from, NEW to, Ring!Produces(t, from, to), from # "advance", to # "advance"
        PROVE  Advancing' = Advancing
    BY <1>3, AdvancingIs DEF Ring!Produces
  <1>4. ASSUME NEW from, NEW to, Ring!Consumes(t, from, to), to # "advance"
        PROVE  \A c \in Consumer : cpc'[c] = "advance" => cpc[c] = "advance"
    BY <1>2, <1>4 DEF Ring!Consumes
  <1>5. ppc' = ppc => Advancing' = Advancing
    BY AdvancingIs
  <1>H. /\ Len(put) \in Nat /\ Len(got) \in Nat /\ Held \in 0 .. BUFFER_SIZE /\ BUFFER_SIZE \in Nat \ {0}
        /\ Held = Len(put) - Len(got) /\ Advancing \in {0, 1}
        /\ put \in Seq(Thing) /\ got \in Seq(Thing) /\ in \in Ring!Place /\ out \in Ring!Place /\ Ring!Place \subseteq Int
        /\ buffer \in [Ring!Place -> Thing] /\ filled \in Int
    BY HeldFacts, AdvancingIs DEF RingType, Held, Ring!Place
  <1>C. /\ in = Slot(out + Held - Advancing)
        /\ \A i \in 0 .. Held - 1 : buffer[Slot(out + i)] = put[Len(got) + 1 + i]
        /\ \A i \in 1 .. Len(got) : got[i] = put[i]
        /\ \A c \in Consumer : cpc[c] = "advance" => item[c] = put[Len(got) + 1]
        /\ locks => filled = Held - Advancing
    BY DEF Contained
  <1>6. CASE Ring!WaitEmpty(t)
    BY <1>3, <1>6, ContainedSame DEF Ring!WaitEmpty
  <1>7. CASE Ring!ProducerLock(t)
    BY <1>3, <1>7, ContainedSame DEF Ring!ProducerLock
  <1>8. CASE Ring!PostFull(t)
    BY <1>3, <1>8, ContainedSame DEF Ring!PostFull
  <1>9. CASE Ring!WaitFull(t)
    BY <1>4, <1>5, <1>9, ContainedSame DEF Ring!WaitFull
  <1>10. CASE Ring!ConsumerLock(t)
    BY <1>4, <1>5, <1>10, ContainedSame DEF Ring!ConsumerLock
  <1>11. CASE Ring!PostEmpty(t)
    BY <1>4, <1>5, <1>11, ContainedSame DEF Ring!PostEmpty
  <1>12. CASE Ring!Insert(t)
    <2> DEFINE x == <<t, made[t]>>
    <2>1. /\ ppc[t] = "insert" /\ ppc' = [ppc EXCEPT ![t] = "advance"] /\ buffer' = [buffer EXCEPT ![in] = x]
          /\ put' = Append(put, x) /\ UNCHANGED <<locks, in, out, filled, cpc, item, got>>
      BY <1>12 DEF Ring!Insert, Ring!Produces
    <2>2. Advancing = 0 /\ Advancing' = 1
      BY <2>1, AdvancingIs
    <2>3. Held < BUFFER_SIZE
      BY <2>1, HeldFacts
    <2>4. /\ Held' = Held + 1 /\ Len(got) + 1 + Held = Len(put) + 1 /\ put'[Len(put) + 1] = x
          /\ \A k \in 1 .. Len(put) : put'[k] = put[k]
      BY <1>H, <2>1 DEF Held
    <2>5. in = Slot(out + Held)
      BY <1>H, <1>C, <2>2
    <2>6. ASSUME NEW k \in 0 .. Held' - 1 PROVE buffer'[Slot(out + k)] = put'[Len(got) + 1 + k]
      <3>1. CASE k = Held
        BY <1>H, <2>1, <2>4, <2>5, <3>1
      <3>2. CASE k < Held
        <4>5. k \in 0 .. BUFFER_SIZE - 1 /\ k \in 0 .. BUFFER_SIZE /\ Held \in 0 .. BUFFER_SIZE - 1 /\ k # Held
          BY <1>H, <2>3, <2>4, <3>2
        <4>1. Slot(out + k) # in /\ Slot(out + k) \in Ring!Place
          BY <1>H, <2>5, <4>5, SlotFacts
        <4>2. buffer'[Slot(out + k)] = buffer[Slot(out + k)]
          BY <1>H, <2>1, <4>1
        <4>3. k \in 0 .. Held - 1 /\ Len(got) + 1 + k \in 1 .. Len(put)
          BY <1>H, <2>4, <3>2
        <4> QED BY <1>C, <2>4, <4>2, <4>3
      <3>3. Held' - 1 = Held /\ k \in 0 .. Held
        BY <1>H, <2>4, <2>6
      <3>4. k = Held \/ k < Held
        BY <1>H, <3>3
      <3> QED BY <3>1, <3>2, <3>4
    <2>7. \A i \in 1 .. Len(got) : got[i] = put'[i]
      BY <1>H, <1>C, <2>4
    <2>8. ASSUME NEW c \in Consumer, cpc[c] = "advance" PROVE item[c] = put'[Len(got) + 1]
      <3>1. Held > 0
        BY <2>8, HeldFacts
      <3>2. Len(got) + 1 \in 1 .. Len(put)
        BY <1>H, <2>4, <3>1
      <3> QED BY <1>C, <2>4, <2>8, <3>2
    <2>9. in' = Slot(out' + Held' - Advancing') /\ (locks' => filled' = Held' - Advancing')
      <3>1. out + Held = out + (Held + 1) - 1 /\ Held - 0 = (Held + 1) - 1
        BY <1>H
      <3> QED BY <1>C, <2>1, <2>2, <2>4, <2>5, <3>1 DEF Slot
    <2>10. \A k : Slot(k)' = Slot(k)
      BY DEF Slot
    <2> QED BY <2>1, <2>6, <2>7, <2>8, <2>9 DEF Contained, Slot
  <1>13. CASE Ring!ProducerAdvances(t)
    <2>1. /\ ppc[t] = "advance" /\ ppc' = [ppc EXCEPT ![t] = "post"] /\ in' = (in + 1) % BUFFER_SIZE
          /\ filled' = (IF locks THEN filled + 1 ELSE filled)
          /\ UNCHANGED <<locks, out, buffer, cpc, item, put, got>>
      BY <1>13 DEF Ring!ProducerAdvances, Ring!Produces
    <2>2. Advancing = 1 /\ Advancing' = 0
      BY <2>1, AdvancingIs
    <2>3. Held > 0 /\ Held' = Held
      BY <2>1, HeldFacts DEF Held
    <2>4. Held - 1 \in 0 .. BUFFER_SIZE - 1 /\ out + Held - 1 = out + (Held - 1) /\ out + (Held - 1 + 1) = out + Held - 0
      BY <1>H, <2>3
    <2>5. Slot(Slot(out + (Held - 1)) + 1) = Slot(out + (Held - 1 + 1))
      BY <1>H, <2>4, SlotFacts
    <2>6. in' = Slot(in + 1)
      BY <1>H, <2>1, NextPlace
    <2>7. in' = Slot(out + Held - 0)
      BY <1>C, <2>2, <2>4, <2>5, <2>6
    <2>8. locks => filled' = Held - 0
      BY <1>H, <1>C, <2>1, <2>2
    <2> QED BY <1>C, <2>1, <2>2, <2>3, <2>7, <2>8 DEF Contained, Slot
  <1>14. CASE Ring!Remove(t)
    <2>1. /\ cpc[t] = "remove" /\ cpc' = [cpc EXCEPT ![t] = "advance"] /\ item' = [item EXCEPT ![t] = buffer[out]]
          /\ UNCHANGED <<locks, in, out, filled, ppc, buffer, put, got>>
      BY <1>14 DEF Ring!Remove, Ring!Consumes
    <2>2. Held > 0 /\ Held' = Held
      BY <1>2, <2>1, HeldFacts DEF Held
    <2>3. 0 \in 0 .. Held - 1 /\ Len(got) + 1 + 0 = Len(got) + 1 /\ Slot(out + 0) = out
      BY <1>H, <2>2, SlotFacts
    <2>4. buffer[out] = put[Len(got) + 1]
      BY <1>C, <2>3
    <2>5. \A c \in Consumer : cpc'[c] = "advance" => item'[c] = put[Len(got) + 1]
      BY <1>2, <1>C, <2>1, <2>4
    <2>6. Advancing' = Advancing
      BY <1>5, <2>1
    <2> QED BY <1>C, <2>1, <2>2, <2>5, <2>6 DEF Contained, Slot
  <1>15. CASE Ring!ConsumerAdvances(t)
    <2>1. /\ cpc[t] = "advance" /\ cpc' = [cpc EXCEPT ![t] = "post"] /\ out' = (out + 1) % BUFFER_SIZE
          /\ filled' = (IF locks THEN filled - 1 ELSE filled) /\ got' = Append(got, item[t])
          /\ UNCHANGED <<locks, in, ppc, buffer, item, put>>
      BY <1>15 DEF Ring!ConsumerAdvances, Ring!Consumes
    <2>2. Held > 0 /\ (Advancing = 1 => Held > 1) /\ Advancing' = Advancing
      BY <1>2, <1>5, <2>1, HeldFacts, AdvancingIs
    <2>3. item[t] = put[Len(got) + 1]
      BY <1>2, <1>C, <2>1
    <2>4. /\ Held' = Held - 1 /\ Len(got') = Len(got) + 1 /\ got'[Len(got) + 1] = item[t]
          /\ \A k \in 1 .. Len(got) : got'[k] = got[k]
      BY <1>2, <1>H, <2>1 DEF Held, RingType
    <2>5. out' = Slot(out + 1)
      BY <1>H, <2>1, NextPlace
    <2>6. Held - 1 - Advancing \in 0 .. BUFFER_SIZE - 1
      BY <1>H, <2>2
    <2>7. out + Held - Advancing = out + (Held - 1 - Advancing + 1)
          /\ Slot(out + 1) + (Held - 1) - Advancing = Slot(out + 1) + (Held - 1 - Advancing)
      <3>1. Slot(out + 1) \in Ring!Place
        BY <1>H, NextPlace
      <3> QED BY <1>H, <3>1
    <2>8. Slot(Slot(out + 1) + (Held - 1 - Advancing)) = Slot(out + (Held - 1 - Advancing + 1))
      BY <1>H, <2>6, SlotFacts
    <2>9. in = Slot(out' + Held' - Advancing')
      BY <1>C, <2>2, <2>4, <2>5, <2>7, <2>8
    <2>10. ASSUME NEW k \in 0 .. Held' - 1 PROVE buffer[Slot(out' + k)] = put[Len(got') + 1 + k]
      <3>1. k \in 0 .. BUFFER_SIZE - 1 /\ k + 1 \in 0 .. Held - 1 /\ Len(got) + 1 + (k + 1) = Len(got) + 1 + 1 + k
        BY <1>H, <2>4
      <3>2. Slot(out' + k) = Slot(out + (k + 1))
        BY <1>H, <2>5, <3>1, SlotFacts
      <3>3. buffer[Slot(out + (k + 1))] = put[Len(got) + 1 + (k + 1)]
        BY <1>C, <3>1
      <3> QED BY <2>4, <3>1, <3>2, <3>3
    <2>11. ASSUME NEW k \in 1 .. Len(got') PROVE got'[k] = put[k]
      <3>1. k \in 1 .. Len(got) \/ k = Len(got) + 1
        BY <1>H, <2>4
      <3> QED BY <1>C, <2>3, <2>4, <3>1
    <2>12. ASSUME NEW c \in Consumer, cpc'[c] = "advance" PROVE FALSE
      <3>1. c # t /\ cpc[c] = "advance"
        BY <1>2, <2>1, <2>12
      <3> QED BY <1>2, <2>1, <3>1, OneEach
    <2>13. ASSUME locks PROVE filled' = Held' - Advancing'
      <3>1. filled' = filled - 1 /\ filled = Held - Advancing
        BY <1>C, <2>1, <2>13
      <3>2. Held - Advancing - 1 = Held - 1 - Advancing
        BY <1>H
      <3> QED BY <2>2, <2>4, <3>1, <3>2
    <2>14. in' = Slot(out' + Held' - Advancing') /\ (locks' => filled' = Held' - Advancing')
      BY <2>1, <2>9, <2>13
    <2>15. \A i \in 0 .. Held' - 1 : buffer'[Slot(out' + i)] = put'[Len(got') + 1 + i]
      BY <2>1, <2>10
    <2>16. \A i \in 1 .. Len(got') : got'[i] = put'[i]
      BY <2>1, <2>11
    <2> HIDE DEF Held, Advancing
    <2> QED BY <2>12, <2>14, <2>15, <2>16 DEF Contained, Slot
  <1> QED BY <1>1, <1>6, <1>7, <1>8, <1>9, <1>10, <1>11, <1>12, <1>13, <1>14, <1>15

LEMMA RingInit ==
  ASSUME Ring!SemBufferAssumption, Ring!Init PROVE RingInv
  <1>1. /\ BUFFER_SIZE \in Nat \ {0} /\ Items \in Nat /\ Producer = Consumer /\ 1 \in Producer /\ 0 \in Ring!Place
    BY DEF Ring!SemBufferAssumption, Ring!Place
  <1>2. RingType
    BY <1>1 DEF Ring!Init, RingType, Thing, Ring!Place
  <1>3. Working /\ Exclusion
    BY <1>1 DEF Ring!Init, Working, Exclusion, Ring!Free
  <1>4. /\ EmptyTaken = {} /\ FullOwed = {} /\ FullTaken = {} /\ EmptyOwed = {}
        /\ PutItems = {} /\ GotTurns = {}
    BY <1>1 DEF Ring!Init, EmptyTaken, FullOwed, FullTaken, EmptyOwed, AtIn, PutItems, GotTurns
  <1>5. IsFiniteSet({}) /\ Cardinality({}) = 0 /\ Len(put) = 0 /\ Len(got) = 0 /\ full = 0 /\ empty = BUFFER_SIZE
    BY FS_EmptySet DEF Ring!Init
  <1>6. Held = 0 /\ Advancing = 0
    BY <1>5 DEF Ring!Init, Held, Advancing
  <1>7. Tokens /\ Turns
    BY <1>1, <1>4, <1>5, <1>6 DEF Tokens, Turns
  <1>8. Contained
    BY <1>1, <1>5, <1>6 DEF Ring!Init, Contained, Slot
  <1> QED BY <1>2, <1>3, <1>7, <1>8 DEF RingInv

LEMMA RingStep ==
  ASSUME Ring!SemBufferAssumption, RingInv, [Ring!Next]_(Ring!vars) PROVE RingInv'
  <1>1. CASE UNCHANGED Ring!vars
    BY <1>1 DEF Ring!vars, RingInv, RingType, Working, Ring!Active, Exclusion, Tokens, EmptyTaken, FullOwed, FullTaken, EmptyOwed,
                AtIn, Held, Turns, PutItems, GotTurns, Contained, Slot, Advancing
  <1>2. CASE Ring!Next
    BY <1>2, RingTypeKept, WorkingKept, ExclusionKept, TokensKept, TurnsKept, ContainedKept DEF RingInv
  <1> QED BY <1>1, <1>2

\* When everybody has finished, as many turns have been had as items put in.
LEMMA AllHandled ==
  ASSUME Ring!SemBufferAssumption, RingType, Working, Turns, Ring!Joined PROVE Len(got) = Len(put)
  <1>1. Producer = Consumer /\ Items \in Nat
    BY DEF Ring!SemBufferAssumption
  <1>2. ASSUME NEW t \in Producer, NEW k \in 1 .. Items
        PROVE  (k < made[t] \/ (k = made[t] /\ ppc[t] \in {"advance", "post"}))
                 <=> (k <= used[t] \/ (k = used[t] + 1 /\ cpc[t] = "post"))
    <2>1. made[t] \in 1 .. Items + 1 /\ used[t] \in 0 .. Items
      BY <1>1 DEF RingType
    <2>2. CASE t \in Ring!Active
      <3>1. made[t] > Items /\ used[t] = Items
        BY <2>2 DEF Ring!Joined
      <3>2. k < made[t] /\ k <= used[t]
        BY <1>1, <2>1, <3>1
      <3> QED BY <3>2
    <2>3. CASE t \notin Ring!Active
      <3>1. made[t] = 1 /\ used[t] = 0 /\ ppc[t] = "wait" /\ cpc[t] = "wait"
        BY <1>1, <2>3 DEF Working, RingType
      <3> QED BY <1>1, <3>1
    <2> QED BY <2>2, <2>3
  <1>3. PutItems = GotTurns
    BY <1>1, <1>2 DEF PutItems, GotTurns
  <1> QED BY <1>3 DEF Turns

LEMMA RingImplies ==
  ASSUME Ring!SemBufferAssumption, RingInv PROVE Ring!FirstInFirstOut
  <1>1. /\ Len(put) \in Nat /\ Len(got) \in Nat /\ Held \in 0 .. BUFFER_SIZE /\ BUFFER_SIZE \in Nat \ {0}
        /\ Held = Len(put) - Len(got) /\ put \in Seq(Thing) /\ got \in Seq(Thing)
    BY HeldFacts DEF RingInv, RingType, Held
  <1>2. \A i \in 1 .. Len(got) : got[i] = put[i]
    BY DEF RingInv, Contained
  <1>3. got = SubSeq(put, 1, Len(got))
    BY <1>1, <1>2
  <1>4. ASSUME locks, mutex = Ring!Free PROVE filled = Len(put) - Len(got)
    <2>1. Advancing = 0
      <3>1. \A p \in Producer : ppc[p] # "advance"
        BY <1>4 DEF RingInv, Exclusion, Ring!Free
      <3> QED BY <3>1 DEF Advancing
    <2> QED BY <1>1, <1>4, <2>1 DEF RingInv, Contained
  <1>5. ASSUME Ring!Joined PROVE got = put
    <2>1. Len(got) = Len(put)
      BY <1>5, AllHandled DEF RingInv
    <2> QED BY <1>1, <1>2, <2>1
  <1> QED BY <1>1, <1>3, <1>4, <1>5 DEF Ring!FirstInFirstOut

(* With any number of producers, consumers and places, what is taken out of the *)
(* ring buffer is what was put in, in order, and nothing not yet taken is        *)
(* written over; at the end everything has been taken (semaphone_and_mutex.c,    *)
(* test.c).                                                                      *)
THEOREM RingIsFifo ==
  ASSUME Ring!SemBufferAssumption PROVE Ring!Spec => []Ring!FirstInFirstOut
  <1>1. Ring!Init => RingInv
    BY RingInit
  <1>2. RingInv /\ [Ring!Next]_(Ring!vars) => RingInv'
    BY RingStep
  <1>3. RingInv => Ring!FirstInFirstOut
    BY RingImplies
  <1> QED BY <1>1, <1>2, <1>3, PTL DEF Ring!Spec

-----------------------------------------------------------------------------
(* The list with a condition, with any number of producers and consumers.     *)

\* This instance has its own names as well.
LEMMA CondSets == \A S : (Cond!IsFiniteSet(S) <=> IsFiniteSet(S)) /\ Cond!Cardinality(S) = Cardinality(S)
  <1>1. ASSUME NEW S PROVE Cond!IsFiniteSet(S) <=> IsFiniteSet(S)
    BY Zenon DEF Cond!IsFiniteSet, IsFiniteSet
  <1>2. ASSUME NEW S PROVE Cond!Cardinality(S) = Cardinality(S)
    BY Zenon DEF Cond!Cardinality, Cardinality, Cond!IsFiniteSet, IsFiniteSet
  <1> QED BY <1>1, <1>2

\* What the variables hold.
CondType ==
  /\ head \in Cond!Msg \cup {NULL} /\ next \in [Cond!Msg -> Cond!Msg \cup {NULL}]
  /\ making \in [Producer -> {"lock", "link", "push", "wake"}]
  /\ num \in [Producer -> 1 .. Items + 1]
  /\ taking \in [Consumer -> {"lock", "look", "asleep", "take", "free"}]
  /\ mp \in [Consumer -> Cond!Msg \cup {NULL}]
  /\ consumed \subseteq Cond!Msg

\* Who changes head holds the mutex.
Locked ==
  /\ \A p \in Producer : making[p] \in {"link", "push"} => lock = <<"producer", p>>
  /\ \A c \in Consumer : taking[c] \in {"look", "take"} => lock = <<"consumer", c>>

\* What a thread has at hand.
AtHand ==
  /\ \A p \in Producer : /\ making[p] # "lock" => num[p] <= Items
                         /\ making[p] = "push" => next[<<p, num[p]>>] = head
  /\ \A c \in Consumer : /\ taking[c] = "take" => mp[c] = head
                         /\ taking[c] \in {"take", "free"} <=> mp[c] # NULL

\* A message is taken by one consumer, after it has been pushed.
TakenOnce ==
  /\ \A c, d \in Consumer : taking[c] = "free" /\ taking[d] = "free" /\ mp[c] = mp[d] => c = d
  /\ \A c \in Consumer : taking[c] = "free" => mp[c] \notin consumed
  /\ Cond!Taken \subseteq Cond!Pushed

\* The messages of the list, from head on.
Linked(s) ==
  /\ s \in Seq(Cond!Msg)
  /\ \A i, j \in 1 .. Len(s) : s[i] = s[j] => i = j
  /\ {s[i] : i \in 1 .. Len(s)} = Cond!Pushed \ Cond!Taken
  /\ head = IF Len(s) = 0 THEN NULL ELSE s[1]
  /\ \A i \in 1 .. Len(s) : next[s[i]] = IF i = Len(s) THEN NULL ELSE s[i + 1]

\* Somebody will see what is on the list.
Noticed == head # NULL => Cond!Asleep # Consumer \/ \E p \in Producer : making[p] = "wake"

CondBase == CondType /\ Locked /\ AtHand /\ TakenOnce /\ Noticed
CondInv == CondBase /\ \E s : Linked(s)

-----------------------------------------------------------------------------
\* One thread at a time is between lock and unlock.
LEMMA OneHolds ==
  ASSUME Cond!CondQueueAssumption, Locked
  PROVE  /\ \A p, q \in Producer : making[p] \in {"link", "push"} /\ making[q] \in {"link", "push"} => p = q
         /\ \A c, d \in Consumer : taking[c] \in {"look", "take"} /\ taking[d] \in {"look", "take"} => c = d
         /\ \A p \in Producer, c \in Consumer : ~(making[p] \in {"link", "push"} /\ taking[c] \in {"look", "take"})
         /\ lock = NULL => /\ \A p \in Producer : making[p] \notin {"link", "push"}
                           /\ \A c \in Consumer : taking[c] \notin {"look", "take"}
  <1>1. /\ \A p \in Producer : NULL # <<"producer", p>>
        /\ \A c \in Consumer : NULL # <<"consumer", c>>
    BY DEF Cond!CondQueueAssumption
  <1> QED BY <1>1 DEF Locked

\* The message at hand.
LEMMA InHand ==
  ASSUME CondType, AtHand
  PROVE  /\ \A p \in Producer : num[p] <= Items => <<p, num[p]>> \in Cond!Msg
         /\ \A p \in Producer : making[p] # "lock" => <<p, num[p]>> \in Cond!Msg
         /\ \A c \in Consumer : taking[c] \in {"take", "free"} => mp[c] \in Cond!Msg
  BY DEF CondType, AtHand, Cond!Msg

LEMMA CondTypeKept ==
  ASSUME Cond!CondQueueAssumption, CondType, AtHand, Cond!Next
  PROVE  CondType'
  <1>1. CASE \E p \in Producer : Cond!ProducerLocks(p)
    BY <1>1 DEF Cond!ProducerLocks, Cond!Produces, CondType
  <1>2. ASSUME NEW p \in Producer, Cond!Link(p) PROVE CondType'
    <2>1. next' \in [Cond!Msg -> Cond!Msg \cup {NULL}]
      BY <1>2 DEF Cond!Link, CondType
    <2> QED BY <1>2, <2>1 DEF Cond!Link, Cond!Produces, CondType
  <1>3. ASSUME NEW p \in Producer, Cond!Push(p) PROVE CondType'
    <2>1. making[p] = "push"
      BY <1>3 DEF Cond!Push, Cond!Produces
    <2>2. <<p, num[p]>> \in Cond!Msg
      BY <2>1, InHand
    <2> QED BY <1>3, <2>2 DEF Cond!Push, Cond!Produces, CondType
  <1>4. ASSUME NEW p \in Producer, Cond!Wake(p) PROVE CondType'
    <2>1. making[p] = "wake" /\ Items \in Nat
      BY <1>4 DEF Cond!Wake, Cond!Produces, Cond!CondQueueAssumption
    <2>2. num[p] + 1 \in 1 .. Items + 1
      <3>1. num[p] <= Items /\ num[p] \in 1 .. Items + 1
        BY <2>1 DEF AtHand, CondType
      <3> QED BY <2>1, <3>1
    <2>3. num' \in [Producer -> 1 .. Items + 1]
      BY <1>4, <2>2 DEF Cond!Wake, CondType
    <2>4. PICK S : taking' = [c \in Consumer |-> IF c \in S THEN "lock" ELSE taking[c]]
      BY <1>4 DEF Cond!Wake
    <2>5. taking' \in [Consumer -> {"lock", "look", "asleep", "take", "free"}]
      BY <2>4 DEF CondType
    <2> QED BY <1>4, <2>3, <2>5 DEF Cond!Wake, Cond!Produces, CondType
  <1>5. CASE \E c \in Consumer : Cond!ConsumerLocks(c) \/ Cond!Sleep(c) \/ Cond!WakesUp(c)
    BY <1>5 DEF Cond!ConsumerLocks, Cond!Sleep, Cond!WakesUp, Cond!Consumes, CondType
  <1>6. ASSUME NEW c \in Consumer, Cond!Look(c) PROVE CondType'
    BY <1>6 DEF Cond!Look, Cond!Consumes, CondType
  <1>7. ASSUME NEW c \in Consumer, Cond!Take(c) PROVE CondType'
    <2>1. taking[c] = "take"
      BY <1>7 DEF Cond!Take, Cond!Consumes
    <2>2. next[mp[c]] \in Cond!Msg \cup {NULL}
      BY <2>1, InHand DEF CondType
    <2> QED BY <1>7, <2>2 DEF Cond!Take, Cond!Consumes, CondType
  <1>8. ASSUME NEW c \in Consumer, Cond!Free(c) PROVE CondType'
    <2>1. taking[c] = "free"
      BY <1>8 DEF Cond!Free, Cond!Consumes
    <2>2. mp[c] \in Cond!Msg
      BY <2>1, InHand
    <2> QED BY <1>8, <2>2 DEF Cond!Free, Cond!Consumes, CondType
  <1> QED BY <1>1, <1>2, <1>3, <1>4, <1>5, <1>6, <1>7, <1>8 DEF Cond!Next

LEMMA LockedKept ==
  ASSUME Cond!CondQueueAssumption, CondType, Locked, Cond!Next
  PROVE  Locked'
  <1>1. DOMAIN making = Producer /\ DOMAIN taking = Consumer
    BY DEF CondType
  <1>2. ASSUME NEW p \in Producer, Cond!ProducerLocks(p) \/ Cond!Link(p) \/ Cond!Push(p) PROVE Locked'
    BY <1>1, <1>2, OneHolds DEF Cond!ProducerLocks, Cond!Link, Cond!Push, Cond!Produces, Cond!Lock, Cond!Unlock, Locked
  <1>3. ASSUME NEW p \in Producer, Cond!Wake(p) PROVE Locked'
    <2>1. \A c \in Consumer : taking'[c] \in {"look", "take"} => taking[c] \in {"look", "take"}
      BY <1>3 DEF Cond!Wake
    <2>2. \A q \in Producer : making'[q] \in {"link", "push"} => making[q] \in {"link", "push"}
      BY <1>1, <1>3 DEF Cond!Wake, Cond!Produces
    <2> QED BY <1>3, <2>1, <2>2 DEF Cond!Wake, Locked
  <1>4. ASSUME NEW c \in Consumer, Cond!ConsumerLocks(c) PROVE Locked'
    BY <1>1, <1>4, OneHolds DEF Cond!ConsumerLocks, Cond!Consumes, Cond!Lock, Locked
  <1>6. ASSUME NEW c \in Consumer, Cond!Sleep(c) \/ Cond!Take(c) PROVE Locked'
    BY <1>1, <1>6, OneHolds DEF Cond!Sleep, Cond!Take, Cond!Consumes, Cond!Unlock, Locked
  <1>5. ASSUME NEW c \in Consumer, Cond!WakesUp(c) \/ Cond!Look(c) \/ Cond!Free(c) PROVE Locked'
    BY <1>1, <1>5 DEF Cond!WakesUp, Cond!Look, Cond!Free, Cond!Consumes, Locked
  <1> QED BY <1>2, <1>3, <1>4, <1>5, <1>6 DEF Cond!Next

LEMMA AtHandKept ==
  ASSUME Cond!CondQueueAssumption, CondType, Locked, AtHand, Cond!Next
  PROVE  AtHand'
  <1>1. /\ DOMAIN making = Producer /\ DOMAIN taking = Consumer /\ DOMAIN num = Producer
        /\ DOMAIN mp = Consumer /\ DOMAIN next = Cond!Msg
        /\ \A c \in Consumer : mp[c] \in Cond!Msg => mp[c] # NULL
    BY DEF CondType, Cond!CondQueueAssumption
  <1>2. ASSUME NEW p \in Producer, Cond!ProducerLocks(p) PROVE AtHand'
    BY <1>1, <1>2 DEF Cond!ProducerLocks, Cond!Produces, AtHand
  <1>3. ASSUME NEW p \in Producer, Cond!Link(p) PROVE AtHand'
    <2>1. making[p] = "link" /\ making' = [making EXCEPT ![p] = "push"] /\ UNCHANGED <<head, num, taking, mp>>
          /\ next' = [next EXCEPT ![<<p, num[p]>>] = head]
      BY <1>3 DEF Cond!Link, Cond!Produces
    <2>2. \A q \in Producer : q # p => making[q] # "push" /\ making'[q] = making[q]
      BY <1>1, <2>1, OneHolds
    <2>3. making'[p] = "push" /\ num[p] <= Items /\ next'[<<p, num[p]>>] = head
      BY <1>1, <2>1, InHand DEF AtHand
    <2>4. \A q \in Producer : (making'[q] # "lock" => num[q] <= Items) /\ (making'[q] = "push" => next'[<<q, num[q]>>] = head)
      BY <2>2, <2>3 DEF AtHand
    <2> QED BY <2>1, <2>4 DEF AtHand
  <1>4. ASSUME NEW p \in Producer, Cond!Push(p) PROVE AtHand'
    <2>1. making[p] = "push" /\ making' = [making EXCEPT ![p] = "wake"] /\ UNCHANGED <<next, num, taking, mp>>
      BY <1>4 DEF Cond!Push, Cond!Produces
    <2>2. \A q \in Producer : making'[q] # "push" /\ (making'[q] # "lock" => making[q] # "lock")
      BY <1>1, <2>1, OneHolds
    <2>3. \A c \in Consumer : taking[c] # "take"
      BY <2>1, OneHolds
    <2> QED BY <2>1, <2>2, <2>3 DEF AtHand
  <1>5. ASSUME NEW p \in Producer, Cond!Wake(p) PROVE AtHand'
    <2>1. PICK S \in SUBSET Cond!Asleep : taking' = [c \in Consumer |-> IF c \in S THEN "lock" ELSE taking[c]]
      BY <1>5 DEF Cond!Wake
    <2>2. \A c \in Consumer : taking'[c] = taking[c] \/ (taking'[c] = "lock" /\ taking[c] = "asleep")
      BY <2>1 DEF Cond!Asleep
    <2>3. making' = [making EXCEPT ![p] = "lock"] /\ num' = [num EXCEPT ![p] = @ + 1] /\ UNCHANGED <<head, next, mp>>
      BY <1>5 DEF Cond!Wake, Cond!Produces
    <2>4. \A q \in Producer : making'[q] # "lock" => making'[q] = making[q] /\ num'[q] = num[q]
      BY <1>1, <2>3
    <2>5. \A q \in Producer : /\ making'[q] # "lock" => num'[q] <= Items
                              /\ making'[q] = "push" => next'[<<q, num'[q]>>] = head'
      BY <2>3, <2>4 DEF AtHand
    <2>6. \A c \in Consumer : /\ taking'[c] = "take" => mp'[c] = head'
                              /\ taking'[c] \in {"take", "free"} <=> mp'[c] # NULL
      BY <2>2, <2>3 DEF AtHand
    <2> QED BY <2>5, <2>6 DEF AtHand
  <1>6. ASSUME NEW c \in Consumer, Cond!ConsumerLocks(c) \/ Cond!Sleep(c) \/ Cond!WakesUp(c) PROVE AtHand'
    BY <1>1, <1>6 DEF Cond!ConsumerLocks, Cond!Sleep, Cond!WakesUp, Cond!Consumes, AtHand
  <1>7. ASSUME NEW c \in Consumer, Cond!Look(c) PROVE AtHand'
    BY <1>1, <1>7 DEF Cond!Look, Cond!Consumes, AtHand
  <1>8. ASSUME NEW c \in Consumer, Cond!Take(c) PROVE AtHand'
    <2>1. taking[c] = "take" /\ taking' = [taking EXCEPT ![c] = "free"] /\ UNCHANGED <<next, making, num, mp>>
      BY <1>8 DEF Cond!Take, Cond!Consumes
    <2>2. \A d \in Consumer : taking'[d] # "take" /\ (taking'[d] \in {"take", "free"} <=> taking[d] \in {"take", "free"})
      BY <1>1, <2>1, OneHolds
    <2>3. \A p \in Producer : making[p] # "push"
      BY <2>1, OneHolds
    <2> QED BY <2>1, <2>2, <2>3 DEF AtHand
  <1>9. ASSUME NEW c \in Consumer, Cond!Free(c) PROVE AtHand'
    BY <1>1, <1>9 DEF Cond!Free, Cond!Consumes, AtHand
  <1> QED BY <1>2, <1>3, <1>4, <1>5, <1>6, <1>7, <1>8, <1>9 DEF Cond!Next

\* A message that is not pushed yet is not taken either.
LEMMA PushedNot ==
  ASSUME CondType, AtHand, NEW p \in Producer, making[p] \in {"link", "push"}
  PROVE  <<p, num[p]>> \in Cond!Msg /\ <<p, num[p]>> \notin Cond!Pushed
  <1>1. <<p, num[p]>> \in Cond!Msg
    BY InHand
  <1>2. num[p] \in Nat
    BY DEF CondType
  <1> QED BY <1>1, <1>2 DEF Cond!Pushed

\* What a step does to what is pushed and what is taken.
LEMMA PushedSame ==
  ASSUME UNCHANGED num, \A p \in Producer : making'[p] = "wake" <=> making[p] = "wake"
  PROVE  Cond!Pushed' = Cond!Pushed
  BY DEF Cond!Pushed, Cond!Msg

LEMMA PushedMore ==
  ASSUME CondType, AtHand, NEW p \in Producer, Cond!Push(p)
  PROVE  Cond!Pushed' = Cond!Pushed \cup {<<p, num[p]>>}
  <1>1. making[p] = "push" /\ making' = [making EXCEPT ![p] = "wake"] /\ num' = num /\ DOMAIN making = Producer
    BY DEF Cond!Push, Cond!Produces, CondType
  <1>2. <<p, num[p]>> \in Cond!Msg
    BY <1>1, InHand
  <1> QED BY <1>1, <1>2 DEF Cond!Pushed, Cond!Msg

LEMMA PushedWake ==
  ASSUME CondType, NEW p \in Producer, Cond!Wake(p)
  PROVE  Cond!Pushed' = Cond!Pushed
  <1>1. making[p] = "wake" /\ making' = [making EXCEPT ![p] = "lock"] /\ num' = [num EXCEPT ![p] = @ + 1]
        /\ DOMAIN making = Producer /\ DOMAIN num = Producer
    BY DEF Cond!Wake, Cond!Produces, CondType
  <1>2. ASSUME NEW m \in Cond!Msg
        PROVE  (num'[m[1]] > m[2] \/ (num'[m[1]] = m[2] /\ making'[m[1]] = "wake"))
                 <=> (num[m[1]] > m[2] \/ (num[m[1]] = m[2] /\ making[m[1]] = "wake"))
    <2>1. m[1] \in Producer /\ m[2] \in Nat
      BY DEF Cond!Msg
    <2>2. num[m[1]] \in Nat
      BY <2>1 DEF CondType
    <2>3. CASE m[1] = p
      <3>1. num'[p] = num[p] + 1 /\ making'[p] = "lock"
        BY <1>1
      <3> QED BY <1>1, <2>1, <2>2, <2>3, <3>1
    <2>4. CASE m[1] # p
      BY <1>1, <2>1, <2>4
    <2> QED BY <2>3, <2>4
  <1> QED BY <1>2 DEF Cond!Pushed

LEMMA TakenSame ==
  ASSUME UNCHANGED consumed,
         \A c \in Consumer : (taking'[c] = "free" <=> taking[c] = "free") /\ (taking[c] = "free" => mp'[c] = mp[c])
  PROVE  Cond!Taken' = Cond!Taken
  BY DEF Cond!Taken

LEMMA TakenMore ==
  ASSUME CondType, NEW c \in Consumer, Cond!Take(c)
  PROVE  Cond!Taken' = Cond!Taken \cup {mp[c]}
  BY DEF Cond!Taken, Cond!Take, Cond!Consumes, CondType

LEMMA TakenFreed ==
  ASSUME CondType, NEW c \in Consumer, Cond!Free(c)
  PROVE  Cond!Taken' = Cond!Taken
  <1>1. /\ taking[c] = "free" /\ taking' = [taking EXCEPT ![c] = "lock"] /\ mp' = [mp EXCEPT ![c] = NULL]
        /\ consumed' = consumed \cup {mp[c]} /\ DOMAIN taking = Consumer /\ DOMAIN mp = Consumer
    BY DEF Cond!Free, Cond!Consumes, CondType
  <1>2. {mp'[d] : d \in {e \in Consumer : taking'[e] = "free"}} = {mp[d] : d \in {e \in Consumer : taking[e] = "free"} \ {c}}
    BY <1>1
  <1>3. c \in {e \in Consumer : taking[e] = "free"}
    BY <1>1
  <1> QED BY <1>1, <1>2, <1>3 DEF Cond!Taken

LEMMA TakenOnceKept ==
  ASSUME Cond!CondQueueAssumption, CondType, Locked, AtHand, TakenOnce, Cond!Next,
         \A c \in Consumer : taking[c] = "take" => mp[c] \in Cond!Pushed \ Cond!Taken
  PROVE  TakenOnce'
  <1>1. DOMAIN making = Producer /\ DOMAIN taking = Consumer /\ DOMAIN mp = Consumer
    BY DEF CondType
  <1>2. ASSUME NEW p \in Producer, Cond!ProducerLocks(p) \/ Cond!Link(p) \/ Cond!Push(p) \/ Cond!Wake(p) PROVE TakenOnce'
    <2>1. Cond!Pushed \subseteq Cond!Pushed'
      <3>1. CASE Cond!ProducerLocks(p) \/ Cond!Link(p)
        BY <1>1, <3>1, PushedSame DEF Cond!ProducerLocks, Cond!Link, Cond!Produces
      <3>2. CASE Cond!Push(p)
        BY <3>2, PushedMore
      <3>3. CASE Cond!Wake(p)
        BY <3>3, PushedWake
      <3> QED BY <1>2, <3>1, <3>2, <3>3
    <2>2. UNCHANGED <<mp, consumed>> /\ \A c \in Consumer : taking'[c] = "free" <=> taking[c] = "free"
      <3>1. CASE Cond!ProducerLocks(p) \/ Cond!Link(p) \/ Cond!Push(p)
        BY <3>1 DEF Cond!ProducerLocks, Cond!Link, Cond!Push, Cond!Produces
      <3>2. CASE Cond!Wake(p)
        BY <3>2 DEF Cond!Wake, Cond!Produces, Cond!Asleep
      <3> QED BY <1>2, <3>1, <3>2
    <2>3. Cond!Taken' = Cond!Taken
      BY <2>2, TakenSame
    <2> QED BY <2>1, <2>2, <2>3 DEF TakenOnce
  <1>3. ASSUME NEW c \in Consumer, Cond!ConsumerLocks(c) \/ Cond!Sleep(c) \/ Cond!WakesUp(c) \/ Cond!Look(c) PROVE TakenOnce'
    <2>1. Cond!Pushed' = Cond!Pushed
      BY <1>3, PushedSame DEF Cond!ConsumerLocks, Cond!Sleep, Cond!WakesUp, Cond!Look, Cond!Consumes
    <2>2. consumed' = consumed /\ \A d \in Consumer : (taking'[d] = "free" <=> taking[d] = "free")
                                                  /\ (taking[d] = "free" => mp'[d] = mp[d])
      BY <1>1, <1>3 DEF Cond!ConsumerLocks, Cond!Sleep, Cond!WakesUp, Cond!Look, Cond!Consumes
    <2>3. Cond!Taken' = Cond!Taken
      BY <2>2, TakenSame
    <2> QED BY <2>1, <2>2, <2>3 DEF TakenOnce
  <1>4. ASSUME NEW c \in Consumer, Cond!Take(c) PROVE TakenOnce'
    <2>1. Cond!Pushed' = Cond!Pushed
      BY <1>4, PushedSame DEF Cond!Take, Cond!Consumes
    <2>2. Cond!Taken' = Cond!Taken \cup {mp[c]}
      BY <1>4, TakenMore
    <2>3. taking[c] = "take" /\ taking' = [taking EXCEPT ![c] = "free"] /\ UNCHANGED <<mp, consumed>>
      BY <1>4 DEF Cond!Take, Cond!Consumes
    <2>4. mp[c] \in Cond!Pushed /\ mp[c] \notin Cond!Taken
      BY <2>3
    <2>5. mp[c] \notin consumed /\ \A d \in Consumer : taking[d] = "free" => mp[d] # mp[c]
      BY <2>4 DEF Cond!Taken
    <2>6. \A d \in Consumer : taking'[d] = "free" <=> (d = c \/ taking[d] = "free")
      BY <1>1, <2>3
    <2> QED BY <2>1, <2>2, <2>3, <2>4, <2>5, <2>6 DEF TakenOnce
  <1>5. ASSUME NEW c \in Consumer, Cond!Free(c) PROVE TakenOnce'
    <2>1. Cond!Pushed' = Cond!Pushed
      BY <1>5, PushedSame DEF Cond!Free, Cond!Consumes
    <2>2. Cond!Taken' = Cond!Taken
      BY <1>5, TakenFreed
    <2>3. taking[c] = "free" /\ taking' = [taking EXCEPT ![c] = "lock"] /\ mp' = [mp EXCEPT ![c] = NULL]
          /\ consumed' = consumed \cup {mp[c]}
      BY <1>5 DEF Cond!Free, Cond!Consumes
    <2>4. \A d \in Consumer : taking'[d] = "free" => d # c /\ taking[d] = "free" /\ mp'[d] = mp[d]
      BY <1>1, <2>3
    <2> QED BY <2>1, <2>2, <2>3, <2>4 DEF TakenOnce
  <1> QED BY <1>2, <1>3, <1>4, <1>5 DEF Cond!Next

LEMMA NoticedKept ==
  ASSUME Cond!CondQueueAssumption, CondType, Noticed, Cond!Next
  PROVE  Noticed'
  <1>1. DOMAIN making = Producer /\ DOMAIN taking = Consumer /\ Consumer # {}
    BY DEF CondType, Cond!CondQueueAssumption
  <1>2. ASSUME NEW p \in Producer, Cond!ProducerLocks(p) \/ Cond!Link(p) PROVE Noticed'
    <2>1. \A q \in Producer : making[q] = "wake" => making'[q] = "wake"
      BY <1>1, <1>2 DEF Cond!ProducerLocks, Cond!Link, Cond!Produces
    <2> QED BY <1>2, <2>1 DEF Cond!ProducerLocks, Cond!Link, Noticed, Cond!Asleep
  <1>3. ASSUME NEW p \in Producer, Cond!Push(p) PROVE Noticed'
    BY <1>1, <1>3 DEF Cond!Push, Cond!Produces, Noticed
  <1>4. ASSUME NEW p \in Producer, Cond!Wake(p) PROVE Noticed'
    <2>1. PICK S \in SUBSET Cond!Asleep :
            /\ IF wakes = "broadcast" \/ Cond!Asleep = {} THEN S = Cond!Asleep ELSE \E c \in Cond!Asleep : S = {c}
            /\ taking' = [c \in Consumer |-> IF c \in S THEN "lock" ELSE taking[c]]
      BY <1>4 DEF Cond!Wake
    <2>2. Cond!Asleep' = Cond!Asleep \ S /\ Cond!Asleep \subseteq Consumer
      BY <2>1 DEF Cond!Asleep
    <2>3. Cond!Asleep' # Consumer
      BY <1>1, <2>1, <2>2
    <2> QED BY <2>3 DEF Noticed
  <1>5. ASSUME NEW c \in Consumer, Cond!ConsumerLocks(c) \/ Cond!WakesUp(c) \/ Cond!Look(c) \/ Cond!Free(c) PROVE Noticed'
    <2>1. Cond!Asleep' \subseteq Cond!Asleep /\ Cond!Asleep \subseteq Consumer
      BY <1>1, <1>5 DEF Cond!ConsumerLocks, Cond!WakesUp, Cond!Look, Cond!Free, Cond!Consumes, Cond!Asleep
    <2>2. Cond!Asleep' = Consumer => Cond!Asleep = Consumer
      BY <2>1
    <2>3. UNCHANGED <<head, making>>
      BY <1>5 DEF Cond!ConsumerLocks, Cond!WakesUp, Cond!Look, Cond!Free, Cond!Consumes
    <2> QED BY <2>2, <2>3 DEF Noticed
  <1>6. ASSUME NEW c \in Consumer, Cond!Sleep(c) PROVE Noticed'
    BY <1>6 DEF Cond!Sleep, Noticed
  <1>7. ASSUME NEW c \in Consumer, Cond!Take(c) PROVE Noticed'
    <2>1. c \notin Cond!Asleep'
      BY <1>1, <1>7 DEF Cond!Take, Cond!Consumes, Cond!Asleep
    <2> QED BY <2>1 DEF Noticed
  <1> QED BY <1>2, <1>3, <1>4, <1>5, <1>6, <1>7 DEF Cond!Next

\* What a consumer is taking is the first message of the list.
LEMMA TakesFirst ==
  ASSUME Cond!CondQueueAssumption, CondType, AtHand, NEW s, Linked(s), NEW c \in Consumer, taking[c] = "take"
  PROVE  mp[c] = head /\ head = s[1] /\ Len(s) >= 1 /\ mp[c] \in Cond!Pushed \ Cond!Taken
  <1>1. mp[c] = head /\ head # NULL
    BY DEF AtHand
  <1>2. Len(s) \in Nat /\ Len(s) # 0 /\ head = s[1]
    BY <1>1 DEF Linked
  <1>3. 1 \in 1 .. Len(s)
    BY <1>2
  <1>4. s[1] \in Cond!Pushed \ Cond!Taken
    BY <1>3 DEF Linked
  <1> QED BY <1>1, <1>2, <1>4

LEMMA LinkedSame ==
  ASSUME NEW s, Linked(s), Cond!Pushed' = Cond!Pushed, Cond!Taken' = Cond!Taken, head' = head,
         \A m \in Cond!Pushed : next'[m] = next[m]
  PROVE  Linked(s)'
  <1>1. \A i \in 1 .. Len(s) : s[i] \in Cond!Pushed
    BY DEF Linked
  <1> QED BY <1>1 DEF Linked

LEMMA PushLinks ==
  ASSUME Cond!CondQueueAssumption, CondType, AtHand, TakenOnce, NEW s, Linked(s), NEW p \in Producer, Cond!Push(p)
  PROVE  \E t : Linked(t)'
  <1> DEFINE m == <<p, num[p]>>
             t == <<m>> \o s
  <1>1. making[p] = "push" /\ head' = m /\ next' = next /\ UNCHANGED <<mp, consumed, taking>>
    BY DEF Cond!Push, Cond!Produces
  <1>2. m \in Cond!Msg /\ m \notin Cond!Pushed /\ next[m] = head /\ m \notin Cond!Taken
    BY <1>1, PushedNot DEF AtHand, TakenOnce
  <1>3. Cond!Pushed' = Cond!Pushed \cup {m} /\ Cond!Taken' = Cond!Taken
    BY <1>1, PushedMore, TakenSame
  <1>4. s \in Seq(Cond!Msg) /\ Len(s) \in Nat
    BY DEF Linked
  <1> HIDE DEF m
  <1>5. /\ t \in Seq(Cond!Msg) /\ Len(t) = Len(s) + 1 /\ t[1] = m
        /\ \A i \in 1 .. Len(s) : t[i + 1] = s[i]
    BY <1>2, <1>4
  <1> HIDE DEF t
  <1>6. ASSUME NEW i \in 1 .. Len(t) PROVE i = 1 \/ (i - 1 \in 1 .. Len(s) /\ t[i] = s[i - 1])
    <2>1. CASE i # 1
      <3>1. i - 1 \in 1 .. Len(s) /\ (i - 1) + 1 = i
        BY <1>4, <1>5, <2>1
      <3> QED BY <1>5, <3>1
    <2> QED BY <2>1
  <1>7. \A i \in 1 .. Len(s) : s[i] \in Cond!Pushed \ Cond!Taken /\ s[i] # m
    BY <1>2 DEF Linked
  <1>8. ASSUME NEW i \in 1 .. Len(t), NEW j \in 1 .. Len(t), t[i] = t[j] PROVE i = j
    <2>1. CASE i = 1 \/ j = 1
      BY <1>5, <1>6, <1>7, <1>8, <2>1
    <2>2. CASE i # 1 /\ j # 1
      <3>1. i - 1 \in 1 .. Len(s) /\ j - 1 \in 1 .. Len(s) /\ s[i - 1] = s[j - 1]
        BY <1>6, <1>8, <2>2
      <3>2. i - 1 = j - 1
        BY <3>1 DEF Linked
      <3> QED BY <3>2
    <2> QED BY <2>1, <2>2
  <1>9. {t[i] : i \in 1 .. Len(t)} = Cond!Pushed' \ Cond!Taken'
    <2>1. ASSUME NEW x \in Cond!Pushed' \ Cond!Taken' PROVE \E i \in 1 .. Len(t) : x = t[i]
      <3>1. CASE x = m
        <4>1. 1 \in 1 .. Len(t)
          BY <1>4, <1>5
        <4> QED BY <1>5, <3>1, <4>1
      <3>2. CASE x # m
        <4>1. x \in Cond!Pushed \ Cond!Taken
          BY <1>3, <3>2
        <4>2. PICK i \in 1 .. Len(s) : x = s[i]
          BY <4>1 DEF Linked
        <4>3. i + 1 \in 1 .. Len(t)
          BY <1>4, <1>5
        <4> QED BY <1>5, <4>2, <4>3
      <3> QED BY <3>1, <3>2
    <2>2. ASSUME NEW i \in 1 .. Len(t) PROVE t[i] \in Cond!Pushed' \ Cond!Taken'
      BY <1>2, <1>3, <1>5, <1>6, <1>7
    <2> QED BY <2>1, <2>2
  <1>10. ASSUME NEW i \in 1 .. Len(t) PROVE next[t[i]] = IF i = Len(t) THEN NULL ELSE t[i + 1]
    <2>1. CASE i = 1
      <3>1. next[t[1]] = IF Len(s) = 0 THEN NULL ELSE s[1]
        BY <1>2, <1>5 DEF Linked
      <3>2. Len(s) = 0 <=> i = Len(t)
        BY <1>4, <1>5, <2>1
      <3>3. Len(s) # 0 => t[1 + 1] = s[1]
        <4>1. Len(s) # 0 => 1 \in 1 .. Len(s)
          BY <1>4
        <4> QED BY <1>5, <4>1
      <3> QED BY <2>1, <3>1, <3>2, <3>3
    <2>2. CASE i # 1
      <3>1. i - 1 \in 1 .. Len(s) /\ t[i] = s[i - 1]
        BY <1>6, <2>2
      <3>2. next[s[i - 1]] = IF i - 1 = Len(s) THEN NULL ELSE s[(i - 1) + 1]
        BY <3>1 DEF Linked
      <3>3. (i - 1) + 1 = i /\ (i - 1 = Len(s) <=> i = Len(t)) /\ (i # Len(t) => i \in 1 .. Len(s))
        BY <1>4, <1>5, <3>1
      <3> QED BY <1>5, <3>1, <3>2, <3>3
    <2> QED BY <2>1, <2>2
  <1>11. head' = IF Len(t) = 0 THEN NULL ELSE t[1]
    BY <1>1, <1>4, <1>5 DEF m
  <1> QED BY <1>1, <1>5, <1>8, <1>9, <1>10, <1>11 DEF Linked

LEMMA TakeUnlinks ==
  ASSUME Cond!CondQueueAssumption, CondType, AtHand, NEW s, Linked(s), NEW c \in Consumer, Cond!Take(c)
  PROVE  \E t : Linked(t)'
  <1> DEFINE t == Tail(s)
  <1>1. taking[c] = "take" /\ head' = next[mp[c]] /\ UNCHANGED <<next, making, num>>
    BY DEF Cond!Take, Cond!Consumes
  <1>2. mp[c] = s[1] /\ Len(s) >= 1
    BY <1>1, TakesFirst
  <1>3. Cond!Pushed' = Cond!Pushed /\ Cond!Taken' = Cond!Taken \cup {s[1]}
    BY <1>1, <1>2, PushedSame, TakenMore
  <1>4. s \in Seq(Cond!Msg) /\ Len(s) \in Nat
    BY DEF Linked
  <1>5. /\ t \in Seq(Cond!Msg) /\ Len(t) = Len(s) - 1
        /\ \A i \in 1 .. Len(s) - 1 : t[i] = s[i + 1]
    BY <1>2, <1>4
  <1> HIDE DEF t
  <1>6. ASSUME NEW i \in 1 .. Len(t) PROVE i + 1 \in 1 .. Len(s) /\ t[i] = s[i + 1]
    BY <1>4, <1>5
  <1>7. ASSUME NEW i \in 1 .. Len(t), NEW j \in 1 .. Len(t), t[i] = t[j] PROVE i = j
    <2>1. i + 1 \in 1 .. Len(s) /\ j + 1 \in 1 .. Len(s) /\ s[i + 1] = s[j + 1]
      BY <1>6, <1>7
    <2>2. i + 1 = j + 1
      BY <2>1 DEF Linked
    <2> QED BY <2>2
  <1>8. 1 \in 1 .. Len(s)
    BY <1>2, <1>4
  <1>9. {t[i] : i \in 1 .. Len(t)} = Cond!Pushed' \ Cond!Taken'
    <2>1. ASSUME NEW x \in Cond!Pushed' \ Cond!Taken' PROVE \E i \in 1 .. Len(t) : x = t[i]
      <3>1. x \in Cond!Pushed \ Cond!Taken /\ x # s[1]
        BY <1>3
      <3>2. PICK i \in 1 .. Len(s) : x = s[i]
        BY <3>1 DEF Linked
      <3>3. i - 1 \in 1 .. Len(t) /\ (i - 1) + 1 = i
        BY <1>4, <1>5, <3>1, <3>2
      <3> QED BY <1>6, <3>2, <3>3
    <2>2. ASSUME NEW i \in 1 .. Len(t) PROVE t[i] \in Cond!Pushed' \ Cond!Taken'
      <3>1. i + 1 \in 1 .. Len(s) /\ t[i] = s[i + 1] /\ i + 1 # 1
        BY <1>6
      <3>2. s[i + 1] \in Cond!Pushed \ Cond!Taken /\ s[i + 1] # s[1]
        BY <1>8, <3>1 DEF Linked
      <3> QED BY <1>3, <3>1, <3>2
    <2> QED BY <2>1, <2>2
  <1>10. ASSUME NEW i \in 1 .. Len(t) PROVE next[t[i]] = IF i = Len(t) THEN NULL ELSE t[i + 1]
    <2>1. i + 1 \in 1 .. Len(s) /\ t[i] = s[i + 1]
      BY <1>6
    <2>2. next[s[i + 1]] = IF i + 1 = Len(s) THEN NULL ELSE s[(i + 1) + 1]
      BY <2>1 DEF Linked
    <2>3. (i + 1 = Len(s) <=> i = Len(t)) /\ (i # Len(t) => i + 1 \in 1 .. Len(s) - 1)
      BY <1>4, <1>5, <2>1
    <2> QED BY <1>5, <2>1, <2>2, <2>3
  <1>11. head' = IF Len(t) = 0 THEN NULL ELSE t[1]
    <2>1. head' = IF 1 = Len(s) THEN NULL ELSE s[1 + 1]
      BY <1>1, <1>2, <1>8 DEF Linked
    <2>2. (1 = Len(s) <=> Len(t) = 0) /\ (Len(t) # 0 => 1 \in 1 .. Len(s) - 1)
      BY <1>2, <1>4, <1>5
    <2> QED BY <1>5, <2>1, <2>2
  <1> QED BY <1>1, <1>5, <1>7, <1>9, <1>10, <1>11 DEF Linked

LEMMA LinkedKept ==
  ASSUME Cond!CondQueueAssumption, CondBase, NEW s, Linked(s), Cond!Next
  PROVE  \E t : Linked(t)'
  <1>1. CondType /\ AtHand /\ TakenOnce
    BY DEF CondBase
  <1>2. DOMAIN making = Producer /\ DOMAIN taking = Consumer /\ DOMAIN mp = Consumer /\ DOMAIN next = Cond!Msg
    BY <1>1 DEF CondType
  <1>3. ASSUME NEW p \in Producer, Cond!ProducerLocks(p) \/ Cond!Link(p) PROVE \E t : Linked(t)'
    <2>1. Cond!Pushed' = Cond!Pushed
      BY <1>2, <1>3, PushedSame DEF Cond!ProducerLocks, Cond!Link, Cond!Produces
    <2>2. Cond!Taken' = Cond!Taken /\ head' = head
      BY <1>3, TakenSame DEF Cond!ProducerLocks, Cond!Link, Cond!Produces
    <2>3. \A m \in Cond!Pushed : next'[m] = next[m]
      <3>1. CASE Cond!ProducerLocks(p)
        BY <3>1 DEF Cond!ProducerLocks
      <3>2. CASE Cond!Link(p)
        <4>1. making[p] = "link" /\ next' = [next EXCEPT ![<<p, num[p]>>] = head]
          BY <3>2 DEF Cond!Link, Cond!Produces
        <4>2. <<p, num[p]>> \notin Cond!Pushed
          BY <1>1, <4>1, PushedNot
        <4>3. Cond!Pushed \subseteq Cond!Msg
          BY DEF Cond!Pushed
        <4> QED BY <1>2, <4>1, <4>2, <4>3
      <3> QED BY <1>3, <3>1, <3>2
    <2> QED BY <2>1, <2>2, <2>3, LinkedSame
  <1>4. ASSUME NEW p \in Producer, Cond!Push(p) PROVE \E t : Linked(t)'
    BY <1>1, <1>4, PushLinks
  <1>5. ASSUME NEW p \in Producer, Cond!Wake(p) PROVE \E t : Linked(t)'
    <2>1. Cond!Pushed' = Cond!Pushed
      BY <1>1, <1>5, PushedWake
    <2>2. UNCHANGED <<mp, consumed>> /\ \A c \in Consumer : taking'[c] = "free" <=> taking[c] = "free"
      BY <1>5 DEF Cond!Wake, Cond!Produces, Cond!Asleep
    <2>3. Cond!Taken' = Cond!Taken
      BY <2>2, TakenSame
    <2>4. UNCHANGED <<head, next>>
      BY <1>5 DEF Cond!Wake
    <2> QED BY <2>1, <2>3, <2>4, LinkedSame
  <1>6. ASSUME NEW c \in Consumer, Cond!ConsumerLocks(c) \/ Cond!Sleep(c) \/ Cond!WakesUp(c) \/ Cond!Look(c) PROVE \E t : Linked(t)'
    <2>1. Cond!Pushed' = Cond!Pushed
      BY <1>6, PushedSame DEF Cond!ConsumerLocks, Cond!Sleep, Cond!WakesUp, Cond!Look, Cond!Consumes
    <2>2. consumed' = consumed /\ \A d \in Consumer : (taking'[d] = "free" <=> taking[d] = "free")
                                                  /\ (taking[d] = "free" => mp'[d] = mp[d])
      BY <1>2, <1>6 DEF Cond!ConsumerLocks, Cond!Sleep, Cond!WakesUp, Cond!Look, Cond!Consumes
    <2>3. Cond!Taken' = Cond!Taken
      BY <2>2, TakenSame
    <2>4. UNCHANGED <<head, next>>
      BY <1>6 DEF Cond!ConsumerLocks, Cond!Sleep, Cond!WakesUp, Cond!Look, Cond!Consumes
    <2> QED BY <2>1, <2>3, <2>4, LinkedSame
  <1>7. ASSUME NEW c \in Consumer, Cond!Take(c) PROVE \E t : Linked(t)'
    BY <1>1, <1>7, TakeUnlinks
  <1>8. ASSUME NEW c \in Consumer, Cond!Free(c) PROVE \E t : Linked(t)'
    <2>1. Cond!Pushed' = Cond!Pushed
      BY <1>8, PushedSame DEF Cond!Free, Cond!Consumes
    <2>2. Cond!Taken' = Cond!Taken
      BY <1>1, <1>8, TakenFreed
    <2>3. UNCHANGED <<head, next>>
      BY <1>8 DEF Cond!Free, Cond!Consumes
    <2> QED BY <2>1, <2>2, <2>3, LinkedSame
  <1> QED BY <1>3, <1>4, <1>5, <1>6, <1>7, <1>8 DEF Cond!Next

LEMMA CondInit == ASSUME Cond!CondQueueAssumption, Cond!Init PROVE CondInv
  <1>1. Items \in Nat /\ Consumer # {}
    BY DEF Cond!CondQueueAssumption
  <1>2. CondType
    BY <1>1 DEF Cond!Init, CondType
  <1>3. Locked /\ AtHand /\ Noticed
    BY DEF Cond!Init, Locked, AtHand, Noticed
  <1>4. Cond!Pushed = {} /\ Cond!Taken = {}
    BY <1>1 DEF Cond!Init, Cond!Pushed, Cond!Taken, Cond!Msg
  <1>5. TakenOnce
    BY <1>4 DEF TakenOnce, Cond!Init
  <1>6. Linked(<<>>)
    BY <1>4 DEF Linked, Cond!Init
  <1> QED BY <1>2, <1>3, <1>5, <1>6 DEF CondInv, CondBase

LEMMA CondStep == Cond!CondQueueAssumption /\ CondInv /\ [Cond!Next]_(Cond!vars) => CondInv'
  <1> SUFFICES ASSUME Cond!CondQueueAssumption, CondInv, [Cond!Next]_(Cond!vars) PROVE CondInv'
    OBVIOUS
  <1>1. PICK s : Linked(s)
    BY DEF CondInv
  <1>2. CASE UNCHANGED Cond!vars
    <2>1. Linked(s)'
      BY <1>1, <1>2 DEF Cond!vars, Linked, Cond!Pushed, Cond!Taken
    <2>2. CondBase'
      BY <1>2 DEF Cond!vars, CondInv, CondBase, CondType, Locked, AtHand, TakenOnce, Cond!Taken, Cond!Pushed, Noticed, Cond!Asleep
    <2> QED BY <2>1, <2>2 DEF CondInv
  <1>3. CASE Cond!Next
    <2>1. CondType /\ Locked /\ AtHand /\ TakenOnce /\ Noticed /\ CondBase
      BY DEF CondInv, CondBase
    <2>2. \A c \in Consumer : taking[c] = "take" => mp[c] \in Cond!Pushed \ Cond!Taken
      BY <1>1, <2>1, TakesFirst
    <2>3. CondBase'
      BY <1>3, <2>1, <2>2, CondTypeKept, LockedKept, AtHandKept, TakenOnceKept, NoticedKept DEF CondBase
    <2>4. \E t : Linked(t)'
      BY <1>1, <1>3, <2>1, LinkedKept
    <2> QED BY <2>3, <2>4 DEF CondInv
  <1> QED BY <1>2, <1>3

\* What Reached is defined by at n.
ReachStep(f, n) == IF n = 0 THEN {head} ELSE {head} \cup {next[m] : m \in f[n - 1] \ {NULL}}

\* The first n + 1 messages of list s, and its end when it is not longer.
Within(s, n) == {s[i] : i \in {j \in 1 .. Len(s) : j <= n + 1}} \cup (IF n >= Len(s) THEN {NULL} ELSE {})

\* One step further along the list.
LEMMA OneFurther ==
  ASSUME Cond!CondQueueAssumption, NEW s, Linked(s)
  PROVE  /\ {head} = Within(s, 0)
         /\ \A n \in Nat : {head} \cup {next[m] : m \in Within(s, n) \ {NULL}} = Within(s, n + 1)
  <1>1. s \in Seq(Cond!Msg) /\ Len(s) \in Nat
    BY DEF Linked
  <1>2. ASSUME NEW i \in 1 .. Len(s) PROVE s[i] # NULL /\ next[s[i]] = IF i = Len(s) THEN NULL ELSE s[i + 1]
    BY <1>1 DEF Linked, Cond!CondQueueAssumption
  <1>3. head = IF Len(s) = 0 THEN NULL ELSE s[1]
    BY DEF Linked
  <1>4. {head} = Within(s, 0)
    <2>1. CASE Len(s) = 0
      <3>1. {j \in 1 .. Len(s) : j <= 0 + 1} = {} /\ 0 >= Len(s)
        BY <2>1
      <3> QED BY <1>3, <2>1, <3>1 DEF Within
    <2>2. CASE Len(s) # 0
      <3>1. {j \in 1 .. Len(s) : j <= 0 + 1} = {1} /\ ~(0 >= Len(s))
        BY <1>1, <2>2
      <3> QED BY <1>3, <2>2, <3>1 DEF Within
    <2> QED BY <2>1, <2>2
  <1>5. ASSUME NEW n \in Nat PROVE {head} \cup {next[m] : m \in Within(s, n) \ {NULL}} = Within(s, n + 1)
    <2>1. ASSUME NEW i \in 1 .. Len(s), i <= n + 1 PROVE next[s[i]] \in Within(s, n + 1)
      <3>1. CASE i = Len(s)
        <4>1. n + 1 >= Len(s)
          BY <1>1, <2>1, <3>1
        <4> QED BY <1>2, <3>1, <4>1 DEF Within
      <3>2. CASE i # Len(s)
        <4>1. i + 1 \in 1 .. Len(s) /\ i + 1 <= (n + 1) + 1
          BY <1>1, <2>1, <3>2
        <4>2. next[s[i]] = s[i + 1]
          BY <1>2, <3>2
        <4> QED BY <4>1, <4>2 DEF Within
      <3> QED BY <3>1, <3>2
    <2>2. head \in Within(s, n + 1)
      <3>1. CASE Len(s) = 0
        <4>1. n + 1 >= Len(s)
          BY <3>1
        <4> QED BY <1>3, <3>1, <4>1 DEF Within
      <3>2. CASE Len(s) # 0
        <4>1. 1 \in 1 .. Len(s) /\ 1 <= (n + 1) + 1
          BY <1>1, <3>2
        <4> QED BY <1>3, <3>2, <4>1 DEF Within
      <3> QED BY <3>1, <3>2
    <2>3. ASSUME NEW m \in Within(s, n) \ {NULL} PROVE next[m] \in Within(s, n + 1)
      <3>1. PICK i \in 1 .. Len(s) : i <= n + 1 /\ m = s[i]
        BY <2>3 DEF Within
      <3> QED BY <2>1, <3>1
    <2>4. ASSUME NEW i \in 1 .. Len(s), i <= (n + 1) + 1
          PROVE  s[i] = head \/ \E m \in Within(s, n) \ {NULL} : s[i] = next[m]
      <3>1. CASE i = 1
        BY <1>1, <1>3, <3>1
      <3>2. CASE i # 1
        <4>1. i - 1 \in 1 .. Len(s) /\ i - 1 <= n + 1 /\ (i - 1) + 1 = i /\ i - 1 # Len(s)
          BY <1>1, <2>4, <3>2
        <4>2. next[s[i - 1]] = s[i]
          BY <1>2, <4>1
        <4>3. s[i - 1] \in Within(s, n) \ {NULL}
          BY <1>2, <4>1 DEF Within
        <4> QED BY <4>2, <4>3
      <3> QED BY <3>1, <3>2
    <2>5. ASSUME n + 1 >= Len(s) PROVE NULL = head \/ \E m \in Within(s, n) \ {NULL} : NULL = next[m]
      <3>1. CASE Len(s) # 0
        <4>1. Len(s) \in 1 .. Len(s) /\ Len(s) <= n + 1
          BY <1>1, <2>5, <3>1
        <4>2. next[s[Len(s)]] = NULL /\ s[Len(s)] \in Within(s, n) \ {NULL}
          BY <1>2, <4>1 DEF Within
        <4> QED BY <4>2
      <3> QED BY <1>3, <3>1
    <2>6. ASSUME NEW x \in Within(s, n + 1) PROVE x = head \/ \E m \in Within(s, n) \ {NULL} : x = next[m]
      <3>1. CASE \E i \in 1 .. Len(s) : i <= (n + 1) + 1 /\ x = s[i]
        BY <2>4, <3>1
      <3>2. CASE x = NULL /\ n + 1 >= Len(s)
        BY <2>5, <3>2
      <3> QED BY <3>1, <3>2 DEF Within
    <2> HIDE DEF Within
    <2> QED BY <2>2, <2>3, <2>6
  <1> QED BY <1>4, <1>5

\* What is reached in n steps.
LEMMA ReachedIs ==
  ASSUME Cond!CondQueueAssumption, NEW s, Linked(s)
  PROVE  \A n \in Nat : Cond!Reached[n] = Within(s, n)
  <1> DEFINE g == [n \in Nat |-> Within(s, n)]
  <1>1. ASSUME NEW n \in Nat PROVE g[n] = ReachStep(g, n)
    <2>1. CASE n = 0
      BY <2>1, OneFurther DEF ReachStep
    <2>2. CASE n # 0
      <3>1. n - 1 \in Nat /\ (n - 1) + 1 = n
        BY <2>2
      <3>2. {head} \cup {next[m] : m \in Within(s, n - 1) \ {NULL}} = Within(s, (n - 1) + 1)
        BY <3>1, OneFurther
      <3> QED BY <2>2, <3>1, <3>2 DEF ReachStep
    <2> QED BY <2>1, <2>2
  <1>2. g = [n \in Nat |-> ReachStep(g, n)]
    <2>1. g = [n \in Nat |-> g[n]]
      OBVIOUS
    <2> HIDE DEF g
    <2> QED BY <1>1, <2>1
  <1> HIDE DEF g
  <1>3. Cond!Reached = CHOOSE f : f = [n \in Nat |-> ReachStep(f, n)]
    BY Zenon DEF Cond!Reached, ReachStep
  <1>4. Cond!Reached = [n \in Nat |-> ReachStep(Cond!Reached, n)]
    BY <1>2, <1>3, Zenon
  <1>5. \A n \in Nat : Cond!Reached[n] = ReachStep(Cond!Reached, n)
    BY <1>4
  <1> DEFINE Good == {n \in Nat : Cond!Reached[n] = Within(s, n)}
  <1>6. 0 \in Good
    BY <1>5, OneFurther DEF ReachStep
  <1>7. ASSUME NEW n \in Nat, n \in Good PROVE n + 1 \in Good
    <2>1. n + 1 \in Nat /\ n + 1 # 0 /\ (n + 1) - 1 = n
      OBVIOUS
    <2>2. Cond!Reached[n + 1] = {head} \cup {next[m] : m \in Cond!Reached[n] \ {NULL}}
      BY <1>5, <2>1 DEF ReachStep
    <2>3. Cond!Reached[n] = Within(s, n)
      BY <1>7
    <2> QED BY <2>1, <2>2, <2>3, OneFurther
  <1> HIDE DEF Good
  <1>8. Nat \subseteq Good
    BY <1>6, <1>7, Induction
  <1> QED BY <1>8 DEF Good

\* No list is longer than there are messages.
LEMMA ListFits ==
  ASSUME Cond!CondQueueAssumption, NEW s, Linked(s)
  PROVE  Cardinality(Cond!Msg) \in Nat /\ Cardinality(Cond!Msg) >= Len(s)
  <1>1. s \in Seq(Cond!Msg) /\ Len(s) \in Nat
    BY DEF Linked
  <1>2. IsFiniteSet(Cond!Msg) /\ Cardinality(Cond!Msg) \in Nat
    <2>1. IsFiniteSet(1 .. Items)
      BY FS_Interval DEF Cond!CondQueueAssumption
    <2>2. IsFiniteSet(Producer \X (1 .. Items))
      BY <2>1, FS_Product, CondSets DEF Cond!CondQueueAssumption
    <2> QED BY <2>2, FS_CardinalityType DEF Cond!Msg
  <1>3. PICK f : f = [i \in 1 .. Len(s) |-> s[i]]
    OBVIOUS
  <1>4. Cardinality(1 .. Len(s)) = Len(s)
    <2>1. 1 \in Int /\ Len(s) \in Int
      BY <1>1
    <2>2. Cardinality(1 .. Len(s)) = IF 1 > Len(s) THEN 0 ELSE Len(s) - 1 + 1
      BY <2>1, FS_Interval
    <2> QED BY <1>1, <2>2
  <1>5. f \in Injection(1 .. Len(s), Cond!Msg)
    <2>1. \A i, j \in 1 .. Len(s) : f[i] = f[j] => i = j
      BY <1>3 DEF Linked
    <2> QED BY <1>1, <1>3, <2>1 DEF Injection, IsInjective
  <1>6. Cardinality(1 .. Len(s)) <= Cardinality(Cond!Msg)
    BY <1>2, <1>5, FS_Injection
  <1> QED BY <1>1, <1>2, <1>4, <1>6

LEMMA CondImplies ==
  ASSUME Cond!CondQueueAssumption, CondInv PROVE Cond!MessagesKept
  <1>1. CondType /\ Locked /\ AtHand /\ TakenOnce /\ Noticed
    BY DEF CondInv, CondBase
  <1>2. PICK s : Linked(s)
    BY DEF CondInv
  <1>3. Cond!Reached[Cardinality(Cond!Msg)] = (Cond!Pushed \ Cond!Taken) \cup {NULL}
    <2>1. Cardinality(Cond!Msg) \in Nat /\ Cardinality(Cond!Msg) >= Len(s) /\ Len(s) \in Nat
      BY <1>2, ListFits DEF Linked
    <2>2. Cond!Reached[Cardinality(Cond!Msg)] = Within(s, Cardinality(Cond!Msg))
      BY <1>2, <2>1, ReachedIs
    <2>3. {j \in 1 .. Len(s) : j <= Cardinality(Cond!Msg) + 1} = 1 .. Len(s)
      BY <2>1
    <2>4. Within(s, Cardinality(Cond!Msg)) = {s[i] : i \in 1 .. Len(s)} \cup {NULL}
      BY <2>1, <2>3 DEF Within
    <2> QED BY <1>2, <2>2, <2>4 DEF Linked
  <1>4. ASSUME NEW c \in Consumer, NEW d \in Consumer, c # d, mp[c] # NULL
        PROVE  mp[c] # mp[d] /\ mp[c] \notin consumed
    <2>1. taking[c] \in {"take", "free"} /\ (mp[d] # NULL => taking[d] \in {"take", "free"})
      BY <1>1, <1>4 DEF AtHand
    <2>2. \A e \in Consumer : taking[e] = "take" => mp[e] \notin Cond!Taken
      BY <1>1, <1>2, TakesFirst
    <2>3. \A e \in Consumer : taking[e] = "free" => mp[e] \in Cond!Taken
      BY DEF Cond!Taken
    <2>4. mp[c] \notin consumed
      <3>1. CASE taking[c] = "take"
        BY <2>2, <3>1 DEF Cond!Taken
      <3>2. CASE taking[c] = "free"
        BY <1>1, <3>2 DEF TakenOnce
      <3> QED BY <2>1, <3>1, <3>2
    <2>5. ASSUME mp[d] = mp[c] PROVE FALSE
      <3>1. taking[d] \in {"take", "free"}
        BY <1>4, <2>1, <2>5
      <3>2. CASE taking[c] = "take" /\ taking[d] = "take"
        BY <1>1, <1>4, <3>2, OneHolds
      <3>3. CASE taking[c] = "free" /\ taking[d] = "free"
        BY <1>1, <1>4, <2>5, <3>3 DEF TakenOnce
      <3> QED BY <2>1, <2>2, <2>3, <2>5, <3>1, <3>2, <3>3
    <2> QED BY <2>4, <2>5
  <1> QED BY <1>1, <1>3, <1>4, CondSets DEF Cond!MessagesKept, Noticed

(* No message of the condition list is lost or freed twice, and no consumer      *)
(* sleeps over one unless somebody is about to wake it (cond_var.c:22-50).        *)
THEOREM CondKeepsMessages ==
  ASSUME Cond!CondQueueAssumption PROVE Cond!Spec => []Cond!MessagesKept
  <1>1. Cond!Init => CondInv
    BY CondInit
  <1>2. CondInv /\ [Cond!Next]_(Cond!vars) => CondInv'
    BY CondStep
  <1>3. CondInv => Cond!MessagesKept
    BY CondImplies
  <1> QED BY <1>1, <1>2, <1>3, PTL DEF Cond!Spec

-----------------------------------------------------------------------------
(* Side by side.  A part starts in an initial state and, as long as another   *)
(* part runs, stays as it is; so what is proved of a part alone holds of it    *)
(* here.                                                                       *)

RuleProof == INSTANCE RuleCacheProof
FooProof == INSTANCE FooTableProof WITH Ids <- FooIds

LEMMA PartsStart ==
  TablesInit => Init /\ Rule!Init /\ Sql!Init /\ Ring!Init /\ Cond!Init /\ Foo!Init
  BY DEF TablesInit

LEMMA PartsStep ==
  [TablesNext]_allVars => /\ [Next]_vars /\ [Rule!Next]_(Rule!vars) /\ [Sql!Next]_(Sql!vars)
                          /\ [Ring!Next]_(Ring!vars) /\ [Cond!Next]_(Cond!vars) /\ [Foo!Next]_(Foo!vars)
  <1> SUFFICES ASSUME [TablesNext]_allVars
               PROVE  /\ [Next]_vars /\ [Rule!Next]_(Rule!vars) /\ [Sql!Next]_(Sql!vars)
                      /\ [Ring!Next]_(Ring!vars) /\ [Cond!Next]_(Cond!vars) /\ [Foo!Next]_(Foo!vars)
    OBVIOUS
  <1> USE DEF semVars, ruleVars, sqlVars, ringVars, condVars, fooVars
  <1>1. UNCHANGED semVars => UNCHANGED vars
    BY Zenon
  <1>2. UNCHANGED ruleVars => UNCHANGED Rule!vars
    BY DEF Rule!vars, Rule!tableVars, Rule!dbVars
  <1>3. UNCHANGED sqlVars => UNCHANGED Sql!vars
    BY DEF Sql!vars
  <1>4. UNCHANGED ringVars => UNCHANGED Ring!vars
    BY DEF Ring!vars
  <1>5. UNCHANGED condVars => UNCHANGED Cond!vars
    BY DEF Cond!vars
  <1>6. UNCHANGED fooVars => UNCHANGED Foo!vars
    BY DEF Foo!vars
  <1> USE <1>1, <1>2, <1>3, <1>4, <1>5, <1>6
  <1> HIDE DEF semVars, ruleVars, sqlVars, ringVars, condVars, fooVars
  <1>7. CASE UNCHANGED allVars
    BY <1>7 DEF allVars
  <1>8. CASE Semaphore /\ Next
    BY <1>8 DEF Semaphore
  <1>9. CASE Rules /\ Rule!Next
    BY <1>9 DEF Rules
  <1>10. CASE SqlList /\ Sql!Next
    BY <1>10 DEF SqlList
  <1>11. CASE RingBuffer /\ Ring!Next
    BY <1>11 DEF RingBuffer
  <1>12. CASE CondList /\ Cond!Next
    BY <1>12 DEF CondList
  <1>13. CASE FooTables /\ Foo!Next
    BY <1>13 DEF FooTables
  <1>14. CASE SemaphoreEnds \/ SqlEnds \/ RingEnds
    BY <1>7, <1>14 DEF SemaphoreEnds, SqlEnds, RingEnds
  <1> QED BY <1>7, <1>8, <1>9, <1>10, <1>11, <1>12, <1>13, <1>14 DEF TablesNext

LEMMA PartsRun ==
  TablesSpec => Spec /\ Rule!Spec /\ Sql!Spec /\ Ring!Spec /\ Cond!Spec /\ Foo!Spec
  BY PartsStart, PartsStep, PTL
     DEF TablesSpec, Spec, Rule!Spec, Sql!Spec, Ring!Spec, Cond!Spec, Foo!Spec

\* The modules with the proofs have the definitions of the modules they are about.
LEMMA SameRules ==
  /\ Rule!ConstantsAssumption => RuleProof!ConstantsAssumption
  /\ Rule!Init => RuleProof!Init
  /\ [Rule!Next]_(Rule!vars) => [RuleProof!Next]_(RuleProof!vars)
  /\ RuleProof!ReportsMatch => Rule!ReportsMatch
  /\ RuleProof!ExceptionsHold => Rule!ExceptionsHold
  /\ RuleProof!TypeOK => Rule!TypeOK
  <1>1. Rule!ConstantsAssumption => RuleProof!ConstantsAssumption
    BY Zenon DEF Rule!Ids, Rule!ConstantsAssumption, RuleProof!Ids, RuleProof!ConstantsAssumption
  <1>2. Rule!Init => RuleProof!Init
    BY Zenon DEF Rule!NoRows, Rule!None, Rule!Idle, Rule!Init, RuleProof!NoRows, RuleProof!None, RuleProof!Idle,
         RuleProof!Init
  <1>3. [Rule!Next]_(Rule!vars) => [RuleProof!Next]_(RuleProof!vars)
    BY Zenon DEF Rule!tableVars, Rule!dbVars, Rule!vars, Rule!NoRows, Rule!None, Rule!Idle, Rule!Key, Rule!Reported,
         Rule!Elements, Rule!Loaded, Rule!Dies, Rule!mysql_commit, Rule!Start, Rule!Killed,
         Rule!ConnectionLost, Rule!DispOnly, Rule!Goes, Rule!Returns, Rule!Hit, Rule!Check, Rule!IsNormal,
         Rule!Parse, Rule!Ask, Rule!AskFails, Rule!RecordSuspect, Rule!Report, Rule!NotReported,
         Rule!ReportFails, Rule!Blacklist, Rule!CommitChecked, Rule!DispNext, Rule!ConsOnly, Rule!ConsGoes,
         Rule!InsertFails, Rule!InsertException, Rule!ExecuteException, Rule!GivenUp, Rule!ExecuteFails,
         Rule!CommitException, Rule!RememberException, Rule!UpdateConfig, Rule!ConsNext, Rule!Next,
         RuleProof!tableVars, RuleProof!dbVars, RuleProof!vars, RuleProof!NoRows, RuleProof!None,
         RuleProof!Idle, RuleProof!Key, RuleProof!Reported, RuleProof!Elements, RuleProof!Loaded,
         RuleProof!Dies, RuleProof!mysql_commit, RuleProof!Start, RuleProof!Killed,
         RuleProof!ConnectionLost, RuleProof!DispOnly, RuleProof!Goes, RuleProof!Returns, RuleProof!Hit,
         RuleProof!Check, RuleProof!IsNormal, RuleProof!Parse, RuleProof!Ask, RuleProof!AskFails,
         RuleProof!RecordSuspect, RuleProof!Report, RuleProof!NotReported, RuleProof!ReportFails,
         RuleProof!Blacklist, RuleProof!CommitChecked, RuleProof!DispNext, RuleProof!ConsOnly,
         RuleProof!ConsGoes, RuleProof!InsertFails, RuleProof!InsertException, RuleProof!ExecuteException,
         RuleProof!GivenUp, RuleProof!ExecuteFails, RuleProof!CommitException, RuleProof!RememberException,
         RuleProof!UpdateConfig, RuleProof!ConsNext, RuleProof!Next
  <1>4. /\ RuleProof!ReportsMatch => Rule!ReportsMatch
        /\ RuleProof!ExceptionsHold => Rule!ExceptionsHold
    BY Zenon DEF Rule!Key, Rule!Reported, Rule!BlackListIsReported, Rule!ReportedOnce, Rule!LoadedExceptionHonoured,
         Rule!ExceptionIsDurable, Rule!ReportsMatch, Rule!ExceptionsHold, RuleProof!Key, RuleProof!Reported,
         RuleProof!BlackListIsReported, RuleProof!ReportedOnce, RuleProof!LoadedExceptionHonoured,
         RuleProof!ExceptionIsDurable, RuleProof!ReportsMatch, RuleProof!ExceptionsHold
  <1>5. RuleProof!TypeOK => Rule!TypeOK
    BY Zenon DEF Rule!Ids, Rule!Keys, Rule!Rows, Rule!None, Rule!TypeOK, RuleProof!Ids, RuleProof!Keys,
         RuleProof!Rows, RuleProof!None, RuleProof!TypeOK
  <1> QED BY <1>1, <1>2, <1>3, <1>4, <1>5

LEMMA SameSizes ==
  \A S : /\ FooProof!Cardinality(S) = Foo!Cardinality(S)
         /\ FooProof!Table!Cardinality(S) = Foo!Table!Cardinality(S)
  <1>1. ASSUME NEW S PROVE FooProof!Cardinality(S) = Foo!Cardinality(S)
    BY Zenon DEF FooProof!Cardinality, Foo!Cardinality, FooProof!IsFiniteSet, Foo!IsFiniteSet
  <1>2. ASSUME NEW S PROVE FooProof!Table!Cardinality(S) = Foo!Table!Cardinality(S)
    BY Zenon DEF FooProof!Table!Cardinality, Foo!Table!Cardinality,
                 FooProof!Table!IsFiniteSet, Foo!Table!IsFiniteSet
  <1> QED BY <1>1, <1>2

LEMMA SameTable ==
  /\ Foo!ConstantsAssumption => FooProof!ConstantsAssumption
  /\ Foo!Init => FooProof!Init
  /\ [Foo!Next]_(Foo!vars) => [FooProof!Next]_(FooProof!vars)
  /\ FooProof!TypeOK => Foo!TypeOK
  /\ FooProof!ReferencesSound => Foo!ReferencesSound
  /\ FooProof!Table!Init => Foo!Table!Init
  /\ [FooProof!Table!Next]_(FooProof!Table!vars) => [Foo!Table!Next]_(Foo!Table!vars)
  <1>1. Foo!ConstantsAssumption => FooProof!ConstantsAssumption
    BY Zenon DEF Foo!ConstantsAssumption, FooProof!ConstantsAssumption
  <1>2. Foo!Init => FooProof!Init
    BY Zenon DEF Foo!Idle, Foo!Init, FooProof!Idle, FooProof!Init
  <1>3. [Foo!Next]_(Foo!vars) => [FooProof!Next]_(FooProof!vars)
    BY Zenon DEF Foo!vars, Foo!HASH, Foo!Idle, Foo!Does, Foo!Returns, Foo!Counted, Foo!MayRefer, Foo!Refers,
         Foo!Malloc, Foo!Insert, Foo!Initialized, Foo!foo_hold, Foo!Finds, Foo!FindLocks, Foo!Find,
         Foo!FindHold, Foo!NotLast, Foo!Rele, Foo!ReleLast, Foo!ReleHashlock, Foo!StillLast, Foo!KeptCount,
         Foo!ReleKeep, Foo!Without, Foo!ReleUnlink, Foo!Free, Foo!Next, FooProof!vars, FooProof!HASH,
         FooProof!Idle, FooProof!Does, FooProof!Returns, FooProof!Counted, FooProof!MayRefer,
         FooProof!Refers, FooProof!Malloc, FooProof!Insert, FooProof!Initialized, FooProof!foo_hold,
         FooProof!Finds, FooProof!FindLocks, FooProof!Find, FooProof!FindHold, FooProof!NotLast,
         FooProof!Rele, FooProof!ReleLast, FooProof!ReleHashlock, FooProof!StillLast, FooProof!KeptCount,
         FooProof!ReleKeep, FooProof!Without, FooProof!ReleUnlink, FooProof!Free, FooProof!Next
  <1>4. FooProof!TypeOK => Foo!TypeOK
    BY Zenon DEF Foo!Foo, Foo!Ref, Foo!TypeOK, FooProof!Foo, FooProof!Ref, FooProof!TypeOK
  <1>5. /\ Foo!TableHeap = FooProof!TableHeap
        /\ Foo!TableThr = FooProof!TableThr
    BY Zenon DEF Foo!Unlinking, Foo!TableHeap, Foo!TableThr, FooProof!Unlinking, FooProof!TableHeap,
         FooProof!TableThr
  <1>51. /\ Foo!TableHeap' = FooProof!TableHeap'
         /\ Foo!TableThr' = FooProof!TableThr'
    BY Zenon DEF Foo!Unlinking, Foo!TableHeap, Foo!TableThr, FooProof!Unlinking, FooProof!TableHeap,
         FooProof!TableThr
  <1>6. FooProof!ReferencesSound => Foo!ReferencesSound
    <2>1. FooProof!CountIsRefs => Foo!CountIsRefs
      BY SameSizes, Zenon DEF Foo!RefsTo, Foo!CountIsRefs, FooProof!RefsTo, FooProof!CountIsRefs
    <2>2. FooProof!NoUseAfterFree => Foo!NoUseAfterFree
      BY Zenon DEF Foo!NoUseAfterFree, FooProof!NoUseAfterFree
    <2>3. FooProof!Table!ListedWhileReferenced => Foo!Table!ListedWhileReferenced
      BY <1>5, SameSizes, Zenon
         DEF Foo!Table!Listed, Foo!Table!RefsTo, Foo!Table!ListedWhileReferenced,
             FooProof!Table!Listed, FooProof!Table!RefsTo, FooProof!Table!ListedWhileReferenced
    <2> QED BY <2>1, <2>2, <2>3 DEF Foo!ListedWhileReferenced, Foo!ReferencesSound,
               FooProof!ListedWhileReferenced, FooProof!ReferencesSound
  <1>7. FooProof!Table!Init => Foo!Table!Init
    BY <1>5, Zenon DEF Foo!Table!Idle, Foo!Table!Init, FooProof!Table!Idle, FooProof!Table!Init
  <1>8. [FooProof!Table!Next]_(FooProof!Table!vars) => [Foo!Table!Next]_(Foo!Table!vars)
    <2>1. ASSUME NEW t \in Thread, FooProof!Table!Malloc(t) PROVE Foo!Table!Malloc(t)
      BY <1>5, <1>51, <2>1, Zenon
         DEF Foo!Table!Idle, Foo!Table!Does, Foo!Table!Malloc, FooProof!Table!Idle, FooProof!Table!Does,
             FooProof!Table!Malloc
    <2>2. ASSUME NEW t \in Thread, FooProof!Table!Insert(t) PROVE Foo!Table!Insert(t)
      BY <1>5, <1>51, <2>2, Zenon
         DEF Foo!Table!HASH, Foo!Table!Idle, Foo!Table!Refers, Foo!Table!Insert, FooProof!Table!HASH,
             FooProof!Table!Idle, FooProof!Table!Refers, FooProof!Table!Insert
    <2>3. ASSUME NEW t \in Thread, FooProof!Table!foo_hold(t) PROVE Foo!Table!foo_hold(t)
      BY <1>5, <1>51, <2>3, Zenon
         DEF Foo!Table!Idle, Foo!Table!Refers, Foo!Table!Counted, Foo!Table!foo_hold, FooProof!Table!Idle,
             FooProof!Table!Refers, FooProof!Table!Counted, FooProof!Table!foo_hold
    <2>4. ASSUME NEW t \in Thread, FooProof!Table!foo_find(t) PROVE Foo!Table!foo_find(t)
      <3>1. ASSUME NEW n \in FooIds, NEW fp \in Obj, FooProof!Table!Finds(n, fp)
            PROVE  Foo!Table!Finds(n, fp)
        BY <1>5, <3>1, Zenon DEF Foo!Table!HASH, Foo!Table!Finds, FooProof!Table!HASH, FooProof!Table!Finds
      <3>2. ASSUME NEW fp \in Obj, FooProof!Table!Refers(t, fp) PROVE Foo!Table!Refers(t, fp)
        BY <3>2, Zenon DEF Foo!Table!Refers, FooProof!Table!Refers
      <3>3. ASSUME NEW fp \in Obj PROVE FooProof!Table!Counted(fp, 1) = Foo!Table!Counted(fp, 1)
        BY <1>5, Zenon DEF Foo!Table!Counted, FooProof!Table!Counted
      <3> QED BY <1>5, <1>51, <2>4, <3>1, <3>2, <3>3
              DEF Foo!Table!Idle, Foo!Table!foo_find, FooProof!Table!Idle, FooProof!Table!foo_find
    <2>5. ASSUME NEW t \in Thread, FooProof!Table!foo_rele(t) PROVE Foo!Table!foo_rele(t)
      <3>1. ASSUME NEW fp PROVE FooProof!Table!Counted(fp, -1) = Foo!Table!Counted(fp, -1)
        BY <1>5, Zenon DEF Foo!Table!Counted, FooProof!Table!Counted
      <3>2. ASSUME NEW fp PROVE FooProof!Table!Unlinked(fp) = Foo!Table!Unlinked(fp)
        BY <1>5, Zenon
           DEF Foo!Table!HASH, Foo!Table!Without, Foo!Table!Unlinked,
               FooProof!Table!HASH, FooProof!Table!Without, FooProof!Table!Unlinked
      <3>3. ASSUME NEW fp, FooProof!Table!Does(t, "free", fp) PROVE Foo!Table!Does(t, "free", fp)
        BY <1>5, <1>51, <3>3, Zenon DEF Foo!Table!Does, FooProof!Table!Does
      <3>4. PICK r \in refs :
              /\ r.by = t /\ refs' = refs \ {r}
              /\ FooProof!TableHeap' = FooProof!Table!Counted(r.fp, -1)
              /\ \/ /\ FooProof!TableHeap'[r.fp].f_count = 0
                    /\ fh' = FooProof!Table!Unlinked(r.fp) /\ FooProof!Table!Does(t, "free", r.fp)
                 \/ /\ FooProof!TableHeap'[r.fp].f_count # 0
                    /\ UNCHANGED <<fh, FooProof!TableThr>>
        BY <2>5 DEF FooProof!Table!foo_rele, FooProof!Table!Last
      <3> QED BY <1>5, <1>51, <2>5, <3>1, <3>2, <3>3, <3>4
              DEF Foo!Table!Idle, Foo!Table!Last, Foo!Table!foo_rele, FooProof!Table!Idle, FooProof!Table!foo_rele
    <2>6. ASSUME NEW t \in Thread, FooProof!Table!Free(t) PROVE Foo!Table!Free(t)
      BY <1>5, <1>51, <2>6, Zenon
         DEF Foo!Table!Idle, Foo!Table!Free, FooProof!Table!Idle, FooProof!Table!Free
    <2>7. ASSUME UNCHANGED FooProof!Table!vars PROVE UNCHANGED Foo!Table!vars
      BY <1>5, <1>51, <2>7, Zenon DEF Foo!Table!vars, FooProof!Table!vars
    <2> QED BY <2>1, <2>2, <2>3, <2>4, <2>5, <2>6, <2>7 DEF Foo!Table!Next, FooProof!Table!Next
  <1> QED BY <1>1, <1>2, <1>3, <1>4, <1>6, <1>7, <1>8

LEMMA RulesHold == Rule!Spec => [](Rule!TypeOK /\ Rule!ReportsMatch /\ Rule!ExceptionsHold)
  <1>1. RuleProof!ConstantsAssumption
    BY SameRules, TablesAssumption DEF TablesAssumption
  <1>2. Rule!Spec => RuleProof!Spec
    BY SameRules, PTL DEF Rule!Spec, RuleProof!Spec
  <1>3. RuleProof!Spec => []RuleProof!RInv
    BY <1>1, RuleProof!TablesCorrect
  <1>4. RuleProof!Spec => []RuleProof!ReportsMatch
    BY <1>1, RuleProof!ReportedExactlyOnce
  <1>5. RuleProof!Spec => []RuleProof!ExceptionsHold
    BY <1>1, RuleProof!ExceptionsAlwaysHold
  <1>6. RuleProof!RInv => RuleProof!TypeOK
    BY DEF RuleProof!RInv
  <1> QED BY <1>2, <1>3, <1>4, <1>5, <1>6, SameRules, PTL

LEMMA TableHolds ==
  Foo!Spec => /\ [](Foo!TypeOK /\ Foo!ReferencesSound)
              /\ Foo!Table!Init /\ [][Foo!Table!Next]_(Foo!Table!vars)
  <1>1. FooProof!ConstantsAssumption
    BY SameTable, TablesAssumption DEF TablesAssumption
  <1>2. Foo!Spec => FooProof!Spec
    BY SameTable, PTL DEF Foo!Spec, FooProof!Spec
  <1>3. FooProof!Spec => []FooProof!FInv
    BY <1>1, FooProof!TableCorrect
  <1>4. FooProof!Spec => []FooProof!ReferencesSound
    BY <1>1, FooProof!ReferencesAreSound
  <1>5. FooProof!Spec => FooProof!Table!Init /\ [][FooProof!Table!Next]_(FooProof!Table!vars)
    BY <1>1, FooProof!ImplementsFooTable DEF FooProof!IsFooTable, FooProof!Table!Spec
  <1>6. FooProof!FInv => FooProof!TypeOK
    BY DEF FooProof!FInv
  <1> QED BY <1>2, <1>3, <1>4, <1>5, <1>6, SameTable, PTL

(* Whatever part runs, its variables keep their types: no semaphore gets       *)
(* negative, no removed node is read, the count of an object in use stays      *)
(* positive (semaph.c, mysql_wrap.c, queue.c, mutex2.c).                        *)
THEOREM TablesAreTyped == TablesSpec => []TablesTypeOK
  <1>1. Sql!SqlQueueAssumption
    BY TablesAssumption DEF TablesAssumption
  <1>2. SInv => TypeOK
    BY DEF SInv
  <1>3. Sql!Spec => []Sql!TypeOK
    BY <1>1, NothingLeaks, PTL
  <1>4. /\ TypeOK /\ Rule!TypeOK /\ Sql!TypeOK /\ Foo!TypeOK
        => TablesTypeOK
    BY DEF TablesTypeOK
  <1> QED BY PartsRun, ValuesCorrect, RulesHold, TableHolds, <1>2, <1>3, <1>4, PTL

(* The black list and the table of reports in the database agree, and no id is *)
(* reported twice, whatever fails in between (mysql_wrap.c:281, 998-1024,       *)
(* 1857-1884).                                                                  *)
THEOREM TablesReportsMatch == TablesSpec => []ReportsMatch
  <1>1. Rule!ReportsMatch => ReportsMatch
    BY DEF ReportsMatch
  <1> QED BY PartsRun, RulesHold, <1>1, PTL

(* An exception loaded at the start is honoured, and one in the table has been  *)
(* committed (mysql_wrap.c:273, 1162-1171, 1488-1514).                           *)
THEOREM TablesExceptionsHold == TablesSpec => []ExceptionsHold
  <1>1. Rule!ExceptionsHold => ExceptionsHold
    BY DEF ExceptionsHold
  <1> QED BY PartsRun, RulesHold, <1>1, PTL

(* The three queues lose nothing, whichever runs: the list has no leak and      *)
(* is_empty tells the truth (queue.c), the ring buffer is first-in first-out    *)
(* (semaphone_and_mutex.c, test.c), and every message of the condition list is  *)
(* there to be taken and somebody is awake for it (cond_var.c).                  *)
THEOREM QueuesAreSound == TablesSpec => []QueuesSound
  <1>1. Sql!SqlQueueAssumption /\ Ring!SemBufferAssumption /\ Cond!CondQueueAssumption
    BY TablesAssumption DEF TablesAssumption
  <1>2. Sql!Spec => [](Sql!TypeOK /\ Sql!ListIsHeap)
    BY <1>1, NothingLeaks
  <1>3. Sql!Spec => []Sql!EmptyMeansNoNext
    BY <1>1, EmptyTestHolds
  <1>4. Ring!Spec => []Ring!FirstInFirstOut
    BY <1>1, RingIsFifo
  <1>5. Cond!Spec => []Cond!MessagesKept
    BY <1>1, CondKeepsMessages
  <1>6. /\ Sql!ListIsHeap /\ Sql!EmptyMeansNoNext /\ Ring!FirstInFirstOut /\ Cond!MessagesKept
        => QueuesSound
    BY DEF QueuesSound
  <1> QED BY PartsRun, <1>2, <1>3, <1>4, <1>5, <1>6, PTL

(* f_count is the number of references, no freed object is referred to or       *)
(* waited for, and an object is on the table exactly as long as somebody refers *)
(* to it (mutex2.c:35-37, 48, 75-101).                                          *)
THEOREM TablesReferencesSound == TablesSpec => []ReferencesSound
  <1>1. Foo!ReferencesSound => ReferencesSound
    BY DEF ReferencesSound
  <1> QED BY PartsRun, TableHolds, <1>1, PTL

(* What is on the list is a first-in first-out queue: Enqueue appends to it and *)
(* Dequeue takes its head (queue.c:67-141).                                     *)
THEOREM ListIsFifo == TablesSpec => IsFifo
  <1>1. Sql!SqlQueueAssumption
    BY TablesAssumption DEF TablesAssumption
  <1>2. Sql!Spec => Sql!IsFifo
    BY <1>1, ImplementsFifo
  <1>3. [Sql!Abstract!FifoNext]_(Sql!Abstract!fifoVars) => [part = "sql" => Sql!Abstract!FifoNext]_sqlQueue
    BY DEF sqlQueue
  <1> QED BY PartsRun, <1>2, <1>3, PTL DEF IsFifo, Sql!IsFifo, Sql!Abstract!FifoSpec

(* The table with a mutex per object does what the table with one mutex does    *)
(* (mutex2.c, mutex3.c).                                                        *)
THEOREM TwoLocksAreOne == TablesSpec => IsFooTable
  <1>1. [Foo!Table!Next]_(Foo!Table!vars) => [part = "foo" => Foo!Table!Next]_fooTable
    BY DEF fooTable
  <1> QED BY PartsRun, TableHolds, <1>1, PTL DEF IsFooTable
=============================================================================
