------------------------------- MODULE Tables -------------------------------
(* What threads and processes share in memory, side by side: the System V     *)
(* semaphores (Semaph, extended), the rule engine's hash tables, the list      *)
(* behind the server's SQL queue, two queues between producers and consumers   *)
(* (a ring buffer with semaphores, a list with a condition variable), and the  *)
(* reference counted hash table with two kinds of mutexes.                     *)
(* They have nothing to do with each other: the part that runs is chosen at    *)
(* the start, the others stay as they are, so that the states are the sum and  *)
(* not the product of theirs.                                                  *)
EXTENDS Semaph

CONSTANTS Stmt, Level, DefaultLevel, Bad, Matched, NormalSql, \* RuleCache
          Node, Values,                             \* SqlQueue
          Producer, Consumer, BUFFER_SIZE, Items,   \* SemBuffer and CondQueue
          Thread, Obj, FooIds, NHASH, Tags, Freed,  \* FooTableTwoLocks
          NULL

VARIABLES part,
          up, connected, level, g_machine_learning_on,
          normal, error, suspect, exception, db, txn, disp, cons, \* RuleCache
          nodes, alloc, Front, Rear, busy, running, ret,          \* SqlQueue
          locks, empty, full, mutex, buffer, in, out, filled,
          ppc, made, cpc, used, item, put, got,                   \* SemBuffer
          wakes, lock, head, next, making, num, taking, mp, consumed, \* CondQueue
          heap, fh, refs, thr, hashlock, f_lock                   \* FooTableTwoLocks

Rule == INSTANCE RuleCache
Sql == INSTANCE SqlQueue WITH heap <- nodes, up <- running
Ring == INSTANCE SemBuffer WITH count <- filled
Cond == INSTANCE CondQueue WITH ppc <- making, cpc <- taking
Foo == INSTANCE FooTableTwoLocks WITH Ids <- FooIds

ASSUME TablesAssumption == /\ Rule!ConstantsAssumption /\ Sql!SqlQueueAssumption
                           /\ Ring!SemBufferAssumption /\ Cond!CondQueueAssumption
                           /\ Foo!ConstantsAssumption

semVars == vars
ruleVars == <<up, connected, level, g_machine_learning_on,
              normal, error, suspect, exception, db, txn, disp, cons>>
sqlVars == <<nodes, alloc, Front, Rear, busy, running, ret>>
ringVars == <<locks, empty, full, mutex, buffer, in, out, filled,
              ppc, made, cpc, used, item, put, got>>
condVars == <<wakes, lock, head, next, making, num, taking, mp, consumed>>
fooVars == <<heap, fh, refs, thr, hashlock, f_lock>>
allVars == <<part, semVars, ruleVars, sqlVars, ringVars, condVars, fooVars>>

TablesInit == /\ part \in {"semaphore", "rules", "sql", "ring", "cond", "foo"}
              /\ Init /\ Rule!Init /\ Sql!Init /\ Ring!Init /\ Cond!Init /\ Foo!Init
              /\ part # "sql" => Front = CHOOSE n \in Node : TRUE
              /\ part # "ring" => locks
              /\ part # "cond" => wakes = "signal"

Semaphore == part = "semaphore" /\ UNCHANGED <<part, ruleVars, sqlVars, ringVars, condVars, fooVars>>
Rules == part = "rules" /\ UNCHANGED <<part, semVars, sqlVars, ringVars, condVars, fooVars>>
SqlList == part = "sql" /\ UNCHANGED <<part, semVars, ruleVars, ringVars, condVars, fooVars>>
RingBuffer == part = "ring" /\ UNCHANGED <<part, semVars, ruleVars, sqlVars, condVars, fooVars>>
CondList == part = "cond" /\ UNCHANGED <<part, semVars, ruleVars, sqlVars, ringVars, fooVars>>
FooTables == part = "foo" /\ UNCHANGED <<part, semVars, ruleVars, sqlVars, ringVars, condVars>>

\* The processes are done, the bounds are used up; the queue is disposed of, or
\* malloc has failed; the threads are joined: nothing more happens.
SemaphoreEnds == /\ part = "semaphore"
                 /\ \A p \in Proc : At(p, "failed") \/ At(p, "cantlock") \/ key = 0
                 /\ UNCHANGED allVars
SqlEnds == part = "sql" /\ (~running \/ Front = NULL) /\ UNCHANGED allVars

RingEnds == part = "ring" /\ Ring!Joined /\ UNCHANGED allVars

TablesNext == \/ Semaphore /\ Next
              \/ Rules /\ Rule!Next
              \/ SqlList /\ Sql!Next
              \/ RingBuffer /\ Ring!Next
              \/ CondList /\ Cond!Next
              \/ FooTables /\ Foo!Next
              \/ SemaphoreEnds \/ SqlEnds \/ RingEnds

TablesSpec == TablesInit /\ [][TablesNext]_allVars

-----------------------------------------------------------------------------
(* What is promised of a part is asked of it while it runs: the others stand   *)
(* still in their initial states.                                              *)

\* The variables of the abstract queue and of the abstract table.
sqlQueue == Sql!Abstract!fifoVars
fooTable == Foo!Table!vars

(* Every variable keeps its type: no semaphore gets negative, a removed node    *)
(* is never read, the count of an object in use stays positive, and the tables *)
(* hold keys.                                                                   *)
TablesTypeOK == /\ TypeOK
                /\ part = "rules" => Rule!TypeOK
                /\ part = "sql" => Sql!TypeOK
                /\ part = "foo" => Foo!TypeOK

(* The black list is what has been reported, and no id is reported twice       *)
(* (mysql_wrap.c:281, 998-1024, 1857-1884).                                     *)
ReportsMatch == part = "rules" => Rule!ReportsMatch

(* An exception loaded at the start is honoured, and one in the table is in     *)
(* the database (mysql_wrap.c:273, 1162-1171, 1488-1514).                       *)
ExceptionsHold == part = "rules" => Rule!ExceptionsHold

(* Nothing leaks, nothing freed is linked, and is_empty tells the truth about  *)
(* the chain of Next pointers (queue.c:25-28, 42-141).  Whatever is put into   *)
(* the ring buffer is taken out once and in order, and nothing is written over *)
(* (semaphone_and_mutex.c:29-72, test.c:22-78).  No message is lost between    *)
(* head and next, and no consumer sleeps over one (cond_var.c:22-50).          *)
QueuesSound == /\ part = "sql" => Sql!ListIsHeap /\ Sql!EmptyMeansNoNext
               /\ part = "ring" => Ring!FirstInFirstOut
               /\ part = "cond" => Cond!MessagesKept

(* The list is a first-in first-out queue (queue.c:67-141).                    *)
IsFifo == Sql!Abstract!FifoInit /\ [][part = "sql" => Sql!Abstract!FifoNext]_sqlQueue

(* f_count is the number of references, no freed object is referred to or      *)
(* waited for, and an object is on the table exactly as long as somebody refers *)
(* to it (mutex3.c:33-34, 59, 74-83; mutex2.c:35-37, 48, 75-101).               *)
ReferencesSound == part = "foo" => Foo!ReferencesSound

(* Every call takes effect at once: mutex2.c implements mutex3.c.              *)
IsFooTable == Foo!Table!Init /\ [][part = "foo" => Foo!Table!Next]_fooTable
=============================================================================
