-------------------------- MODULE FooTableTwoLocks --------------------------
(***************************************************************************)
(* os/01.mutex/mutex2.c: the table of FooTable with a mutex per object.    *)
(* hashlock protects the lists, f_lock of an object its count: foo_find    *)
(* waits for an f_lock with hashlock held, foo_rele must let go of the     *)
(* f_lock before it can take hashlock, and look at the count again.        *)
(*                                                                         *)
(* A critical section in which a thread waits for nothing is one step.     *)
(***************************************************************************)
EXTENDS Integers, Sequences, FiniteSets

CONSTANTS Thread, Obj, Ids, NHASH, Tags, Freed, NULL \* as in FooTable

ConstantsAssumption ==
  /\ Ids \subseteq Nat
  /\ NHASH \in Nat \ {0}
  /\ Freed \notin [f_count : Int, f_id : Ids]
  /\ NULL \notin Obj \cup Thread

VARIABLES heap, fh, refs, thr, \* as in FooTable; thr also tells the reference at stake
          hashlock,            \* the thread that holds it, or NULL
          f_lock               \* per object

vars == <<heap, fh, refs, thr, hashlock, f_lock>>

HASH(id) == id % NHASH
Foo == [f_count : Nat \ {0}, f_id : Ids] \* the last reference is never counted off
Ref == [by : Thread, fp : Obj, tag : Tags]
Idle == [pc |-> "idle", fp |-> NULL, ref |-> NULL]

TypeOK ==
  /\ heap \in [Obj -> Foo \cup {Freed}]
  /\ fh \in [0 .. NHASH - 1 -> Seq(Obj)]
  /\ refs \subseteq Ref
  /\ thr \in [Thread -> [pc : {"idle", "insert", "init", "find", "last", "recheck", "free"},
                         fp : Obj \cup {NULL}, ref : Ref \cup {NULL}]]
  /\ hashlock \in Thread \cup {NULL}
  /\ f_lock \in [Obj -> Thread \cup {NULL}]

Init ==
  /\ heap = [o \in Obj |-> Freed]
  /\ fh = [h \in 0 .. NHASH - 1 |-> <<>>]
  /\ refs = {}
  /\ thr = [t \in Thread |-> Idle]
  /\ hashlock = NULL
  /\ f_lock = [o \in Obj |-> NULL]

Does(t, pc, fp) == thr' = [thr EXCEPT ![t] = [pc |-> pc, fp |-> fp, ref |-> NULL]]
Returns(t) == thr' = [thr EXCEPT ![t] = Idle]
Counted(fp, n) == [heap EXCEPT ![fp].f_count = @ + n]

\* The bound on references: t has not used up its tags.
MayRefer(t, fp) == \E tag \in Tags : [by |-> t, fp |-> fp, tag |-> tag] \notin refs

\* t gets one more reference to fp.
Refers(t, fp) == \E tag \in Tags :
                   LET r == [by |-> t, fp |-> fp, tag |-> tag]
                   IN r \notin refs /\ refs' = refs \cup {r}
-----------------------------------------------------------------------------
(* foo_alloc                                                                 *)

Malloc(t) ==
  /\ thr[t] = Idle
  /\ \E fp \in Obj, id \in Ids :
       /\ heap[fp] = Freed
       /\ heap' = [heap EXCEPT ![fp] = [f_count |-> 1, f_id |-> id]]
       /\ Does(t, "insert", fp)
  /\ UNCHANGED <<fh, refs, hashlock, f_lock>>

\* The new object is locked before the list is unlocked.
Insert(t) ==
  LET fp == thr[t].fp
      h  == HASH(heap[fp].f_id)
  IN /\ thr[t].pc = "insert"
     /\ hashlock = NULL /\ f_lock[fp] = NULL
     /\ fh' = [fh EXCEPT ![h] = <<fp>> \o @]
     /\ f_lock' = [f_lock EXCEPT ![fp] = t]
     /\ Refers(t, fp)
     /\ Does(t, "init", fp)
     /\ UNCHANGED <<heap, hashlock>>

Initialized(t) ==
  /\ thr[t].pc = "init"
  /\ f_lock' = [f_lock EXCEPT ![thr[t].fp] = NULL]
  /\ Returns(t)
  /\ UNCHANGED <<heap, fh, refs, hashlock>>
-----------------------------------------------------------------------------
foo_hold(t) ==
  /\ thr[t] = Idle
  /\ \E r \in refs : /\ r.by = t
                     /\ f_lock[r.fp] = NULL
                     /\ Refers(t, r.fp)
                     /\ heap' = Counted(r.fp, 1)
  /\ UNCHANGED <<fh, thr, hashlock, f_lock>>

\* The first object of the list that has the id.
Finds(id, fp) ==
  LET list == fh[HASH(id)]
  IN \E i \in 1 .. Len(list) :
       /\ list[i] = fp
       /\ heap[fp].f_id = id
       /\ \A j \in 1 .. i - 1 : heap[list[j]].f_id # id

\* Mutant of FindLocks: hashlock is released before the object is held.
FindLocksNot(t) == UNCHANGED hashlock

FindLocks(t) == hashlock' = t

\* foo_find: the list is searched with hashlock held, and stays locked ...
Find(t) ==
  /\ thr[t] = Idle
  /\ hashlock = NULL
  /\ \E id \in Ids, fp \in Obj : Finds(id, fp) /\ MayRefer(t, fp) /\ Does(t, "find", fp)
  /\ FindLocks(t)
  /\ UNCHANGED <<heap, fh, refs, f_lock>>

\* ... while the object found is held.
FindHold(t) ==
  /\ thr[t].pc = "find"
  /\ f_lock[thr[t].fp] = NULL
  /\ Refers(t, thr[t].fp)
  /\ heap' = Counted(thr[t].fp, 1)
  /\ hashlock' = NULL
  /\ Returns(t)
  /\ UNCHANGED <<fh, f_lock>>
-----------------------------------------------------------------------------
(* foo_rele                                                                  *)

NotLast(fp) == heap[fp].f_count # 1

\* Not the last reference: count it off.
Rele(t) ==
  /\ thr[t] = Idle
  /\ \E r \in refs : /\ r.by = t
                     /\ f_lock[r.fp] = NULL
                     /\ NotLast(r.fp)
                     /\ heap' = Counted(r.fp, -1)
                     /\ refs' = refs \ {r}
  /\ UNCHANGED <<fh, thr, hashlock, f_lock>>

\* The last reference, it seems: f_lock is released ...
ReleLast(t) ==
  /\ thr[t] = Idle
  /\ \E r \in refs : /\ r.by = t
                     /\ f_lock[r.fp] = NULL
                     /\ ~NotLast(r.fp)
                     /\ thr' = [thr EXCEPT ![t] = [pc |-> "last", fp |-> r.fp, ref |-> r]]
  /\ UNCHANGED <<heap, fh, refs, hashlock, f_lock>>

\* ... the mutexes are taken in the order of foo_find ...
ReleHashlock(t) ==
  /\ thr[t].pc = "last"
  /\ hashlock = NULL /\ hashlock' = t
  /\ thr' = [thr EXCEPT ![t].pc = "recheck"]
  /\ UNCHANGED <<heap, fh, refs, f_lock>>

\* Mutant of StillLast: no second look.
AlwaysLast(fp) == TRUE

StillLast(fp) == heap[fp].f_count = 1
KeptCount(fp) == Counted(fp, -1)

\* ... and somebody has found the object in between, ...
ReleKeep(t) ==
  LET fp == thr[t].fp IN
    /\ thr[t].pc = "recheck"
    /\ f_lock[fp] = NULL
    /\ ~StillLast(fp)
    /\ heap' = KeptCount(fp)
    /\ refs' = refs \ {thr[t].ref}
    /\ hashlock' = NULL
    /\ Returns(t)
    /\ UNCHANGED <<fh, f_lock>>

\* The list without fp, which is on it once.
Without(list, fp) == LET i == CHOOSE i \in 1 .. Len(list) : list[i] = fp
                     IN SubSeq(list, 1, i - 1) \o SubSeq(list, i + 1, Len(list))

\* ... or not: the object is taken off its list; its mutex is released last.
ReleUnlink(t) ==
  LET fp == thr[t].fp IN
    /\ thr[t].pc = "recheck"
    /\ f_lock[fp] = NULL
    /\ StillLast(fp)
    /\ fh' = [fh EXCEPT ![HASH(heap[fp].f_id)] = Without(@, fp)]
    /\ refs' = refs \ {thr[t].ref}
    /\ hashlock' = NULL
    /\ f_lock' = [f_lock EXCEPT ![fp] = t]
    /\ Does(t, "free", fp)
    /\ UNCHANGED heap

Free(t) ==
  LET fp == thr[t].fp IN
    /\ thr[t].pc = "free"
    /\ heap' = [heap EXCEPT ![fp] = Freed]
    /\ f_lock' = [f_lock EXCEPT ![fp] = NULL]
    /\ Returns(t)
    /\ UNCHANGED <<fh, refs, hashlock>>
-----------------------------------------------------------------------------
Next == \E t \in Thread : \/ Malloc(t) \/ Insert(t) \/ Initialized(t)
                          \/ foo_hold(t) \/ Find(t) \/ FindHold(t)
                          \/ Rele(t) \/ ReleLast(t) \/ ReleHashlock(t) \/ ReleKeep(t)
                          \/ ReleUnlink(t) \/ Free(t)

Spec == Init /\ [][Next]_vars
-----------------------------------------------------------------------------
RefsTo(fp) == {r \in refs : r.fp = fp}

(* The count of an object is the number of references to it, also while one    *)
(* thread releases what it takes for the last one and another finds the        *)
(* object (mutex2.c:48, 75-85, 101).                                            *)
CountIsRefs == \A fp \in Obj : RefsTo(fp) # {} =>
                  heap[fp] # Freed /\ heap[fp].f_count = Cardinality(RefsTo(fp))

(* No thread waits for the mutex of, or has a reference to, an object that has *)
(* been freed: "need to recheck the condition" (mutex2.c:79).                  *)
NoUseAfterFree ==
  /\ \A r \in refs : heap[r.fp] # Freed
  /\ \A t \in Thread : thr[t].pc \in {"init", "find", "last", "recheck"} => heap[thr[t].fp] # Freed

\* For FooTable the count of an object off the table is 0, and a thread that
\* waits has not done anything yet.
Unlinking(fp) == \E t \in Thread : thr[t].pc = "free" /\ thr[t].fp = fp

TableHeap ==
  [fp \in Obj |-> IF Unlinking(fp) THEN [heap[fp] EXCEPT !.f_count = 0] ELSE heap[fp]]
TableThr ==
  [t \in Thread |-> IF thr[t].pc \in {"insert", "free"} THEN [pc |-> thr[t].pc, fp |-> thr[t].fp]
                    ELSE [pc |-> "idle", fp |-> NULL]]

Table == INSTANCE FooTable WITH heap <- TableHeap, thr <- TableThr

(* The table with two kinds of mutexes is the table with one: every call takes *)
(* effect at once (mutex2.c against mutex3.c).                                 *)
IsFooTable == Table!Spec

(* An object is in the table, allocated and counted right, as long as somebody  *)
(* has a reference to it, and no longer (mutex3.c:33-34, 59, 74-83;             *)
(* mutex2.c:35-37, 75-96).                                                      *)
ListedWhileReferenced == Table!ListedWhileReferenced

(* f_count is the number of references, no freed object is referred to or      *)
(* waited for, and an object is on the table exactly as long as somebody refers *)
(* to it (mutex3.c:33-34, 59, 74-83; mutex2.c:35-37, 48, 75-101).               *)
ReferencesSound == CountIsRefs /\ NoUseAfterFree /\ ListedWhileReferenced
=============================================================================
