------------------------------ MODULE FooTable ------------------------------
(***************************************************************************)
(* os/01.mutex/mutex3.c: a hash table of reference counted objects.  One   *)
(* mutex, hashlock, protects the lists and the counts, so a critical       *)
(* section is one step; malloc and free are steps of their own.            *)
(*                                                                         *)
(* A list is the sequence of its objects, not their f_next pointers.       *)
(* Callers keep the contract of the interface: a thread holds or releases  *)
(* only objects it has a reference to, and releases a reference once.      *)
(***************************************************************************)
EXTENDS Integers, Sequences, FiniteSets

CONSTANTS
  Thread,
  Obj,     \* the addresses malloc returns
  Ids,
  NHASH,
  Tags,    \* tell the references of one thread to one object apart, and bound them
  Freed, NULL

VARIABLES
  heap,   \* per address, the object there, or Freed
  fh,     \* per hash value, the list
  refs,   \* the references the threads have
  thr     \* what each thread is doing, and with which object

vars == <<heap, fh, refs, thr>>

HASH(id) == id % NHASH
Foo == [f_count : Int, f_id : Ids]
Ref == [by : Thread, fp : Obj, tag : Tags]
Idle == [pc |-> "idle", fp |-> NULL]

TypeOK ==
  /\ heap \in [Obj -> Foo \cup {Freed}]
  /\ fh \in [0 .. NHASH - 1 -> Seq(Obj)]
  /\ refs \subseteq Ref
  /\ thr \in [Thread -> [pc : {"idle", "insert", "free"}, fp : Obj \cup {NULL}]]

Init ==
  /\ heap = [o \in Obj |-> Freed]
  /\ fh = [h \in 0 .. NHASH - 1 |-> <<>>]
  /\ refs = {}
  /\ thr = [t \in Thread |-> Idle]

Does(t, pc, fp) == thr' = [thr EXCEPT ![t] = [pc |-> pc, fp |-> fp]]

\* t gets one more reference to fp.
Refers(t, fp) == \E tag \in Tags :
                   LET r == [by |-> t, fp |-> fp, tag |-> tag]
                   IN r \notin refs /\ refs' = refs \cup {r}
-----------------------------------------------------------------------------
\* foo_alloc: malloc, and the fields nobody else can see yet ...
Malloc(t) ==
  /\ thr[t] = Idle
  /\ \E fp \in Obj, id \in Ids :
       /\ heap[fp] = Freed
       /\ heap' = [heap EXCEPT ![fp] = [f_count |-> 1, f_id |-> id]]
       /\ Does(t, "insert", fp)
  /\ UNCHANGED <<fh, refs>>

\* ... and the object becomes the first of its list.
Insert(t) ==
  LET fp == thr[t].fp
      h  == HASH(heap[fp].f_id)
  IN /\ thr[t].pc = "insert"
     /\ fh' = [fh EXCEPT ![h] = <<fp>> \o @]
     /\ Refers(t, fp)
     /\ thr' = [thr EXCEPT ![t] = Idle]
     /\ UNCHANGED heap

Counted(fp, n) == [heap EXCEPT ![fp].f_count = @ + n]

foo_hold(t) ==
  /\ thr[t] = Idle
  /\ \E r \in refs : r.by = t /\ Refers(t, r.fp) /\ heap' = Counted(r.fp, 1)
  /\ UNCHANGED <<fh, thr>>

\* The first object of the list that has the id.
Finds(id, fp) ==
  LET list == fh[HASH(id)]
  IN \E i \in 1 .. Len(list) :
       /\ list[i] = fp
       /\ heap[fp].f_id = id
       /\ \A j \in 1 .. i - 1 : heap[list[j]].f_id # id

foo_find(t) ==
  /\ thr[t] = Idle
  /\ \E id \in Ids, fp \in Obj : Finds(id, fp) /\ Refers(t, fp) /\ heap' = Counted(fp, 1)
  /\ UNCHANGED <<fh, thr>>

Last(n) == n = 0

\* The list without fp, which is on it once.
Without(list, fp) == LET i == CHOOSE i \in 1 .. Len(list) : list[i] = fp
                     IN SubSeq(list, 1, i - 1) \o SubSeq(list, i + 1, Len(list))

Unlinked(fp) == [fh EXCEPT ![HASH(heap[fp].f_id)] = Without(@, fp)]

\* foo_rele: the last reference takes the object off its list ...
foo_rele(t) ==
  /\ thr[t] = Idle
  /\ \E r \in refs :
       /\ r.by = t
       /\ refs' = refs \ {r}
       /\ heap' = Counted(r.fp, -1)
       /\ \/ Last(heap'[r.fp].f_count) /\ fh' = Unlinked(r.fp) /\ Does(t, "free", r.fp)
          \/ ~Last(heap'[r.fp].f_count) /\ UNCHANGED <<fh, thr>>

\* ... which is freed with no mutex held.
Free(t) ==
  /\ thr[t].pc = "free"
  /\ heap' = [heap EXCEPT ![thr[t].fp] = Freed]
  /\ thr' = [thr EXCEPT ![t] = Idle]
  /\ UNCHANGED <<fh, refs>>

Next == \E t \in Thread : \/ Malloc(t) \/ Insert(t) \/ foo_hold(t) \/ foo_find(t)
                          \/ foo_rele(t) \/ Free(t)

Spec == Init /\ [][Next]_vars
-----------------------------------------------------------------------------
Listed(fp) == \E h \in DOMAIN fh : \E i \in DOMAIN fh[h] : fh[h][i] = fp
RefsTo(fp) == {r \in refs : r.fp = fp}

(* An object is in the table, allocated and counted right, as long as somebody *)
(* has a reference to it, and no longer (mutex3.c:33-34, 59, 74-83).           *)
ListedWhileReferenced ==
  \A fp \in Obj : /\ Listed(fp) <=> RefsTo(fp) # {}
                  /\ Listed(fp) => heap[fp] # Freed /\ heap[fp].f_count = Cardinality(RefsTo(fp))
=============================================================================
