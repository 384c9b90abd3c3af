---------------------------- MODULE FooTableProof ----------------------------
(* The reference counted table with a mutex per object, for any number of     *)
(* threads, objects, ids and lists: counts are numbers of references, nothing *)
(* that has been freed is used, and every call takes effect at once, as in    *)
(* the table with one mutex.                                                  *)
EXTENDS FooTableTwoLocks, FiniteSetTheorems, SequenceTheorems, TLAPS

-----------------------------------------------------------------------------
(* The lists: an object is on that of its id, once, and as long as somebody   *)
(* refers to it.                                                              *)
Lists == 0 .. NHASH - 1
At(h, i) == fh[h][i]
IsListed(fp) == \E h \in Lists : \E i \in 1 .. Len(fh[h]) : At(h, i) = fp

Placed == \A h \in Lists : \A i \in 1 .. Len(fh[h]) :
            /\ heap[At(h, i)] # Freed
            /\ HASH(heap[At(h, i)].f_id) = h
            /\ \A j \in 1 .. Len(fh[h]) : At(h, i) = At(h, j) => i = j

Referred == /\ IsFiniteSet(refs)
            /\ \A fp \in Obj : IsListed(fp) <=> RefsTo(fp) # {}
            /\ CountIsRefs

(* The threads: what they work with cannot go away under them.                *)
Has(t) == \E r \in refs : r.by = t /\ r.fp = thr[t].fp

InCall(t) ==
  /\ thr[t].pc = "idle" => thr[t] = Idle
  /\ thr[t].pc # "idle" => thr[t].fp \in Obj
  /\ thr[t].pc \in {"insert", "free"} => /\ heap[thr[t].fp] # Freed
                                         /\ heap[thr[t].fp].f_count = 1
                                         /\ RefsTo(thr[t].fp) = {}
  /\ thr[t].pc = "init" => Has(t)
  /\ thr[t].pc \in {"last", "recheck"} =>
       thr[t].ref \in refs /\ thr[t].ref.by = t /\ thr[t].ref.fp = thr[t].fp
  /\ thr[t].pc = "find" => heap[thr[t].fp] # Freed /\ Finds(heap[thr[t].fp].f_id, thr[t].fp)
  /\ thr[t].pc \in {"find", "recheck"} => hashlock = t

Busy == \A t \in Thread : InCall(t)

(* What is not on the list yet, or no longer, belongs to one thread.          *)
Apart == \A t, u \in Thread :
  t # u /\ thr[t].pc \in {"insert", "free"} => thr[u].fp # thr[t].fp

FInv == TypeOK /\ Placed /\ Referred /\ Busy /\ Apart

-----------------------------------------------------------------------------
(* References and counts.                                                     *)

LEMMA MoreRefs ==
  ASSUME IsFiniteSet(refs), NEW r, r \notin refs, refs' = refs \cup {r}
  PROVE  /\ IsFiniteSet(refs')
         /\ RefsTo(r.fp)' = RefsTo(r.fp) \cup {r}
         /\ Cardinality(RefsTo(r.fp)') = Cardinality(RefsTo(r.fp)) + 1
         /\ \A o : o # r.fp => RefsTo(o)' = RefsTo(o)
  <1>1. IsFiniteSet(RefsTo(r.fp)) /\ r \notin RefsTo(r.fp)
    BY FS_Subset DEF RefsTo
  <1>2. RefsTo(r.fp)' = RefsTo(r.fp) \cup {r} /\ \A o : o # r.fp => RefsTo(o)' = RefsTo(o)
    BY DEF RefsTo
  <1> QED BY <1>1, <1>2, FS_AddElement

LEMMA FewerRefs ==
  ASSUME IsFiniteSet(refs), NEW r \in refs, refs' = refs \ {r}
  PROVE  /\ IsFiniteSet(refs')
         /\ RefsTo(r.fp)' = RefsTo(r.fp) \ {r}
         /\ Cardinality(RefsTo(r.fp)) \in Nat \ {0}
         /\ Cardinality(RefsTo(r.fp)') = Cardinality(RefsTo(r.fp)) - 1
         /\ (RefsTo(r.fp)' = {}) <=> (Cardinality(RefsTo(r.fp)) = 1)
         /\ \A o : o # r.fp => RefsTo(o)' = RefsTo(o)
  <1>1. IsFiniteSet(RefsTo(r.fp)) /\ r \in RefsTo(r.fp)
    BY FS_Subset DEF RefsTo
  <1>2. RefsTo(r.fp)' = RefsTo(r.fp) \ {r} /\ \A o : o # r.fp => RefsTo(o)' = RefsTo(o)
    BY DEF RefsTo
  <1>3. /\ IsFiniteSet(refs') /\ IsFiniteSet(RefsTo(r.fp)')
        /\ Cardinality(RefsTo(r.fp)') = Cardinality(RefsTo(r.fp)) - 1
    BY <1>1, <1>2, FS_RemoveElement
  <1>4. Cardinality(RefsTo(r.fp)) \in Nat /\ Cardinality(RefsTo(r.fp)') \in Nat
    BY <1>1, <1>3, FS_CardinalityType
  <1>5. (RefsTo(r.fp)' = {}) <=> (Cardinality(RefsTo(r.fp)') = 0)
    BY <1>3, FS_EmptySet
  <1> QED BY <1>2, <1>3, <1>4, <1>5

\* Somebody who refers to fp alone is the only one to do so.
LEMMA OnlyRef ==
  ASSUME IsFiniteSet(refs), NEW r \in refs, NEW s \in refs, s.fp = r.fp,
         Cardinality(RefsTo(r.fp)) = 1
  PROVE  s = r
  <1>1. IsFiniteSet(RefsTo(r.fp)) /\ r \in RefsTo(r.fp) /\ s \in RefsTo(r.fp)
    BY FS_Subset DEF RefsTo
  <1>2. IsFiniteSet(RefsTo(r.fp) \ {r}) /\ Cardinality(RefsTo(r.fp) \ {r}) = 0
    BY <1>1, FS_RemoveElement
  <1>3. RefsTo(r.fp) \ {r} = {}
    BY <1>2, FS_EmptySet
  <1> QED BY <1>1, <1>3

LEMMA Count ==
  ASSUME TypeOK, NEW fp \in Obj, heap[fp] # Freed, NEW n \in Int,
         heap[fp].f_count + n \in Nat \ {0}, heap' = Counted(fp, n), ConstantsAssumption
  PROVE  /\ heap' \in [Obj -> Foo \cup {Freed}]
         /\ heap'[fp].f_count = heap[fp].f_count + n
         /\ \A o \in Obj : /\ (heap'[o] = Freed) = (heap[o] = Freed)
                           /\ heap[o] # Freed => heap'[o].f_id = heap[o].f_id
                           /\ o # fp => heap'[o] = heap[o]
  <1>1. heap[fp] \in Foo /\ heap \in [Obj -> Foo \cup {Freed}]
    BY DEF TypeOK
  <1>2. [heap[fp] EXCEPT !.f_count = heap[fp].f_count + n] \in Foo
    BY <1>1 DEF Foo
  <1>3. Freed \notin Foo
    BY DEF ConstantsAssumption, Foo
  <1>4. heap' = [heap EXCEPT ![fp] = [heap[fp] EXCEPT !.f_count = heap[fp].f_count + n]]
    BY DEF Counted
  <1>5. heap'[fp].f_count = heap[fp].f_count + n /\ heap'[fp].f_id = heap[fp].f_id
    BY <1>1, <1>4 DEF Foo
  <1> QED BY <1>1, <1>2, <1>3, <1>4, <1>5

-----------------------------------------------------------------------------
(* Lists.                                                                     *)

LEMMA InList ==
  ASSUME FInv, NEW h \in Lists, NEW i \in 1 .. Len(fh[h])
  PROVE  /\ fh[h] \in Seq(Obj) /\ Len(fh[h]) \in Nat /\ At(h, i) \in Obj
         /\ heap[At(h, i)] # Freed /\ RefsTo(At(h, i)) # {}
  BY DEF FInv, TypeOK, Lists, At, Placed, Referred, IsListed

LEMMA ListOf ==
  ASSUME ConstantsAssumption, FInv, NEW fp \in Obj, heap[fp] # Freed
  PROVE  HASH(heap[fp].f_id) \in Lists
  <1>1. heap[fp].f_id \in Nat
    BY DEF ConstantsAssumption, FInv, TypeOK, Foo
  <1> QED BY <1>1 DEF HASH, Lists, ConstantsAssumption

LEMMA WithoutOne ==
  ASSUME NEW S, NEW list \in Seq(S), NEW fp, NEW k \in 1 .. Len(list), list[k] = fp,
         \A j \in 1 .. Len(list) : list[j] = fp => j = k
  PROVE  /\ Without(list, fp) \in Seq(S)
         /\ Len(Without(list, fp)) = Len(list) - 1
         /\ \A j \in 1 .. Len(list) - 1 :
              Without(list, fp)[j] = IF j < k THEN list[j] ELSE list[j + 1]
  <1>1. (CHOOSE i \in 1 .. Len(list) : list[i] = fp) = k
    OBVIOUS
  <1>2. Without(list, fp) = SubSeq(list, 1, k - 1) \o SubSeq(list, k + 1, Len(list))
    BY <1>1 DEF Without
  <1>3. /\ SubSeq(list, 1, k - 1) \in Seq(S) /\ Len(SubSeq(list, 1, k - 1)) = k - 1
        /\ \A j \in 1 .. k - 1 : SubSeq(list, 1, k - 1)[j] = list[j]
    OBVIOUS
  <1>4. /\ SubSeq(list, k + 1, Len(list)) \in Seq(S)
        /\ Len(SubSeq(list, k + 1, Len(list))) = Len(list) - k
        /\ \A j \in 1 .. Len(list) - k : SubSeq(list, k + 1, Len(list))[j] = list[j + k]
    OBVIOUS
  <1> DEFINE a == SubSeq(list, 1, k - 1)
             b == SubSeq(list, k + 1, Len(list))
  <1> HIDE DEF a, b
  <1>5. /\ a \in Seq(S) /\ Len(a) = k - 1 /\ \A j \in 1 .. k - 1 : a[j] = list[j]
        /\ b \in Seq(S) /\ Len(b) = Len(list) - k /\ \A j \in 1 .. Len(list) - k : b[j] = list[j + k]
        /\ Without(list, fp) = a \o b
    BY <1>2, <1>3, <1>4 DEF a, b
  <1>6. /\ a \o b \in Seq(S) /\ Len(a \o b) = Len(a) + Len(b)
        /\ \A j \in 1 .. Len(a) + Len(b) : (a \o b)[j] = IF j <= Len(a) THEN a[j] ELSE b[j - Len(a)]
    BY <1>5, ConcatProperties
  <1>7. Len(list) \in Nat /\ k \in Int
    OBVIOUS
  <1>8. ASSUME NEW j \in 1 .. Len(list) - 1
        PROVE  (a \o b)[j] = IF j < k THEN list[j] ELSE list[j + 1]
    <2>1. CASE j < k
      BY <1>5, <1>6, <1>7, <2>1
    <2>2. CASE ~(j < k)
      <3>1. j - (k - 1) \in 1 .. Len(list) - k /\ (j - (k - 1)) + k = j + 1
        BY <1>7, <2>2
      <3>2. (a \o b)[j] = b[j - (k - 1)]
        <4>1. j \in 1 .. Len(a) + Len(b) /\ ~(j <= Len(a)) /\ Len(a) = k - 1
          BY <1>5, <1>7, <2>2
        <4> QED BY <1>6, <4>1
      <3> QED BY <1>5, <2>2, <3>1, <3>2
    <2> QED BY <2>1, <2>2
  <1>9. Len(a) + Len(b) = Len(list) - 1
    BY <1>5, <1>7
  <1> QED BY <1>5, <1>6, <1>8, <1>9

\* What a thread finds is listed, and stays so while the list does.
LEMMA FoundIsReferred ==
  ASSUME ConstantsAssumption, FInv, NEW fp \in Obj, heap[fp] # Freed, NEW id, Finds(id, fp)
  PROVE  RefsTo(fp) # {}
  <1>1. id = heap[fp].f_id /\ HASH(id) \in Lists
    BY ListOf DEF Finds
  <1>2. PICK i \in 1 .. Len(fh[HASH(id)]) : fh[HASH(id)][i] = fp
    BY DEF Finds
  <1> QED BY <1>1, <1>2 DEF FInv, Referred, IsListed, At

LEMMA StillFinds ==
  ASSUME ConstantsAssumption, FInv, NEW fp \in Obj, NEW id, heap[fp] # Freed, Finds(id, fp),
         fh' = fh, \A o \in Obj : RefsTo(o) # {} => heap'[o].f_id = heap[o].f_id
  PROVE  Finds(id, fp)'
  <1>1. id = heap[fp].f_id /\ HASH(id) \in Lists
    BY ListOf DEF Finds
  <1>2. PICK i \in 1 .. Len(fh[HASH(id)]) :
          /\ fh[HASH(id)][i] = fp
          /\ \A j \in 1 .. i - 1 : heap[fh[HASH(id)][j]].f_id # id
    BY DEF Finds
  <1>3. \A k \in 1 .. Len(fh[HASH(id)]) : heap'[fh[HASH(id)][k]].f_id = heap[fh[HASH(id)][k]].f_id
    BY <1>1, InList DEF At
  <1>4. Len(fh[HASH(id)]) \in Nat /\ \A j \in 1 .. i - 1 : j \in 1 .. Len(fh[HASH(id)])
    BY <1>1 DEF FInv, TypeOK, Lists
  <1>5. heap'[fp].f_id = id
    BY <1>1, FoundIsReferred
  <1> QED BY <1>2, <1>3, <1>4, <1>5 DEF Finds

-----------------------------------------------------------------------------
(* A step of t leaves the other threads as they were, when it leaves alone     *)
(* what they rely on.                                                          *)
LEMMA Others ==
  ASSUME ConstantsAssumption, FInv, NEW t \in Thread,
         \A u \in Thread \ {t} : thr'[u] = thr[u],
         \A r \in refs : r.by # t => r \in refs',
         hashlock' = hashlock \/ hashlock \in {t, NULL},
         hashlock \in Thread \ {t} => fh' = fh,
         \A o \in Obj : RefsTo(o) # {} => heap'[o] # Freed /\ heap'[o].f_id = heap[o].f_id,
         \A u \in Thread \ {t} : thr[u].pc \in {"insert", "free"} =>
           heap'[thr[u].fp] = heap[thr[u].fp] /\ \A r \in refs' : r.fp # thr[u].fp,
         \A u \in Thread \ {t} : thr[u].pc \in {"insert", "free"} => thr[u].fp # thr'[t].fp,
         thr'[t].pc \in {"insert", "free"} => \A u \in Thread \ {t} : thr[u].fp # thr'[t].fp,
         TypeOK', Placed', Referred', InCall(t)'
  PROVE  FInv'
  <1>1. ASSUME NEW u \in Thread \ {t} PROVE InCall(u)'
    <2>1. InCall(u) /\ thr'[u] = thr[u]
      BY DEF FInv, Busy
    <2>2. /\ thr'[u].pc = "idle" => thr'[u] = Idle
          /\ thr'[u].pc # "idle" => thr'[u].fp \in Obj
      BY <2>1 DEF InCall
    <2>3. thr'[u].pc \in {"insert", "free"} => /\ heap'[thr'[u].fp] # Freed
                                              /\ heap'[thr'[u].fp].f_count = 1
                                              /\ RefsTo(thr[u].fp)' = {}
      BY <2>1 DEF InCall, RefsTo
    <2>4. thr'[u].pc = "init" => Has(u)'
      BY <2>1 DEF InCall, Has
    <2>5. thr'[u].pc \in {"last", "recheck"} =>
            thr'[u].ref \in refs' /\ thr'[u].ref.by = u /\ thr'[u].ref.fp = thr'[u].fp
      BY <2>1 DEF InCall
    <2>6. thr'[u].pc \in {"find", "recheck"} => hashlock' = u
      BY <2>1 DEF InCall, ConstantsAssumption
    <2>7. ASSUME thr'[u].pc = "find" PROVE Finds(heap[thr[u].fp].f_id, thr[u].fp)'
      <3>1. PICK fp, id : fp \in Obj /\ fp = thr[u].fp /\ id = heap[fp].f_id
        BY <2>1, <2>7 DEF InCall
      <3>2. fh' = fh /\ Finds(id, fp) /\ heap[fp] # Freed /\ thr'[u].fp = fp
        BY <2>1, <2>7, <3>1 DEF InCall
      <3>3. heap'[fp].f_id = id
        BY <3>1, <3>2, FoundIsReferred
      <3>4. Finds(id, fp)'
        BY <3>1, <3>2, <3>3, StillFinds
      <3> QED BY <3>2, <3>3, <3>4 DEF Finds
    <2>8. thr'[u].pc = "find" => heap'[thr'[u].fp] # Freed
      BY <2>1, FoundIsReferred DEF InCall
    <2> QED BY <2>1, <2>2, <2>3, <2>4, <2>5, <2>6, <2>7, <2>8 DEF InCall
  <1>2. Busy'
    BY <1>1 DEF Busy
  <1>3. Apart'
    BY DEF FInv, Apart
  <1> QED BY <1>2, <1>3 DEF FInv

-----------------------------------------------------------------------------
(* What the steps do to the lists and the references.                         *)

\* What Others asks of the heap and the references.
Kept == /\ \A o \in Obj : RefsTo(o) # {} => heap'[o] # Freed /\ heap'[o].f_id = heap[o].f_id
        /\ \A o \in Obj : RefsTo(o) = {} => heap'[o] = heap[o] /\ \A r \in refs' : r.fp # o

LEMMA SameLists ==
  ASSUME FInv, fh' = fh,
         \A o \in Obj : RefsTo(o) # {} => heap'[o] # Freed /\ heap'[o].f_id = heap[o].f_id
  PROVE  Placed' /\ \A o : IsListed(o)' <=> IsListed(o)
  <1>1. Placed'
    <2>1. ASSUME NEW h \in Lists, NEW i \in 1 .. Len(fh[h])
          PROVE  /\ heap'[At(h, i)] # Freed /\ HASH(heap'[At(h, i)].f_id) = h
                 /\ \A j \in 1 .. Len(fh[h]) : At(h, i) = At(h, j) => i = j
      <3>1. At(h, i) \in Obj /\ RefsTo(At(h, i)) # {}
        BY InList
      <3> QED BY <3>1 DEF FInv, Placed
    <2> QED BY <2>1 DEF Placed, At
  <1>2. \A o : IsListed(o)' <=> IsListed(o)
    BY DEF IsListed, At
  <1> QED BY <1>1, <1>2

LEMMA NewRef ==
  ASSUME ConstantsAssumption, FInv, NEW fp \in Obj, RefsTo(fp) # {},
         NEW r, r.fp = fp, r \notin refs, refs' = refs \cup {r},
         heap' = Counted(fp, 1), fh' = fh
  PROVE  heap' \in [Obj -> Foo \cup {Freed}] /\ Placed' /\ Referred' /\ Kept
  <1>1. /\ IsFiniteSet(refs) /\ heap[fp] # Freed /\ heap[fp].f_count = Cardinality(RefsTo(fp))
        /\ heap[fp].f_count \in Nat \ {0}
    BY DEF FInv, Referred, CountIsRefs, TypeOK, Foo
  <1>2. /\ IsFiniteSet(refs') /\ RefsTo(fp)' = RefsTo(fp) \cup {r}
        /\ Cardinality(RefsTo(fp)') = Cardinality(RefsTo(fp)) + 1
        /\ \A o : o # fp => RefsTo(o)' = RefsTo(o)
    BY <1>1, MoreRefs
  <1>3. /\ heap' \in [Obj -> Foo \cup {Freed}]
        /\ heap'[fp].f_count = heap[fp].f_count + 1
        /\ \A o \in Obj : /\ (heap'[o] = Freed) = (heap[o] = Freed)
                          /\ heap[o] # Freed => heap'[o].f_id = heap[o].f_id
                          /\ o # fp => heap'[o] = heap[o]
    BY <1>1, Count DEF FInv
  <1>4. \A o \in Obj : RefsTo(o) # {} => heap[o] # Freed
    BY DEF FInv, Referred, CountIsRefs
  <1>5. Kept
    BY <1>2, <1>3, <1>4 DEF Kept, RefsTo
  <1>6. Placed' /\ \A o : IsListed(o)' <=> IsListed(o)
    BY <1>5, SameLists DEF Kept
  <1>7. ASSUME NEW o \in Obj
        PROVE  /\ IsListed(o)' <=> RefsTo(o)' # {}
               /\ RefsTo(o)' # {} => heap'[o] # Freed /\ heap'[o].f_count = Cardinality(RefsTo(o)')
    <2>1. CASE o = fp
      BY <1>1, <1>2, <1>3, <1>6, <2>1 DEF FInv, Referred
    <2>2. CASE o # fp
      BY <1>2, <1>3, <1>6, <2>2 DEF FInv, Referred, CountIsRefs
    <2> QED BY <2>1, <2>2
  <1>8. Referred'
    BY <1>2, <1>7 DEF Referred, CountIsRefs
  <1> QED BY <1>3, <1>5, <1>6, <1>8

LEMMA NoRef ==
  ASSUME ConstantsAssumption, FInv, NEW fp \in Obj, NEW r \in refs, r.fp = fp,
         refs' = refs \ {r}, heap[fp].f_count # 1,
         heap' = Counted(fp, -1), fh' = fh
  PROVE  heap' \in [Obj -> Foo \cup {Freed}] /\ Placed' /\ Referred' /\ Kept
  <1>1. /\ IsFiniteSet(refs) /\ RefsTo(fp) # {}
        /\ heap[fp] # Freed /\ heap[fp].f_count = Cardinality(RefsTo(fp))
        /\ heap[fp].f_count \in Nat \ {0, 1}
    BY DEF FInv, Referred, CountIsRefs, TypeOK, Foo, RefsTo
  <1>2. /\ IsFiniteSet(refs') /\ RefsTo(fp)' # {}
        /\ Cardinality(RefsTo(fp)') = Cardinality(RefsTo(fp)) - 1
        /\ \A o : o # fp => RefsTo(o)' = RefsTo(o)
    BY <1>1, FewerRefs
  <1>3. /\ heap' \in [Obj -> Foo \cup {Freed}]
        /\ heap'[fp].f_count = heap[fp].f_count - 1
        /\ \A o \in Obj : /\ (heap'[o] = Freed) = (heap[o] = Freed)
                          /\ heap[o] # Freed => heap'[o].f_id = heap[o].f_id
                          /\ o # fp => heap'[o] = heap[o]
    BY <1>1, Count DEF FInv
  <1>4. \A o \in Obj : RefsTo(o) # {} => heap[o] # Freed
    BY DEF FInv, Referred, CountIsRefs
  <1>5. Kept
    BY <1>1, <1>3, <1>4 DEF Kept, RefsTo
  <1>6. Placed' /\ \A o : IsListed(o)' <=> IsListed(o)
    BY <1>5, SameLists DEF Kept
  <1>7. ASSUME NEW o \in Obj
        PROVE  /\ IsListed(o)' <=> RefsTo(o)' # {}
               /\ RefsTo(o)' # {} => heap'[o] # Freed /\ heap'[o].f_count = Cardinality(RefsTo(o)')
    <2>1. CASE o = fp
      BY <1>1, <1>2, <1>3, <1>6, <2>1 DEF FInv, Referred
    <2>2. CASE o # fp
      BY <1>2, <1>3, <1>6, <2>2 DEF FInv, Referred, CountIsRefs
    <2> QED BY <2>1, <2>2
  <1>8. Referred'
    BY <1>2, <1>7 DEF Referred, CountIsRefs
  <1> QED BY <1>3, <1>5, <1>6, <1>8

\* An object nobody refers to comes or goes.
LEMMA Unreferred ==
  ASSUME FInv, NEW fp \in Obj, RefsTo(fp) = {}, NEW x, heap' = [heap EXCEPT ![fp] = x],
         fh' = fh, refs' = refs
  PROVE  Placed' /\ Referred'
         /\ \A o \in Obj : RefsTo(o) # {} => heap'[o] # Freed /\ heap'[o].f_id = heap[o].f_id
  <1>1. \A o : RefsTo(o)' = RefsTo(o)
    BY DEF RefsTo
  <1>2. \A o \in Obj : RefsTo(o) # {} => heap'[o] = heap[o] /\ heap[o] # Freed
    BY DEF FInv, TypeOK, Referred, CountIsRefs
  <1>3. Placed' /\ \A o : IsListed(o)' <=> IsListed(o)
    BY <1>2, SameLists
  <1>4. Referred'
    BY <1>1, <1>2, <1>3 DEF FInv, Referred, CountIsRefs
  <1> QED BY <1>2, <1>3, <1>4

\* Nothing changes but threads and locks.
LEMMA Waits ==
  ASSUME FInv, UNCHANGED <<heap, fh, refs>>
  PROVE  Placed' /\ Referred' /\ Kept
  <1>1. \A o : RefsTo(o)' = RefsTo(o) /\ (IsListed(o)' <=> IsListed(o))
    BY DEF RefsTo, IsListed, At
  <1>2. Kept
    BY DEF Kept, RefsTo, FInv, Referred, CountIsRefs
  <1>3. Placed'
    BY <1>2, SameLists DEF Kept
  <1>4. Referred'
    BY <1>1 DEF FInv, Referred, CountIsRefs
  <1> QED BY <1>2, <1>3, <1>4

\* The first reference puts the object on its list, ...
LEMMA Link ==
  ASSUME ConstantsAssumption, FInv, NEW fp \in Obj, heap[fp] # Freed, heap[fp].f_count = 1,
         RefsTo(fp) = {}, NEW h, h = HASH(heap[fp].f_id),
         fh' = [fh EXCEPT ![h] = <<fp>> \o @], heap' = heap,
         NEW r, r.fp = fp, r \notin refs, refs' = refs \cup {r}
  PROVE  /\ fh' \in [Lists -> Seq(Obj)] /\ Placed' /\ Referred'
         /\ \A o \in Obj : RefsTo(o) # {} => heap'[o] # Freed /\ heap'[o].f_id = heap[o].f_id
         /\ \A o \in Obj : RefsTo(o) = {} /\ o # fp => \A s \in refs' : s.fp # o
  <1>1. /\ h \in Lists /\ fh \in [Lists -> Seq(Obj)] /\ IsFiniteSet(refs)
        /\ \A o \in Obj : RefsTo(o) # {} => heap[o] # Freed
    BY ListOf DEF FInv, TypeOK, Lists, Referred, CountIsRefs
  <1>2. /\ IsFiniteSet(refs') /\ RefsTo(fp)' = {r} /\ Cardinality(RefsTo(fp)') = 1
        /\ \A o : o # fp => RefsTo(o)' = RefsTo(o)
    <2>1. /\ IsFiniteSet(refs') /\ RefsTo(fp)' = RefsTo(fp) \cup {r}
          /\ Cardinality(RefsTo(fp)') = Cardinality(RefsTo(fp)) + 1
          /\ \A o : o # fp => RefsTo(o)' = RefsTo(o)
      BY <1>1, MoreRefs
    <2>2. Cardinality(RefsTo(fp)) = 0
      BY FS_EmptySet
    <2> QED BY <2>1, <2>2
  <1> DEFINE l == fh[h]
             m == <<fp>> \o l
  <1>3. /\ m \in Seq(Obj) /\ Len(m) = Len(l) + 1 /\ Len(l) \in Nat
        /\ m[1] = fp /\ \A i \in 1 .. Len(l) : m[i + 1] = l[i]
        /\ \A i \in 2 .. Len(m) : m[i] = l[i - 1]
    <2>1. l \in Seq(Obj) /\ <<fp>> \in Seq(Obj) /\ Len(<<fp>>) = 1 /\ Len(l) \in Nat /\ <<fp>>[1] = fp
      BY <1>1
    <2> HIDE DEF l
    <2>2. /\ m \in Seq(Obj) /\ Len(m) = 1 + Len(l)
          /\ \A i \in 1 .. 1 + Len(l) : m[i] = IF i <= 1 THEN <<fp>>[i] ELSE l[i - 1]
      BY <2>1, ConcatProperties
    <2>3. \A i \in 1 .. Len(l) : i + 1 \in 1 .. 1 + Len(l) /\ ~(i + 1 <= 1) /\ (i + 1) - 1 = i
      BY <2>1
    <2> HIDE DEF m
    <2>4. m[1] = fp /\ \A i \in 2 .. Len(m) : m[i] = l[i - 1]
      BY <2>1, <2>2
    <2>5. ASSUME NEW i \in 1 .. Len(l) PROVE m[i + 1] = l[i]
      BY <2>1, <2>2, <2>3
    <2> QED BY <2>1, <2>2, <2>4, <2>5
  <1> HIDE DEF m
  <1>4. fh'[h] = m /\ (\A g \in Lists : g # h => fh'[g] = fh[g]) /\ fh' \in [Lists -> Seq(Obj)]
    BY <1>1, <1>3 DEF m
  <1>5. \A g \in Lists : \A i \in 1 .. Len(fh[g]) : fh[g][i] # fp
    BY DEF FInv, Referred, IsListed, At
  <1>6. Placed'
    <2>1. ASSUME NEW g \in Lists, g # h PROVE \A i \in 1 .. Len(fh[g]) :
                    /\ heap[fh'[g][i]] # Freed /\ HASH(heap[fh'[g][i]].f_id) = g
                    /\ \A j \in 1 .. Len(fh'[g]) : fh'[g][i] = fh'[g][j] => i = j
      BY <1>4, <2>1 DEF FInv, Placed, At
    <2>2. ASSUME NEW i \in 1 .. Len(m)
          PROVE  /\ heap[m[i]] # Freed /\ HASH(heap[m[i]].f_id) = h
                 /\ \A j \in 1 .. Len(m) : m[i] = m[j] => i = j
      <3>1. \A k \in 1 .. Len(m) : k = 1 \/ (k - 1 \in 1 .. Len(l) /\ m[k] = l[k - 1])
        BY <1>3
      <3>2. \A k \in 1 .. Len(l) : /\ heap[l[k]] # Freed /\ HASH(heap[l[k]].f_id) = h /\ l[k] # fp
                                   /\ \A j \in 1 .. Len(l) : l[k] = l[j] => k = j
        BY <1>1, <1>5 DEF FInv, Placed, At
      <3> HIDE DEF l
      <3> QED BY <1>3, <3>1, <3>2, SMTT(60)
    <2>3. Placed' <=> \A g \in Lists : \A i \in 1 .. Len(fh'[g]) :
                    /\ heap[fh'[g][i]] # Freed /\ HASH(heap[fh'[g][i]].f_id) = g
                    /\ \A j \in 1 .. Len(fh'[g]) : fh'[g][i] = fh'[g][j] => i = j
      BY DEF Placed, At
    <2> QED BY <1>1, <1>4, <2>1, <2>2, <2>3
  <1>7. ASSUME NEW o \in Obj PROVE IsListed(o)' <=> IsListed(o) \/ o = fp
    <2>1. IsListed(o)' <=> \E g \in Lists : \E i \in 1 .. Len(fh'[g]) : fh'[g][i] = o
      BY DEF IsListed, At
    <2>2. (\E i \in 1 .. Len(m) : m[i] = o) <=> (\E i \in 1 .. Len(l) : l[i] = o) \/ o = fp
      <3>1. \A k \in 1 .. Len(m) : k = 1 \/ (k - 1 \in 1 .. Len(l) /\ m[k] = l[k - 1])
        BY <1>3
      <3>2. \A k \in 1 .. Len(l) : k + 1 \in 1 .. Len(m)
        BY <1>3
      <3>3. 1 \in 1 .. Len(m)
        BY <1>3
      <3> HIDE DEF l
      <3> QED BY <1>3, <3>1, <3>2, <3>3, ZenonT(60)
    <2>3. IsListed(o)' => IsListed(o) \/ o = fp
      <3>1. SUFFICES ASSUME NEW g \in Lists, NEW i \in 1 .. Len(fh'[g]), fh'[g][i] = o, o # fp
                     PROVE  IsListed(o)
        BY <2>1
      <3>2. CASE g = h
        BY <1>1, <1>4, <2>2, <3>1, <3>2 DEF IsListed, At
      <3>3. CASE g # h
        BY <1>4, <3>1, <3>3 DEF IsListed, At
      <3> QED BY <3>2, <3>3
    <2>4. o = fp => IsListed(o)'
      BY <1>1, <1>4, <2>1, <2>2
    <2>5. ASSUME IsListed(o) PROVE IsListed(o)'
      <3>1. PICK g \in Lists : \E i \in 1 .. Len(fh[g]) : fh[g][i] = o
        BY <2>5 DEF IsListed, At
      <3>2. CASE g = h
        BY <1>1, <1>4, <2>1, <2>2, <3>1, <3>2, SMTT(60)
      <3>3. CASE g # h
        BY <1>4, <2>1, <3>1, <3>3
      <3> QED BY <3>2, <3>3
    <2> QED BY <2>3, <2>4, <2>5
  <1>8. Referred'
    BY <1>2, <1>7 DEF FInv, Referred, CountIsRefs
  <1>9. \A o \in Obj : RefsTo(o) = {} /\ o # fp => \A s \in refs' : s.fp # o
    BY DEF RefsTo
  <1> QED BY <1>1, <1>4, <1>6, <1>8, <1>9

\* ... and the last one takes it off.
LEMMA Unlink ==
  ASSUME ConstantsAssumption, FInv, NEW fp \in Obj, NEW r \in refs, r.fp = fp,
         refs' = refs \ {r}, heap[fp].f_count = 1, NEW h, h = HASH(heap[fp].f_id),
         fh' = [fh EXCEPT ![h] = Without(@, fp)], heap' = heap
  PROVE  /\ fh' \in [Lists -> Seq(Obj)] /\ Placed' /\ Referred' /\ Kept
         /\ RefsTo(fp)' = {} /\ heap[fp] # Freed
  <1>1. /\ fh \in [Lists -> Seq(Obj)] /\ IsFiniteSet(refs) /\ RefsTo(fp) # {}
        /\ \A o \in Obj : RefsTo(o) # {} => heap[o] # Freed
        /\ heap[fp].f_count = Cardinality(RefsTo(fp)) /\ IsListed(fp)
    BY DEF FInv, TypeOK, Lists, Referred, CountIsRefs, RefsTo
  <1>2. /\ IsFiniteSet(refs') /\ RefsTo(fp)' = {}
        /\ \A o : o # fp => RefsTo(o)' = RefsTo(o)
    BY <1>1, FewerRefs
  <1>3. PICK k : h \in Lists /\ k \in 1 .. Len(fh[h]) /\ fh[h][k] = fp
    BY <1>1 DEF FInv, Placed, IsListed, At
  <1> DEFINE l == fh[h]
             m == Without(l, fp)
  <1>4. /\ m \in Seq(Obj) /\ Len(m) = Len(l) - 1 /\ Len(l) \in Nat
        /\ \A j \in 1 .. Len(l) - 1 : m[j] = IF j < k THEN l[j] ELSE l[j + 1]
    <2>1. l \in Seq(Obj) /\ k \in 1 .. Len(l) /\ l[k] = fp
          /\ \A j \in 1 .. Len(l) : l[j] = fp => j = k
      BY <1>1, <1>3 DEF FInv, Placed, At
    <2> HIDE DEF l
    <2> QED BY <2>1, WithoutOne
  <1> HIDE DEF m
  <1>5. fh'[h] = m /\ (\A g \in Lists : g # h => fh'[g] = fh[g]) /\ fh' \in [Lists -> Seq(Obj)]
    BY <1>1, <1>3, <1>4 DEF m
  <1>6. \A i \in 1 .. Len(l) : /\ heap[l[i]] # Freed /\ HASH(heap[l[i]].f_id) = h
                               /\ \A j \in 1 .. Len(l) : l[i] = l[j] => i = j
    BY <1>3 DEF FInv, Placed, At
  <1>7. l[k] = fp /\ k \in 1 .. Len(l)
    BY <1>3
  <1>8. Placed'
    <2>1. ASSUME NEW g \in Lists, g # h PROVE \A i \in 1 .. Len(fh'[g]) :
                    /\ heap[fh'[g][i]] # Freed /\ HASH(heap[fh'[g][i]].f_id) = g
                    /\ \A j \in 1 .. Len(fh'[g]) : fh'[g][i] = fh'[g][j] => i = j
      BY <1>5, <2>1 DEF FInv, Placed, At
    <2>2. ASSUME NEW i \in 1 .. Len(m)
          PROVE  /\ heap[m[i]] # Freed /\ HASH(heap[m[i]].f_id) = h
                 /\ \A j \in 1 .. Len(m) : m[i] = m[j] => i = j
      <3> HIDE DEF l
      <3>1. \A j \in 1 .. Len(m) : j \in 1 .. Len(l) /\ j + 1 \in 1 .. Len(l) /\ j \in 1 .. Len(l) - 1
        BY <1>4
      <3> QED BY <1>4, <1>6, <1>7, <3>1, SMTT(60)
    <2>3. Placed' <=> \A g \in Lists : \A i \in 1 .. Len(fh'[g]) :
                    /\ heap[fh'[g][i]] # Freed /\ HASH(heap[fh'[g][i]].f_id) = g
                    /\ \A j \in 1 .. Len(fh'[g]) : fh'[g][i] = fh'[g][j] => i = j
      BY DEF Placed, At
    <2> QED BY <1>3, <1>5, <2>1, <2>2, <2>3
  <1>9. ASSUME NEW o \in Obj PROVE IsListed(o)' <=> IsListed(o) /\ o # fp
    <2>1. IsListed(o)' <=> \E g \in Lists : \E i \in 1 .. Len(fh'[g]) : fh'[g][i] = o
      BY DEF IsListed, At
    <2>2. (\E i \in 1 .. Len(m) : m[i] = o) <=> (\E i \in 1 .. Len(l) : l[i] = o) /\ o # fp
      <3> HIDE DEF l
      <3>1. \A j \in 1 .. Len(m) : j \in 1 .. Len(l) /\ j + 1 \in 1 .. Len(l) /\ j \in 1 .. Len(l) - 1
        BY <1>4
      <3>2. ASSUME NEW i \in 1 .. Len(l), l[i] = o, o # fp PROVE \E j \in 1 .. Len(m) : m[j] = o
        <4>1. CASE i < k
          <5>1. i \in 1 .. Len(m) /\ m[i] = l[i]
            BY <1>4, <1>7, <4>1
          <5> QED BY <3>2, <5>1
        <4>2. CASE i > k
          <5>1. i - 1 \in 1 .. Len(m) /\ ~(i - 1 < k) /\ (i - 1) + 1 = i
            BY <1>4, <1>7, <4>2
          <5>2. m[i - 1] = l[i]
            BY <1>4, <5>1
          <5> QED BY <3>2, <5>1, <5>2
        <4>3. i # k
          BY <1>7, <3>2
        <4> QED BY <1>7, <4>1, <4>2, <4>3
      <3> QED BY <1>4, <1>6, <1>7, <3>1, <3>2
    <2>3. \A g \in Lists : \A i \in 1 .. Len(fh[g]) : fh[g][i] = fp => g = h
      BY DEF FInv, Placed, At
    <2> QED BY <1>3, <1>5, <2>1, <2>2, <2>3 DEF IsListed, At
  <1>10. Referred'
    BY <1>2, <1>9 DEF FInv, Referred, CountIsRefs
  <1>11. Kept
    BY <1>1 DEF Kept, RefsTo
  <1> QED BY <1>1, <1>2, <1>5, <1>8, <1>10, <1>11

-----------------------------------------------------------------------------
(* The calls.                                                                 *)

\* Who works alone with an object nobody refers to.
LEMMA Working ==
  ASSUME FInv, NEW u \in Thread
  PROVE  /\ thr[u].pc \in {"insert", "free"} =>
              thr[u].fp \in Obj /\ RefsTo(thr[u].fp) = {} /\ heap[thr[u].fp] # Freed
         /\ NULL \notin Obj \cup Thread => (thr[u].pc \in {"insert", "free"} => thr[u].fp # NULL)
         /\ \A r \in refs : r.fp \in Obj /\ RefsTo(r.fp) # {} /\ heap[r.fp] # Freed
  BY ZenonT(60) DEF FInv, Busy, InCall, Referred, CountIsRefs, RefsTo, TypeOK, Ref

\* A step that leaves to t at most an object somebody refers to.
LEMMA KeptStep ==
  ASSUME ConstantsAssumption, FInv, NEW t \in Thread, Kept,
         \A u \in Thread \ {t} : thr'[u] = thr[u],
         \A r \in refs : r.by # t => r \in refs',
         hashlock' = hashlock \/ hashlock \in {t, NULL},
         fh' = fh,
         thr'[t].pc \notin {"insert", "free"},
         thr'[t].fp = NULL \/ RefsTo(thr'[t].fp) # {},
         TypeOK', Placed', Referred', InCall(t)'
  PROVE  FInv'
  <1>1. \A o \in Obj : RefsTo(o) # {} => heap'[o] # Freed /\ heap'[o].f_id = heap[o].f_id
    BY DEF Kept
  <1>2. ASSUME NEW u \in Thread \ {t}, thr[u].pc \in {"insert", "free"}
        PROVE  /\ heap'[thr[u].fp] = heap[thr[u].fp] /\ \A r \in refs' : r.fp # thr[u].fp
               /\ thr[u].fp # thr'[t].fp
    <2>1. thr[u].fp \in Obj /\ RefsTo(thr[u].fp) = {}
      BY <1>2, Working
    <2> QED BY <2>1 DEF Kept, ConstantsAssumption
  <1> QED BY <1>1, <1>2, Others

LEMMA MallocStep == ASSUME ConstantsAssumption, FInv, NEW t \in Thread, Malloc(t) PROVE FInv'
  <1>1. PICK fp \in Obj, id \in Ids :
          /\ thr[t] = Idle /\ heap[fp] = Freed
          /\ heap' = [heap EXCEPT ![fp] = [f_count |-> 1, f_id |-> id]]
          /\ thr' = [thr EXCEPT ![t] = [pc |-> "insert", fp |-> fp, ref |-> NULL]]
          /\ UNCHANGED <<fh, refs, hashlock, f_lock>>
    BY DEF Malloc, Does
  <1>2. RefsTo(fp) = {} /\ RefsTo(fp)' = {} /\ \A o : RefsTo(o)' = RefsTo(o)
    BY <1>1 DEF FInv, Referred, CountIsRefs, RefsTo
  <1>3. /\ Placed' /\ Referred'
        /\ \A o \in Obj : RefsTo(o) # {} => heap'[o] # Freed /\ heap'[o].f_id = heap[o].f_id
    BY <1>1, <1>2, Unreferred
  <1>4. TypeOK'
    BY <1>1 DEF FInv, TypeOK, Foo
  <1>5. /\ thr'[t] = [pc |-> "insert", fp |-> fp, ref |-> NULL]
        /\ \A u \in Thread \ {t} : thr'[u] = thr[u]
        /\ heap'[fp] = [f_count |-> 1, f_id |-> id]
    BY <1>1 DEF FInv, TypeOK
  <1>6. heap'[fp] # Freed
    BY <1>5 DEF ConstantsAssumption
  <1>7. InCall(t)'
    BY <1>2, <1>5, <1>6 DEF InCall
  <1>8. \A u \in Thread : thr[u].fp # fp
    <2>1. ASSUME NEW u \in Thread, thr[u].fp = fp PROVE FALSE
      <3>1. thr[u].pc # "idle"
        BY <1>1, <2>1 DEF FInv, Busy, InCall, Idle, ConstantsAssumption
      <3>2. thr[u].pc \notin {"insert", "free", "find"}
        BY <1>1, <2>1 DEF FInv, Busy, InCall
      <3>3. thr[u].pc \notin {"init", "last", "recheck"}
        BY <1>2, <2>1 DEF FInv, Busy, InCall, Has, RefsTo
      <3> QED BY <3>1, <3>2, <3>3 DEF FInv, TypeOK
    <2> QED BY <2>1
  <1>9. \A u \in Thread \ {t} : thr[u].pc \in {"insert", "free"} =>
          heap'[thr[u].fp] = heap[thr[u].fp] /\ \A r \in refs' : r.fp # thr[u].fp
    BY <1>1, <1>8, Working DEF FInv, TypeOK, RefsTo
  <1> QED BY <1>1, <1>3, <1>4, <1>5, <1>7, <1>8, <1>9, Others

LEMMA InsertStep == ASSUME ConstantsAssumption, FInv, NEW t \in Thread, Insert(t) PROVE FInv'
  <1>1. PICK fp \in Obj : fp = thr[t].fp
    BY DEF Insert, FInv, Busy, InCall
  <1>2. PICK h : h = HASH(heap[fp].f_id)
    OBVIOUS
  <1>3. PICK r : /\ r \in Ref /\ r.by = t /\ r.fp = fp /\ r \notin refs /\ refs' = refs \cup {r}
    BY <1>1, SMTT(60) DEF Insert, Refers, Ref
  <1>4. /\ thr[t].pc = "insert" /\ hashlock = NULL /\ hashlock' = NULL /\ heap' = heap
        /\ fh' = [fh EXCEPT ![h] = <<fp>> \o @] /\ f_lock' = [f_lock EXCEPT ![fp] = t]
        /\ thr' = [thr EXCEPT ![t] = [pc |-> "init", fp |-> fp, ref |-> NULL]]
    BY <1>1, <1>2 DEF Insert, Does
  <1>5. heap[fp] # Freed /\ heap[fp].f_count = 1 /\ RefsTo(fp) = {}
    BY <1>1, <1>4 DEF FInv, Busy, InCall
  <1>6. /\ fh' \in [Lists -> Seq(Obj)] /\ Placed' /\ Referred'
        /\ \A o \in Obj : RefsTo(o) # {} => heap'[o] # Freed /\ heap'[o].f_id = heap[o].f_id
        /\ \A o \in Obj : RefsTo(o) = {} /\ o # fp => \A s \in refs' : s.fp # o
    BY <1>2, <1>3, <1>4, <1>5, Link
  <1>7. TypeOK'
    BY <1>3, <1>4, <1>6 DEF FInv, TypeOK, Lists
  <1>8. /\ thr'[t] = [pc |-> "init", fp |-> fp, ref |-> NULL]
        /\ \A u \in Thread \ {t} : thr'[u] = thr[u]
    BY <1>4 DEF FInv, TypeOK
  <1>9. InCall(t)'
    BY <1>3, <1>8 DEF InCall, Has
  <1>10. \A u \in Thread \ {t} : thr[u].pc \in {"insert", "free"} => thr[u].fp # fp
    BY <1>1, <1>4 DEF FInv, Apart
  <1>11. \A u \in Thread \ {t} : thr[u].pc \in {"insert", "free"} =>
          heap'[thr[u].fp] = heap[thr[u].fp] /\ \A s \in refs' : s.fp # thr[u].fp
    BY <1>4, <1>6, <1>10, Working
  <1>12. hashlock \notin Thread /\ \A s \in refs : s.by # t => s \in refs'
    BY <1>3, <1>4 DEF ConstantsAssumption
  <1> QED BY <1>4, <1>6, <1>7, <1>8, <1>9, <1>10, <1>11, <1>12, Others

LEMMA InitializedStep ==
  ASSUME ConstantsAssumption, FInv, NEW t \in Thread, Initialized(t) PROVE FInv'
  <1>1. /\ thr'[t] = Idle /\ \A u \in Thread \ {t} : thr'[u] = thr[u]
        /\ UNCHANGED <<heap, fh, refs, hashlock>>
    BY DEF Initialized, Returns, FInv, TypeOK
  <1>2. TypeOK'
    BY DEF Initialized, Returns, Idle, FInv, TypeOK
  <1>3. Placed' /\ Referred' /\ Kept
    BY <1>1, Waits
  <1>4. InCall(t)'
    BY <1>1 DEF InCall, Idle
  <1> QED BY <1>1, <1>2, <1>3, <1>4, KeptStep DEF Idle

LEMMA HoldStep == ASSUME ConstantsAssumption, FInv, NEW t \in Thread, foo_hold(t) PROVE FInv'
  <1>1. PICK q \in refs : /\ thr[t] = Idle /\ q.by = t /\ Refers(t, q.fp) /\ heap' = Counted(q.fp, 1)
                          /\ UNCHANGED <<fh, thr, hashlock, f_lock>>
    BY DEF foo_hold
  <1>2. PICK fp \in Obj : fp = q.fp /\ RefsTo(fp) # {}
    BY Working
  <1>3. PICK r : r \in Ref /\ r.by = t /\ r.fp = fp /\ r \notin refs /\ refs' = refs \cup {r}
    BY <1>1, <1>2 DEF Refers, Ref
  <1>4. heap' \in [Obj -> Foo \cup {Freed}] /\ Placed' /\ Referred' /\ Kept
    BY <1>1, <1>2, <1>3, NewRef
  <1>5. TypeOK'
    BY <1>1, <1>3, <1>4 DEF FInv, TypeOK
  <1>6. InCall(t)'
    BY <1>1 DEF InCall, Idle
  <1>7. \A s \in refs : s.by # t => s \in refs'
    BY <1>3
  <1> QED BY <1>1, <1>4, <1>5, <1>6, <1>7, KeptStep DEF Idle

LEMMA FindStep == ASSUME ConstantsAssumption, FInv, NEW t \in Thread, Find(t) PROVE FInv'
  <1>1. PICK id \in Ids, fp \in Obj :
          /\ Finds(id, fp) /\ hashlock = NULL /\ hashlock' = t
          /\ thr' = [thr EXCEPT ![t] = [pc |-> "find", fp |-> fp, ref |-> NULL]]
          /\ UNCHANGED <<heap, fh, refs, f_lock>>
    BY DEF Find, Does, FindLocks
  <1>2. HASH(id) \in Lists
    BY DEF HASH, Lists, ConstantsAssumption
  <1>3. heap[fp] # Freed /\ id = heap[fp].f_id
    BY <1>1, <1>2, InList DEF Finds, At
  <1>4. RefsTo(fp) # {}
    BY <1>1, <1>3, FoundIsReferred
  <1>5. TypeOK'
    BY <1>1 DEF FInv, TypeOK
  <1>6. Placed' /\ Referred' /\ Kept
    BY <1>1, Waits
  <1>7. /\ thr'[t] = [pc |-> "find", fp |-> fp, ref |-> NULL]
        /\ \A u \in Thread \ {t} : thr'[u] = thr[u]
    BY <1>1 DEF FInv, TypeOK
  <1>8. Finds(id, fp)'
    BY <1>1 DEF Finds
  <1>9. InCall(t)'
    BY <1>1, <1>3, <1>7, <1>8 DEF InCall
  <1> QED BY <1>1, <1>4, <1>5, <1>6, <1>7, <1>9, KeptStep

LEMMA FindHoldStep == ASSUME ConstantsAssumption, FInv, NEW t \in Thread, FindHold(t) PROVE FInv'
  <1>1. PICK fp \in Obj : /\ fp = thr[t].fp /\ heap[fp] # Freed /\ hashlock = t
                         /\ Finds(heap[fp].f_id, fp)
    BY DEF FindHold, FInv, Busy, InCall
  <1>2. /\ Refers(t, fp) /\ heap' = Counted(fp, 1) /\ hashlock' = NULL /\ UNCHANGED <<fh, f_lock>>
        /\ thr' = [thr EXCEPT ![t] = Idle]
    BY <1>1 DEF FindHold, Returns
  <1>3. RefsTo(fp) # {}
    BY <1>1, FoundIsReferred
  <1>4. PICK r : r \in Ref /\ r.by = t /\ r.fp = fp /\ r \notin refs /\ refs' = refs \cup {r}
    BY <1>2 DEF Refers, Ref
  <1>5. heap' \in [Obj -> Foo \cup {Freed}] /\ Placed' /\ Referred' /\ Kept
    BY <1>2, <1>3, <1>4, NewRef
  <1>6. TypeOK'
    BY <1>2, <1>4, <1>5 DEF FInv, TypeOK, Idle
  <1>7. thr'[t] = Idle /\ \A u \in Thread \ {t} : thr'[u] = thr[u]
    BY <1>2 DEF FInv, TypeOK
  <1>8. InCall(t)'
    BY <1>7 DEF InCall, Idle
  <1>9. \A s \in refs : s.by # t => s \in refs'
    BY <1>4
  <1> QED BY <1>1, <1>2, <1>5, <1>6, <1>7, <1>8, <1>9, KeptStep DEF Idle

LEMMA ReleStep == ASSUME ConstantsAssumption, FInv, NEW t \in Thread, Rele(t) PROVE FInv'
  <1>1. PICK r \in refs : /\ thr[t] = Idle /\ r.by = t /\ heap[r.fp].f_count # 1
                          /\ heap' = Counted(r.fp, -1) /\ refs' = refs \ {r}
                          /\ UNCHANGED <<fh, thr, hashlock, f_lock>>
    BY DEF Rele, NotLast
  <1>2. PICK fp \in Obj : fp = r.fp
    BY Working
  <1>3. heap' \in [Obj -> Foo \cup {Freed}] /\ Placed' /\ Referred' /\ Kept
    BY <1>1, <1>2, NoRef
  <1>4. TypeOK'
    BY <1>1, <1>3 DEF FInv, TypeOK
  <1>5. InCall(t)'
    BY <1>1 DEF InCall, Idle
  <1>6. \A s \in refs : s.by # t => s \in refs'
    BY <1>1
  <1> QED BY <1>1, <1>3, <1>4, <1>5, <1>6, KeptStep DEF Idle

LEMMA ReleLastStep == ASSUME ConstantsAssumption, FInv, NEW t \in Thread, ReleLast(t) PROVE FInv'
  <1>1. PICK r \in refs : /\ r.by = t
                          /\ thr' = [thr EXCEPT ![t] = [pc |-> "last", fp |-> r.fp, ref |-> r]]
                          /\ UNCHANGED <<heap, fh, refs, hashlock, f_lock>>
    BY DEF ReleLast
  <1>2. r.fp \in Obj /\ RefsTo(r.fp) # {} /\ r \in Ref
    BY Working DEF FInv, TypeOK
  <1>3. TypeOK'
    BY <1>1, <1>2 DEF FInv, TypeOK
  <1>4. Placed' /\ Referred' /\ Kept
    BY <1>1, Waits
  <1>5. /\ thr'[t] = [pc |-> "last", fp |-> r.fp, ref |-> r]
        /\ \A u \in Thread \ {t} : thr'[u] = thr[u]
    BY <1>1 DEF FInv, TypeOK
  <1>6. InCall(t)'
    BY <1>1, <1>2, <1>5 DEF InCall
  <1> QED BY <1>1, <1>2, <1>3, <1>4, <1>5, <1>6, KeptStep

LEMMA ReleHashlockStep ==
  ASSUME ConstantsAssumption, FInv, NEW t \in Thread, ReleHashlock(t) PROVE FInv'
  <1>1. /\ thr[t].pc = "last" /\ hashlock = NULL /\ hashlock' = t
        /\ thr' = [thr EXCEPT ![t].pc = "recheck"] /\ UNCHANGED <<heap, fh, refs, f_lock>>
    BY DEF ReleHashlock
  <1>2. /\ thr[t].ref \in refs /\ thr[t].ref.by = t /\ thr[t].ref.fp = thr[t].fp /\ thr[t].fp \in Obj
    BY <1>1 DEF FInv, Busy, InCall
  <1>3. TypeOK'
    BY <1>1, ZenonT(60) DEF FInv, TypeOK
  <1>4. Placed' /\ Referred' /\ Kept
    BY <1>1, Waits
  <1>5. /\ thr'[t].pc = "recheck" /\ thr'[t].fp = thr[t].fp /\ thr'[t].ref = thr[t].ref
        /\ \A u \in Thread \ {t} : thr'[u] = thr[u]
    BY <1>1 DEF FInv, TypeOK
  <1>6. InCall(t)'
    BY <1>1, <1>2, <1>5 DEF InCall
  <1>7. RefsTo(thr[t].fp) # {}
    BY <1>2 DEF RefsTo
  <1> QED BY <1>1, <1>3, <1>4, <1>5, <1>6, <1>7, KeptStep

LEMMA ReleKeepStep == ASSUME ConstantsAssumption, FInv, NEW t \in Thread, ReleKeep(t) PROVE FInv'
  <1>1. PICK fp \in Obj, r \in refs :
          /\ fp = thr[t].fp /\ r = thr[t].ref /\ r.by = t /\ r.fp = fp /\ hashlock = t
    BY DEF ReleKeep, FInv, Busy, InCall
  <1>2. /\ heap[fp].f_count # 1 /\ heap' = Counted(fp, -1) /\ refs' = refs \ {r}
        /\ hashlock' = NULL /\ thr' = [thr EXCEPT ![t] = Idle] /\ UNCHANGED <<fh, f_lock>>
    BY <1>1 DEF ReleKeep, StillLast, KeptCount, Returns
  <1>3. heap' \in [Obj -> Foo \cup {Freed}] /\ Placed' /\ Referred' /\ Kept
    BY <1>1, <1>2, NoRef
  <1>4. TypeOK'
    BY <1>2, <1>3 DEF FInv, TypeOK, Idle
  <1>5. thr'[t] = Idle /\ \A u \in Thread \ {t} : thr'[u] = thr[u]
    BY <1>2 DEF FInv, TypeOK
  <1>6. InCall(t)'
    BY <1>5 DEF InCall, Idle
  <1>7. \A s \in refs : s.by # t => s \in refs'
    BY <1>1, <1>2
  <1> QED BY <1>1, <1>2, <1>3, <1>4, <1>5, <1>6, <1>7, KeptStep DEF Idle

LEMMA ReleUnlinkStep ==
  ASSUME ConstantsAssumption, FInv, NEW t \in Thread, ReleUnlink(t) PROVE FInv'
  <1>1. PICK fp \in Obj, r \in refs :
          /\ fp = thr[t].fp /\ r = thr[t].ref /\ r.by = t /\ r.fp = fp /\ hashlock = t
    BY DEF ReleUnlink, FInv, Busy, InCall
  <1>2. PICK h : h = HASH(heap[fp].f_id)
    OBVIOUS
  <1>3. /\ heap[fp].f_count = 1 /\ heap' = heap /\ refs' = refs \ {r} /\ hashlock' = NULL
        /\ fh' = [fh EXCEPT ![h] = Without(@, fp)] /\ f_lock' = [f_lock EXCEPT ![fp] = t]
        /\ thr' = [thr EXCEPT ![t] = [pc |-> "free", fp |-> fp, ref |-> NULL]]
    BY <1>1, <1>2 DEF ReleUnlink, StillLast, Does
  <1>4. /\ fh' \in [Lists -> Seq(Obj)] /\ Placed' /\ Referred' /\ Kept
        /\ RefsTo(fp)' = {} /\ heap[fp] # Freed
    BY <1>1, <1>2, <1>3, Unlink
  <1>5. TypeOK'
    BY <1>3, <1>4 DEF FInv, TypeOK, Lists
  <1>6. /\ thr'[t] = [pc |-> "free", fp |-> fp, ref |-> NULL]
        /\ \A u \in Thread \ {t} : thr'[u] = thr[u]
    BY <1>3 DEF FInv, TypeOK
  <1>7. InCall(t)'
    BY <1>3, <1>4, <1>6 DEF InCall
  <1>8. ASSUME NEW u \in Thread \ {t}, thr[u].fp = fp PROVE FALSE
    <2>1. thr[u].pc \notin {"idle", "insert", "free", "find"}
      BY <1>1, <1>8 DEF FInv, Busy, InCall, Idle, ConstantsAssumption, RefsTo
    <2>2. PICK s \in refs : s.by = u /\ s.fp = fp
      BY <1>8, <2>1 DEF FInv, TypeOK, Busy, InCall, Has
    <2>3. IsFiniteSet(refs) /\ Cardinality(RefsTo(fp)) = 1
      BY <1>1, <1>3 DEF FInv, Referred, CountIsRefs, RefsTo
    <2> QED BY <1>1, <2>2, <2>3, OnlyRef
  <1>9. \A s \in refs : s.by # t => s \in refs'
    BY <1>1, <1>3
  <1>10. ASSUME NEW u \in Thread \ {t}, thr[u].pc \in {"insert", "free"}
         PROVE  heap'[thr[u].fp] = heap[thr[u].fp] /\ \A s \in refs' : s.fp # thr[u].fp
    BY <1>4, <1>10, Working DEF Kept
  <1>11. \A o \in Obj : RefsTo(o) # {} => heap'[o] # Freed /\ heap'[o].f_id = heap[o].f_id
    BY <1>4 DEF Kept
  <1>12. hashlock \notin Thread \ {t} /\ hashlock \in {t, NULL}
    BY <1>1
  <1>13. \A u \in Thread \ {t} : thr[u].fp # thr'[t].fp
    BY <1>6, <1>8
  <1> QED BY <1>4, <1>5, <1>6, <1>7, <1>9, <1>10, <1>11, <1>12, <1>13, Others

LEMMA FreeStep == ASSUME ConstantsAssumption, FInv, NEW t \in Thread, Free(t) PROVE FInv'
  <1>1. PICK fp \in Obj : fp = thr[t].fp /\ RefsTo(fp) = {}
    BY DEF Free, FInv, Busy, InCall
  <1>2. /\ thr[t].pc = "free" /\ heap' = [heap EXCEPT ![fp] = Freed]
        /\ f_lock' = [f_lock EXCEPT ![fp] = NULL] /\ thr' = [thr EXCEPT ![t] = Idle]
        /\ UNCHANGED <<fh, refs, hashlock>>
    BY <1>1 DEF Free, Returns
  <1>3. /\ Placed' /\ Referred'
        /\ \A o \in Obj : RefsTo(o) # {} => heap'[o] # Freed /\ heap'[o].f_id = heap[o].f_id
    BY <1>1, <1>2, Unreferred
  <1>4. TypeOK'
    BY <1>2 DEF FInv, TypeOK, Idle
  <1>5. thr'[t] = Idle /\ \A u \in Thread \ {t} : thr'[u] = thr[u]
    BY <1>2 DEF FInv, TypeOK
  <1>6. InCall(t)'
    BY <1>5 DEF InCall, Idle
  <1>7. ASSUME NEW u \in Thread \ {t}, thr[u].pc \in {"insert", "free"}
        PROVE  /\ heap'[thr[u].fp] = heap[thr[u].fp] /\ (\A r \in refs' : r.fp # thr[u].fp)
               /\ thr[u].fp # thr'[t].fp
    <2>1. thr[u].fp \in Obj /\ RefsTo(thr[u].fp) = {} /\ thr[u].fp # fp
      BY <1>1, <1>2, <1>7, Working DEF FInv, Apart
    <2> QED BY <1>2, <1>5, <2>1 DEF RefsTo, Idle, ConstantsAssumption, FInv, TypeOK
  <1>8. thr'[t].pc \notin {"insert", "free"} /\ refs' = refs /\ hashlock' = hashlock /\ fh' = fh
    BY <1>2, <1>5 DEF Idle
  <1> QED BY <1>3, <1>4, <1>5, <1>6, <1>7, <1>8, Others

-----------------------------------------------------------------------------
(* What FooTable sees.                                                        *)

\* What FooTable sees of the heap and the threads, after a step of t.
LEMMA Seen ==
  ASSUME NEW t \in Thread, \A u \in Thread \ {t} : thr'[u] = thr[u]
  PROVE  /\ thr'[t].pc \notin {"insert", "free"} => TableThr' = [TableThr EXCEPT ![t] = Table!Idle]
         /\ thr'[t].pc \in {"insert", "free"} =>
               TableThr' = [TableThr EXCEPT ![t] = [pc |-> thr'[t].pc, fp |-> thr'[t].fp]]
         /\ \A o : Unlinking(o)' <=> \/ thr'[t].pc = "free" /\ thr'[t].fp = o
                                   \/ \E u \in Thread \ {t} : thr[u].pc = "free" /\ thr[u].fp = o
         /\ thr[t].pc # "free" /\ thr'[t].pc # "free" => \A o : Unlinking(o)' <=> Unlinking(o)
  <1>1. /\ thr'[t].pc \notin {"insert", "free"} => TableThr' = [TableThr EXCEPT ![t] = Table!Idle]
        /\ thr'[t].pc \in {"insert", "free"} =>
              TableThr' = [TableThr EXCEPT ![t] = [pc |-> thr'[t].pc, fp |-> thr'[t].fp]]
    BY DEF TableThr, Table!Idle
  <1>2. \A o : Unlinking(o)' <=> \/ thr'[t].pc = "free" /\ thr'[t].fp = o
                              \/ \E u \in Thread \ {t} : thr[u].pc = "free" /\ thr[u].fp = o
    BY DEF Unlinking
  <1>3. thr[t].pc # "free" => \A o : Unlinking(o)
                   <=> \E u \in Thread \ {t} : thr[u].pc = "free" /\ thr[u].fp = o
    BY DEF Unlinking
  <1> QED BY <1>1, <1>2, <1>3

LEMMA SeenBefore ==
  ASSUME FInv
  PROVE  /\ \A o \in Obj : ~Unlinking(o) => TableHeap[o] = heap[o]
         /\ \A o \in Obj : RefsTo(o) # {} => ~Unlinking(o)
         /\ \A o \in Obj : heap[o] = Freed => ~Unlinking(o)
         /\ \A t \in Thread : thr[t].pc \notin {"insert", "free"} => TableThr[t] = Table!Idle
         /\ \A t \in Thread : thr[t].pc \in {"insert", "free"} =>
               TableThr[t].pc = thr[t].pc /\ TableThr[t].fp = thr[t].fp
  <1>1. \A o \in Obj : (RefsTo(o) # {} => ~Unlinking(o)) /\ (heap[o] = Freed => ~Unlinking(o))
    BY Working DEF Unlinking
  <1>2. \A o \in Obj : ~Unlinking(o) => TableHeap[o] = heap[o]
    BY DEF TableHeap
  <1>3. /\ \A t \in Thread : thr[t].pc \notin {"insert", "free"} => TableThr[t] = Table!Idle
        /\ \A t \in Thread : thr[t].pc \in {"insert", "free"} =>
               TableThr[t].pc = thr[t].pc /\ TableThr[t].fp = thr[t].fp
    BY DEF TableThr, Table!Idle
  <1> QED BY <1>1, <1>2, <1>3

\* A count of an object that somebody refers to changes for both.
LEMMA SeenCount ==
  ASSUME FInv, NEW fp \in Obj, RefsTo(fp) # {}, NEW n, heap' = Counted(fp, n),
         \A o : Unlinking(o)' <=> Unlinking(o)
  PROVE  TableHeap' = Table!Counted(fp, n)
  <1>1. heap \in [Obj -> Foo \cup {Freed}] /\ ~Unlinking(fp) /\ TableHeap[fp] = heap[fp]
    BY SeenBefore DEF FInv, TypeOK
  <1>2. /\ heap'[fp] = [heap[fp] EXCEPT !.f_count = @ + n]
        /\ \A o \in Obj \ {fp} : heap'[o] = heap[o]
    BY <1>1 DEF Counted
  <1>3. TableHeap' = [TableHeap EXCEPT ![fp] = [heap[fp] EXCEPT !.f_count = @ + n]]
    BY <1>1, <1>2 DEF TableHeap
  <1> QED BY <1>1, <1>3 DEF Table!Counted

-----------------------------------------------------------------------------
LEMMA InitFInv == ASSUME ConstantsAssumption, Init PROVE FInv
  <1>1. TypeOK
    BY DEF Init, TypeOK, Idle
  <1>2. Placed /\ \A fp : ~IsListed(fp)
    BY DEF Init, Placed, IsListed, At, Lists
  <1>3. Referred
    BY <1>2, FS_EmptySet DEF Init, Referred, CountIsRefs, RefsTo
  <1>4. Busy /\ Apart
    BY DEF Init, Busy, InCall, Apart, Idle
  <1> QED BY <1>1, <1>2, <1>3, <1>4 DEF FInv

(* The invariant: what every thread works with has a reference, or belongs to *)
(* that thread alone, at every point where mutex2.c waits for a mutex.        *)
THEOREM TableCorrect == ConstantsAssumption => (Spec => []FInv)
  <1> SUFFICES ASSUME ConstantsAssumption PROVE Spec => []FInv
    OBVIOUS
  <1>1. Init => FInv
    BY InitFInv
  <1>2. FInv /\ [Next]_vars => FInv'
    <2> SUFFICES ASSUME FInv, [Next]_vars PROVE FInv'
      OBVIOUS
    <2>1. ASSUME NEW t \in Thread, Malloc(t) \/ Insert(t) \/ Initialized(t) \/ foo_hold(t) \/ Find(t)
                                   \/ FindHold(t)
          PROVE  FInv'
      BY <2>1, MallocStep, InsertStep, InitializedStep, HoldStep, FindStep, FindHoldStep
    <2>2. ASSUME NEW t \in Thread, Rele(t) \/ ReleLast(t) \/ ReleHashlock(t) \/ ReleKeep(t)
                                   \/ ReleUnlink(t) \/ Free(t)
          PROVE  FInv'
      BY <2>2, ReleStep, ReleLastStep, ReleHashlockStep, ReleKeepStep, ReleUnlinkStep, FreeStep
    <2>3. CASE UNCHANGED vars
      <3>1. Placed' /\ Referred' /\ TypeOK'
        BY <2>3, Waits, SMTT(60) DEF vars, FInv, TypeOK
      <3>2. Busy' /\ Apart'
        BY <2>3 DEF vars, FInv, Busy, InCall, Has, RefsTo, Finds, Apart
      <3> QED BY <3>1, <3>2 DEF FInv
    <2> QED BY <2>1, <2>2, <2>3 DEF Next
  <1> QED BY <1>1, <1>2, PTL DEF Spec

(* f_count is the number of references, no freed object is referred to or     *)
(* waited for, and an object is on the table exactly as long as somebody      *)
(* refers to it (mutex2.c:35-37, 48, 75-101).                                 *)
THEOREM ReferencesAreSound == ConstantsAssumption => (Spec => []ReferencesSound)
  <1> SUFFICES ASSUME ConstantsAssumption PROVE Spec => []ReferencesSound
    OBVIOUS
  <1>1. FInv => ReferencesSound
    <2> SUFFICES ASSUME FInv PROVE ReferencesSound
      OBVIOUS
    <2>1. CountIsRefs
      BY DEF FInv, Referred
    <2>2. NoUseAfterFree
      <3>1. \A r \in refs : heap[r.fp] # Freed
        BY Working DEF FInv, TypeOK, Referred, CountIsRefs, RefsTo, Ref
      <3>2. ASSUME NEW t \in Thread, thr[t].pc \in {"init", "last", "recheck"}
            PROVE  heap[thr[t].fp] # Freed
        BY <3>1, <3>2 DEF FInv, Busy, InCall, Has
      <3>3. ASSUME NEW t \in Thread, thr[t].pc = "find" PROVE heap[thr[t].fp] # Freed
        BY <3>3 DEF FInv, Busy, InCall
      <3> QED BY <3>1, <3>2, <3>3 DEF NoUseAfterFree
    <2>3. ASSUME NEW fp \in Obj
          PROVE  /\ Table!Listed(fp) <=> RefsTo(fp) # {}
                 /\ RefsTo(fp) # {} => /\ TableHeap[fp] # Freed
                                       /\ TableHeap[fp].f_count = Cardinality(Table!RefsTo(fp))
      <3>1. Table!Listed(fp) <=> IsListed(fp)
        BY DEF Table!Listed, IsListed, At, FInv, TypeOK, Lists
      <3>2. Table!RefsTo(fp) = RefsTo(fp)
        BY DEF Table!RefsTo, RefsTo
      <3>3. RefsTo(fp) # {} => TableHeap[fp] = heap[fp]
        BY SeenBefore
      <3> QED BY <2>1, <3>1, <3>2, <3>3 DEF FInv, Referred, CountIsRefs
    <2>4. ListedWhileReferenced
      <3>1. \A fp \in Obj : Table!RefsTo(fp) = RefsTo(fp)
        BY DEF Table!RefsTo, RefsTo
      <3>2. \A S : Table!Cardinality(S) = Cardinality(S)
        BY DEF Cardinality, Table!Cardinality
      <3> QED BY <2>3, <3>1, <3>2 DEF ListedWhileReferenced, Table!ListedWhileReferenced
    <2> QED BY <2>1, <2>2, <2>4 DEF ReferencesSound
  <1> QED BY <1>1, TableCorrect, PTL

-----------------------------------------------------------------------------
(* Every call takes effect at once: at the step that counts, or when its      *)
(* object comes or goes; the other steps wait.                                *)

LEMMA Waiting ==
  ASSUME FInv, NEW t \in Thread, Initialized(t) \/ Find(t) \/ ReleLast(t) \/ ReleHashlock(t)
  PROVE  UNCHANGED Table!vars
  <1>1. /\ thr[t].pc \notin {"insert", "free"} /\ UNCHANGED <<heap, fh, refs>>
        /\ thr'[t].pc \notin {"insert", "free"} /\ \A u \in Thread \ {t} : thr'[u] = thr[u]
    <2>1. CASE Initialized(t)
      BY <2>1 DEF Initialized, Returns, Idle, FInv, TypeOK
    <2>2. CASE Find(t)
      BY <2>2 DEF Find, Does, Idle, FInv, TypeOK
    <2>3. CASE ReleLast(t)
      BY <2>3 DEF ReleLast, Idle, FInv, TypeOK
    <2>4. CASE ReleHashlock(t)
      BY <2>4 DEF ReleHashlock, FInv, TypeOK
    <2> QED BY <2>1, <2>2, <2>3, <2>4
  <1>2. (\A o : Unlinking(o)' <=> Unlinking(o)) /\ TableThr' = [TableThr EXCEPT ![t] = Table!Idle]
    BY <1>1, Seen
  <1>3. TableHeap' = TableHeap
    BY <1>1, <1>2 DEF TableHeap
  <1>4. TableThr' = TableThr
    BY <1>1, <1>2, SeenBefore DEF TableThr
  <1> QED BY <1>1, <1>3, <1>4 DEF Table!vars

LEMMA MallocSeen == ASSUME ConstantsAssumption, FInv, NEW t \in Thread, Malloc(t) PROVE Table!Malloc(t)
  <1>1. PICK fp \in Obj, id \in Ids :
          /\ thr[t] = Idle /\ heap[fp] = Freed
          /\ heap' = [heap EXCEPT ![fp] = [f_count |-> 1, f_id |-> id]]
          /\ thr' = [thr EXCEPT ![t] = [pc |-> "insert", fp |-> fp, ref |-> NULL]]
          /\ UNCHANGED <<fh, refs>>
    BY DEF Malloc, Does
  <1>2. /\ TableThr' = [TableThr EXCEPT ![t] = [pc |-> "insert", fp |-> fp]]
        /\ \A o : Unlinking(o)' <=> Unlinking(o)
    <2>1. thr'[t] = [pc |-> "insert", fp |-> fp, ref |-> NULL] /\ \A u \in Thread \ {t} : thr'[u] = thr[u]
      BY <1>1 DEF FInv, TypeOK
    <2> QED BY <1>1, <2>1, Seen DEF Idle
  <1>3. ~Unlinking(fp) /\ TableHeap[fp] = Freed /\ TableThr[t] = Table!Idle
    BY <1>1, SeenBefore DEF Idle
  <1>4. TableHeap' = [TableHeap EXCEPT ![fp] = [f_count |-> 1, f_id |-> id]]
    BY <1>1, <1>2, <1>3 DEF TableHeap, FInv, TypeOK
  <1> QED BY <1>1, <1>2, <1>3, <1>4 DEF Table!Malloc, Table!Does

LEMMA InsertSeen == ASSUME ConstantsAssumption, FInv, NEW t \in Thread, Insert(t) PROVE Table!Insert(t)
  <1>1. PICK fp \in Obj : fp = thr[t].fp
    BY DEF Insert, FInv, Busy, InCall
  <1>2. /\ thr[t].pc = "insert" /\ heap' = heap /\ Refers(t, fp)
        /\ fh' = [fh EXCEPT ![HASH(heap[fp].f_id)] = <<fp>> \o @]
        /\ thr' = [thr EXCEPT ![t] = [pc |-> "init", fp |-> fp, ref |-> NULL]]
    BY <1>1 DEF Insert, Does
  <1>3. /\ TableThr' = [TableThr EXCEPT ![t] = Table!Idle]
        /\ \A o : Unlinking(o)' <=> Unlinking(o)
    <2>1. thr'[t] = [pc |-> "init", fp |-> fp, ref |-> NULL] /\ \A u \in Thread \ {t} : thr'[u] = thr[u]
      BY <1>2 DEF FInv, TypeOK
    <2> QED BY <1>2, <2>1, Seen
  <1>4. ~Unlinking(fp)
    BY <1>1, <1>2 DEF Unlinking, FInv, Apart
  <1>5. TableHeap[fp] = heap[fp] /\ TableThr[t].pc = "insert" /\ TableThr[t].fp = fp
    BY <1>1, <1>2, <1>4, SeenBefore
  <1>6. TableHeap' = TableHeap
    BY <1>2, <1>3 DEF TableHeap
  <1>7. Table!Refers(t, fp)
    BY <1>2 DEF Refers, Table!Refers
  <1> QED BY <1>2, <1>3, <1>5, <1>6, <1>7 DEF Table!Insert, Table!HASH, HASH

LEMMA HoldSeen == ASSUME FInv, NEW t \in Thread, foo_hold(t) PROVE Table!foo_hold(t)
  <1>1. PICK r \in refs : /\ thr[t] = Idle /\ r.by = t /\ Refers(t, r.fp) /\ heap' = Counted(r.fp, 1)
                          /\ UNCHANGED <<fh, thr>>
    BY DEF foo_hold
  <1>2. r.fp \in Obj /\ RefsTo(r.fp) # {}
    BY Working
  <1>3. (\A o : Unlinking(o)' <=> Unlinking(o)) /\ TableThr' = TableThr
    BY <1>1 DEF Unlinking, TableThr
  <1>4. TableHeap' = Table!Counted(r.fp, 1)
    BY <1>1, <1>2, <1>3, SeenCount
  <1>5. Table!Refers(t, r.fp) /\ TableThr[t] = Table!Idle
    BY <1>1, SeenBefore DEF Refers, Table!Refers, Idle
  <1> QED BY <1>1, <1>3, <1>4, <1>5 DEF Table!foo_hold

LEMMA FindSeen == ASSUME ConstantsAssumption, FInv, NEW t \in Thread, FindHold(t) PROVE Table!foo_find(t)
  <1>1. PICK fp, id : /\ fp \in Obj /\ fp = thr[t].fp /\ heap[fp] # Freed
                     /\ id = heap[fp].f_id /\ Finds(id, fp) /\ thr[t].pc = "find"
    BY DEF FindHold, FInv, Busy, InCall
  <1>2. /\ Refers(t, fp) /\ heap' = Counted(fp, 1) /\ UNCHANGED fh
        /\ thr' = [thr EXCEPT ![t] = Idle]
    BY <1>1 DEF FindHold, Returns
  <1>3. RefsTo(fp) # {} /\ id \in Ids /\ HASH(id) \in Lists
    BY <1>1, FoundIsReferred, ListOf DEF FInv, TypeOK, Foo
  <1>4. /\ TableThr' = [TableThr EXCEPT ![t] = Table!Idle]
        /\ \A o : Unlinking(o)' <=> Unlinking(o)
    <2>1. thr'[t] = Idle /\ \A u \in Thread \ {t} : thr'[u] = thr[u]
      BY <1>1, <1>2 DEF FInv, TypeOK
    <2> QED BY <1>1, <1>2, <2>1, Seen DEF Idle
  <1>5. TableHeap' = Table!Counted(fp, 1)
    BY <1>1, <1>2, <1>3, <1>4, SeenCount
  <1>6. Table!Refers(t, fp) /\ TableThr[t] = Table!Idle /\ TableHeap[fp] = heap[fp]
    BY <1>1, <1>2, <1>3, SeenBefore, SMTT(60) DEF Refers, Table!Refers
  <1>7. Table!Finds(id, fp)
    <2>1. PICK i \in 1 .. Len(fh[HASH(id)]) :
            /\ fh[HASH(id)][i] = fp /\ heap[fp].f_id = id
            /\ \A j \in 1 .. i - 1 : heap[fh[HASH(id)][j]].f_id # id
      BY <1>1, ZenonT(60) DEF Finds
    <2>2. \A k \in 1 .. Len(fh[HASH(id)]) : TableHeap[fh[HASH(id)][k]] = heap[fh[HASH(id)][k]]
      BY <1>3, InList, SeenBefore DEF At
    <2>3. Len(fh[HASH(id)]) \in Nat /\ \A j \in 1 .. i - 1 : j \in 1 .. Len(fh[HASH(id)])
      BY <1>3 DEF FInv, TypeOK, Lists
    <2>4. Table!HASH(id) = HASH(id)
      BY DEF HASH, Table!HASH
    <2> QED BY <1>1, <1>6, <2>1, <2>2, <2>3, <2>4, ZenonT(60) DEF Table!Finds
  <1>8. TableThr' = TableThr
    BY <1>4, <1>6 DEF TableThr
  <1> QED BY <1>1, <1>2, <1>3, <1>5, <1>6, <1>7, <1>8 DEF Table!foo_find

LEMMA ReleSeen ==
  ASSUME FInv, NEW t \in Thread, Rele(t) \/ ReleKeep(t)
  PROVE  Table!foo_rele(t)
  <1>1. PICK r \in refs : /\ r.by = t /\ heap[r.fp].f_count # 1 /\ heap' = Counted(r.fp, -1)
                          /\ refs' = refs \ {r} /\ fh' = fh
                          /\ thr[t].pc \in {"idle", "recheck"} /\ thr' = [thr EXCEPT ![t] = Idle]
    <2>1. CASE Rele(t)
      BY <2>1 DEF Rele, NotLast, FInv, TypeOK, Idle
    <2>2. CASE ReleKeep(t)
      BY <2>2 DEF ReleKeep, StillLast, KeptCount, Returns, FInv, Busy, InCall
    <2> QED BY <2>1, <2>2
  <1>2. r.fp \in Obj /\ RefsTo(r.fp) # {} /\ heap[r.fp] \in Foo
    BY Working DEF FInv, TypeOK
  <1>3. /\ TableThr' = [TableThr EXCEPT ![t] = Table!Idle]
        /\ \A o : Unlinking(o)' <=> Unlinking(o)
    <2>1. thr'[t] = Idle /\ \A u \in Thread \ {t} : thr'[u] = thr[u]
      BY <1>1 DEF FInv, TypeOK
    <2> QED BY <1>1, <2>1, Seen DEF Idle
  <1>4. TableHeap' = Table!Counted(r.fp, -1)
    BY <1>1, <1>2, <1>3, SeenCount
  <1>5. TableThr[t] = Table!Idle /\ TableHeap[r.fp] = heap[r.fp]
    BY <1>1, <1>2, SeenBefore
  <1>6. TableThr' = TableThr
    BY <1>3, <1>5 DEF TableThr
  <1>7. ~Table!Last(TableHeap'[r.fp].f_count)
    <2>1. TableHeap'[r.fp].f_count = heap[r.fp].f_count + -1
      BY <1>2, <1>4, <1>5 DEF Table!Counted, TableHeap, Foo
    <2> QED BY <1>1, <1>2, <2>1 DEF Table!Last, Foo
  <1> QED BY <1>1, <1>4, <1>5, <1>6, <1>7 DEF Table!foo_rele

LEMMA UnlinkSeen ==
  ASSUME FInv, NEW t \in Thread, ReleUnlink(t)
  PROVE  Table!foo_rele(t)
  <1>1. PICK fp \in Obj, r \in refs :
          /\ fp = thr[t].fp /\ r = thr[t].ref /\ r.by = t /\ r.fp = fp /\ thr[t].pc = "recheck"
    BY DEF ReleUnlink, FInv, Busy, InCall
  <1>2. /\ heap[fp].f_count = 1 /\ heap' = heap /\ refs' = refs \ {r}
        /\ fh' = [fh EXCEPT ![HASH(heap[fp].f_id)] = Without(@, fp)]
        /\ thr' = [thr EXCEPT ![t] = [pc |-> "free", fp |-> fp, ref |-> NULL]]
    BY <1>1 DEF ReleUnlink, StillLast, Does
  <1>3. /\ TableThr' = [TableThr EXCEPT ![t] = [pc |-> "free", fp |-> fp]]
        /\ \A o : Unlinking(o)' <=> \/ fp = o
                                  \/ \E u \in Thread \ {t} : thr[u].pc = "free" /\ thr[u].fp = o
    <2>1. thr'[t] = [pc |-> "free", fp |-> fp, ref |-> NULL] /\ \A u \in Thread \ {t} : thr'[u] = thr[u]
      BY <1>2 DEF FInv, TypeOK
    <2> QED BY <1>2, <2>1, Seen
  <1>4. RefsTo(fp) # {} /\ heap[fp] \in Foo
    BY <1>1, Working DEF FInv, TypeOK
  <1>5. ~Unlinking(fp) /\ TableHeap[fp] = heap[fp] /\ TableThr[t] = Table!Idle
    BY <1>1, <1>4, SeenBefore
  <1>6. Unlinking(fp)' /\ \A o \in Obj \ {fp} : Unlinking(o)' <=> Unlinking(o)
    BY <1>1, <1>3, SMTT(60) DEF Unlinking
  <1>7. TableHeap' = Table!Counted(fp, -1)
    <2>1. [heap[fp] EXCEPT !.f_count = @ + -1] = [heap[fp] EXCEPT !.f_count = 0]
      BY <1>2, <1>4 DEF Foo
    <2>2. TableHeap' = [TableHeap EXCEPT ![fp] = [heap[fp] EXCEPT !.f_count = 0]]
      BY <1>2, <1>6, ZenonT(60) DEF TableHeap
    <2> QED BY <1>5, <2>1, <2>2 DEF Table!Counted
  <1>8. Table!Last(TableHeap'[fp].f_count)
    <2>1. TableHeap'[fp] = [heap[fp] EXCEPT !.f_count = 0]
      BY <1>2, <1>6 DEF TableHeap
    <2> QED BY <1>4, <2>1 DEF Table!Last, Foo
  <1>9. fh' = Table!Unlinked(fp)
    BY <1>2, <1>5, ZenonT(60) DEF Table!Unlinked, Table!Without, Without, Table!HASH, HASH
  <1> QED BY <1>1, <1>2, <1>3, <1>5, <1>7, <1>8, <1>9 DEF Table!foo_rele, Table!Does

LEMMA FreeSeen == ASSUME FInv, NEW t \in Thread, Free(t) PROVE Table!Free(t)
  <1>1. PICK fp \in Obj : fp = thr[t].fp /\ thr[t].pc = "free"
    BY DEF Free, FInv, Busy, InCall
  <1>2. /\ heap' = [heap EXCEPT ![fp] = Freed] /\ thr' = [thr EXCEPT ![t] = Idle]
        /\ UNCHANGED <<fh, refs>>
    BY <1>1 DEF Free, Returns
  <1>3. /\ TableThr' = [TableThr EXCEPT ![t] = Table!Idle]
        /\ \A o : Unlinking(o)' <=> \E u \in Thread \ {t} : thr[u].pc = "free" /\ thr[u].fp = o
    <2>1. thr'[t] = Idle /\ \A u \in Thread \ {t} : thr'[u] = thr[u]
      BY <1>2 DEF FInv, TypeOK
    <2> QED BY <1>2, <2>1, Seen DEF Idle
  <1>4. ~Unlinking(fp)' /\ \A o \in Obj \ {fp} : Unlinking(o)' <=> Unlinking(o)
    BY <1>1, <1>3 DEF Unlinking, FInv, Apart
  <1>5. TableHeap' = [TableHeap EXCEPT ![fp] = Freed]
    BY <1>2, <1>4 DEF TableHeap, FInv, TypeOK
  <1>6. TableThr[t].pc = "free" /\ TableThr[t].fp = fp
    BY <1>1, SeenBefore
  <1> QED BY <1>2, <1>3, <1>5, <1>6 DEF Table!Free

(* Every call takes effect at once: the table with two kinds of mutexes is    *)
(* the table with one (mutex2.c against mutex3.c).                            *)
THEOREM ImplementsFooTable == ConstantsAssumption => (Spec => IsFooTable)
  <1> SUFFICES ASSUME ConstantsAssumption PROVE Spec => IsFooTable
    OBVIOUS
  <1>1. Init => Table!Init
    <2> SUFFICES ASSUME Init PROVE Table!Init
      OBVIOUS
    <2>1. \A o : ~Unlinking(o)
      BY DEF Init, Unlinking, Idle
    <2>2. TableHeap = [o \in Obj |-> Freed] /\ TableThr = [t \in Thread |-> Table!Idle]
      BY <2>1 DEF Init, TableHeap, TableThr, Idle, Table!Idle
    <2> QED BY <2>2 DEF Init, Table!Init
  <1>2. FInv /\ [Next]_vars => [Table!Next]_(Table!vars)
    <2> SUFFICES ASSUME FInv, [Next]_vars PROVE Table!Next \/ UNCHANGED Table!vars
      OBVIOUS
    <2>1. ASSUME NEW t \in Thread, Malloc(t) \/ Insert(t) \/ foo_hold(t) \/ FindHold(t)
          PROVE  Table!Next
      BY <2>1, MallocSeen, InsertSeen, HoldSeen, FindSeen DEF Table!Next
    <2>2. ASSUME NEW t \in Thread, Rele(t) \/ ReleKeep(t) \/ ReleUnlink(t) \/ Free(t)
          PROVE  Table!Next
      BY <2>2, ReleSeen, UnlinkSeen, FreeSeen DEF Table!Next
    <2>3. ASSUME NEW t \in Thread, Initialized(t) \/ Find(t) \/ ReleLast(t) \/ ReleHashlock(t)
          PROVE  UNCHANGED Table!vars
      BY <2>3, Waiting
    <2>4. CASE UNCHANGED vars
      BY <2>4 DEF vars, Table!vars, TableHeap, TableThr, Unlinking
    <2> QED BY <2>1, <2>2, <2>3, <2>4 DEF Next
  <1> QED BY <1>1, <1>2, TableCorrect, PTL DEF Spec, IsFooTable, Table!Spec
=============================================================================
