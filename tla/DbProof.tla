------------------------------- MODULE DbProof -------------------------------
(***************************************************************************)
(* Proofs about Db, for any processes, keys, data, hash table and number   *)
(* of records.                                                             *)
(*                                                                         *)
(* What the properties say of the lists they say of pointers followed to   *)
(* the end, which no step of a proof can follow.  The invariant says it of *)
(* two functions instead: on[l], the records of list l, and rank[l], by    *)
(* which they follow each other; MetIsList shows by induction that these   *)
(* are the records met.  DbInv has, for some such functions, every record  *)
(* on one list or in one hand (Structure), the keys of every list (Keys),  *)
(* the lengths of the data (Lengths), what each process knows at its label *)
(* (Knows), and, because that knowledge lasts only while others are kept   *)
(* away, the locks that go with the label (LockInv).                       *)
(*                                                                         *)
(* A step that writes is shown in two halves: what it does to the records  *)
(* that are its process's own (Own: its chain, the free list if it has it, *)
(* what it has in hand), and, once for all, that the rest is left alone    *)
(* (StructureStep, KeysStep, LengthsStep, OthersKnow).                     *)
(*                                                                         *)
(* That the processes share a dictionary needs two facts more: at which    *)
(* labels a call has its result (OutIs), and that the record db_nextrec    *)
(* has read stays while it reads the data (Scanned).  Only three steps     *)
(* write what shows in the map, and each has its key to itself.            *)
(***************************************************************************)
EXTENDS Db, FiniteSetTheorems, WellFoundedInduction, SequenceTheorems, TLAPS

\* Labels of _db_dodelete: the data are blanked, the record is not yet.
Blanking == {"dl_blank", "dl_free", "dl_idx"}
\* ... the record holds freeptr, saveptr the next of its chain.
Linking == {"dl_ptr", "dl_unlink"}
DeleteLabel == {"dl_lock", "dl_unlock"} \cup Blanking \cup Linking
\* Labels of _db_findfree.
FindFree == {"ff_lock", "ff_head", "ff_walk", "ff_unlink", "ff_unlock"}
StoreLabel == {"overwrite", "st_head", "st_rehead", "st_dat", "st_idx", "st_ptr"} \cup FindFree
\* Where a process holds the lock of its chain, ...
ChainLabel == {"head", "walk", "readdat", "unlock"} \cup DeleteLabel \cup StoreLabel
\* ... the write lock of the free list, ...
FreeLabel == (DeleteLabel \ {"dl_lock"}) \cup (FindFree \ {"ff_lock"})
\* ... its read lock, in db_nextrec.
ScanLabel == {"nr_idx", "nr_dat", "nr_unlock"}
Label == {"closed", "creating", "idle", "dumped"} \cup ChainLabel \cup ScanLabel

IndexRecord == [key : Key \cup {Blank}, keylen : Nat, datoff : Nat, datlen : Nat]
\* The DB structures of files with n index records and m data records.
HandlesOf(n, m) ==
  [offset : 0 .. n, ptroff : Place \cup {None}, idxoff : 0 .. n, datoff : 0 .. m, datlen : Nat,
   ptrval : 0 .. n, save : 0 .. n]
Handles == HandlesOf(Len(idx), Len(dat))

\* The files: every pointer leads to a record, every index record to data.
FilesType ==
  /\ file \in {"absent", "truncated", "ready"}
  /\ idx \in Seq(IndexRecord) /\ Len(idx) <= MaxRec
  /\ dat \in Seq(Data \cup {Blank})
  /\ ptr \in [Place -> 0 .. Len(idx)]
  /\ \A i \in Rec : idx[i].datoff \in 1 .. Len(dat)

\* The locks.
LocksType == readers \in [Lock -> SUBSET Proc] /\ writer \in [Lock -> SUBSET Proc]

TypeInv ==
  /\ FilesType
  /\ LocksType
  /\ scan \in [Proc -> 0 .. MaxRec + 1]
  /\ pc \in [Proc -> Label]
  /\ h \in [Proc -> Handles]
  /\ req = [p \in Proc |-> req[p]]

\* The stores that may still append a record.
Appending == {p \in Proc : req[p].op = "store" /\ pc[p] \notin {"st_ptr", "unlock"}}
\* Whoever may still append a record has room for it.
RoomInv == Len(idx) + Cardinality(Appending) <= MaxRec

\* The call a process is in is one its label belongs to.
Asked(p) ==
  /\ pc[p] \in ChainLabel => /\ req[p].op \in {"fetch", "delete", "store"} /\ req[p].key \in Key
                             /\ req[p].op = "store" => req[p].data \in Data
  /\ At(p, "readdat") => req[p].op = "fetch"
  /\ pc[p] \in DeleteLabel => req[p].op \in {"delete", "store"}
  /\ pc[p] \in StoreLabel => req[p].op = "store"

\* Nobody reads what another writes, and there is one writer.
LocksExclude ==
  /\ \A l \in Lock : writer[l] # {} => readers[l] = {}
  /\ \A l \in Lock : \A p, q \in writer[l] : p = q

\* A process holds the locks its label stands for.
HoldsLocks(p) ==
  /\ pc[p] \in ChainLabel => IF req[p].op = "fetch" THEN p \in readers[chain(p)]
                                                     ELSE p \in writer[chain(p)]
  /\ pc[p] \in FreeLabel => p \in writer[FREE_OFF]
  /\ pc[p] \in ScanLabel => p \in readers[FREE_OFF]

\* The locks do what they are taken for.
LockInv == LocksExclude /\ \A p \in Proc : HoldsLocks(p)

\* The members of S that come after place j on list l.
After(S, r, l, j) == IF j = l THEN S ELSE {k \in S : r[k] < r[j]}

\* The records of S, in the order of falling r, are a list that starts at l.
IsList(next, l, S, r) ==
  /\ \A i, j \in S : r[i] = r[j] => i = j
  /\ \A j \in S \cup {l} :
       IF next[j] = 0 THEN After(S, r, l, j) = {}
       ELSE /\ next[j] \in After(S, r, l, j)
            /\ \A k \in After(S, r, l, j) : r[k] <= r[next[j]]

\* Record i is on its chain and on the free list already.
Unlinking(i) == \E p \in Proc : At(p, "dl_unlink") /\ h[p].idxoff = i

\* The lists: on[l] are the records of list l, in the order of falling rank[l].
Structure(on, rank) ==
  /\ \A l \in Lock : on[l] \subseteq Rec
  /\ \A c \in Chain : IsList(ChainPtr, c, on[c], rank[c])
  /\ IsList(ptr, FREE_OFF, on[FREE_OFF], rank[FREE_OFF])
  /\ \A c, d \in Chain : c # d => on[c] \cap on[d] = {}
  /\ \A c \in Chain : \A i \in on[c] \cap on[FREE_OFF] : Unlinking(i)
  /\ \A p \in Proc, l \in Lock : InHand(p) \cap on[l] = {}
  /\ \A p, q \in Proc : p # q => InHand(p) \cap InHand(q) = {}
  /\ \A i \in Rec : (\E l \in Lock : i \in on[l]) \/ (\E p \in Proc : i \in InHand(p))

\* The keys of the records of every list.
Keys(on) ==
  /\ \A c \in Chain : \A i \in on[c] :
       IF idx[i].key = Blank THEN Deleting(i) # {} ELSE Hash[idx[i].key] = c
  /\ \A c \in Chain : \A i, j \in on[c] : idx[i].key = idx[j].key /\ idx[i].key # Blank => i = j
  /\ \A i \in on[FREE_OFF] : idx[i].key = Blank /\ dat[idx[i].datoff] = Blank

\* The data of a record still to be appended are already there.
Appends(p) == At(p, "st_idx") /\ h[p].offset = 0

\* Every index record has data of its own, of its datlen or blank.
Lengths ==
  /\ \A i, j \in Rec : idx[i].datoff = idx[j].datoff => i = j
  /\ \A i \in Rec : dat[idx[i].datoff] # Blank => DatLen[dat[idx[i].datoff]] = idx[i].datlen
  /\ \A i \in Rec : idx[i].key # Blank /\ dat[idx[i].datoff] = Blank
       => \E p \in Proc : pc[p] \in {"dl_free", "dl_idx"} /\ h[p].idxoff = i
  /\ \A p, q \in Proc : Appends(p) /\ Appends(q) /\ h[p].datoff = h[q].datoff => p = q

\* The walk has met no record with the key; offset is the next one, ptroff the place before it.
Walking(p, on, rank) ==
  LET c == chain(p) IN
  /\ h[p].offset \in on[c] /\ h[p].ptroff \in on[c] \cup {c} /\ ChainPtr[h[p].ptroff] = h[p].offset
  /\ \A j \in on[c] : idx[j].key = req[p].key => rank[c][j] <= rank[c][h[p].offset]

\* The DB structure describes the record with the key.
AtKey(p, on) ==
  LET i == h[p].idxoff IN
  i \in on[chain(p)] /\ idx[i].key = req[p].key /\ h[p].datoff = idx[i].datoff

\* ptroff is the place before the record.
Behind(p, on) ==
  h[p].ptroff \in on[chain(p)] \cup {chain(p)} /\ ChainPtr[h[p].ptroff] = h[p].idxoff

\* The chain has no record with the key.
Absent(p, on) == \A j \in on[chain(p)] : idx[j].key # req[p].key

\* The walk of the free list stands at offset, ptroff is the place before it.
WalkingFree(p, on) ==
  /\ h[p].offset \in on[FREE_OFF] /\ h[p].ptroff \in on[FREE_OFF] \cup {FREE_OFF}
  /\ ptr[h[p].ptroff] = h[p].offset

\* The DB structure describes a free record for the new data.
Reusing(p) ==
  LET i == h[p].idxoff IN
  i \in Rec /\ idx[i].key = Blank /\ Fits(req[p], i) /\ h[p].datoff = idx[i].datoff

\* What a process that holds its locks knows of the files.
Knows(p, on, rank) ==
  LET i == h[p].idxoff IN
  /\ At(p, "head") => h[p].ptroff = chain(p)
  /\ At(p, "walk") => Walking(p, on, rank)
  /\ pc[p] \in {"readdat", "overwrite", "dl_lock"} \cup Blanking => AtKey(p, on)
  /\ At(p, "overwrite") => DatLen[req[p].data] = idx[i].datlen
  /\ pc[p] \in {"dl_lock"} \cup Blanking => h[p].ptrval = ptr[i]
  /\ pc[p] \in {"dl_lock"} \cup Blanking \cup Linking => Behind(p, on)
  /\ pc[p] \in {"dl_free", "dl_idx", "dl_ptr"} => dat[idx[i].datoff] = Blank
  /\ At(p, "dl_idx") => h[p].offset = ptr[FREE_OFF] /\ h[p].save = h[p].ptrval
  /\ pc[p] \in Linking => i \in on[chain(p)] /\ idx[i].key = Blank
  /\ At(p, "dl_ptr") => ptr[i] = ptr[FREE_OFF]
  /\ At(p, "dl_unlink") => i \in on[FREE_OFF]
  /\ pc[p] \in (StoreLabel \ {"overwrite"}) \cup Linking \cup {"dl_unlock"} => Absent(p, on)
  /\ pc[p] \in FindFree \cup {"st_dat", "st_idx"} => h[p].save = ptr[chain(p)]
  /\ pc[p] \in {"ff_walk", "ff_unlink"} => WalkingFree(p, on)
  /\ At(p, "ff_unlink") => i = h[p].offset /\ h[p].ptrval = ptr[i]
  /\ pc[p] \in {"ff_unlink", "ff_unlock", "st_dat", "st_idx"} /\ h[p].offset # 0 => Reusing(p)
  /\ At(p, "st_idx") => h[p].datoff # 0 /\ dat[h[p].datoff] = req[p].data
  /\ Appends(p) => h[p].datoff \in 1 .. Len(dat) /\ \A j \in Rec : idx[j].datoff # h[p].datoff
  /\ At(p, "st_ptr") => i \in Rec /\ idx[i].key = req[p].key /\ ptr[i] = ptr[chain(p)]

\* Lists that account for every record, and for what every process knows.
Placed(on, rank) ==
  /\ Structure(on, rank)
  /\ Keys(on)
  /\ Lengths
  /\ \A p \in Proc : Knows(p, on, rank)

-----------------------------------------------------------------------------
(* Lists                                                                     *)

\* A list is the same by pointers that agree on it.
LEMMA ListSame ==
  ASSUME NEW next, NEW next2, NEW l, NEW S, NEW r, IsList(next, l, S, r),
         \A j \in S \cup {l} : next2[j] = next[j]
  PROVE  IsList(next2, l, S, r)
  BY DEF IsList, After

\* The ranks with i put before the head of the list.
Front(r, next, l, i) == [r EXCEPT ![i] = IF next[l] = 0 THEN 0 ELSE r[next[l]] + 1]

\* A record put in front is the first of the list.
LEMMA ListFront ==
  ASSUME NEW next, NEW next2, NEW l, NEW S \in SUBSET (1 .. MaxRec),
         NEW r \in [1 .. MaxRec -> Nat], IsList(next, l, S, r), l \notin 1 .. MaxRec,
         NEW i \in (1 .. MaxRec) \ S, MaxRec \in Nat,
         next2[l] = i, next2[i] = next[l], \A j \in S : next2[j] = next[j],
         NEW r2, r2 = Front(r, next, l, i)
  PROVE  r2 \in [1 .. MaxRec -> Nat] /\ IsList(next2, l, S \cup {i}, r2)
  <1>r. r2 = [r EXCEPT ![i] = IF next[l] = 0 THEN 0 ELSE r[next[l]] + 1]
    BY DEF Front
  <1>t. i # l /\ \A j \in S : j # i /\ j # l /\ j \in 1 .. MaxRec /\ r[j] \in Nat
    OBVIOUS
  <1>0. next[l] = 0 => S = {}
    BY DEF IsList, After
  <1>1. next[l] # 0 => next[l] \in S /\ \A k \in S : r[k] <= r[next[l]]
    BY DEF IsList, After
  <1>2. r2 \in [1 .. MaxRec -> Nat]
    <2>1. next[l] # 0 => r[next[l]] \in Nat
      BY <1>1
    <2> QED BY <2>1, <1>r
  <1>3. r2[i] \in Nat /\ \A j \in S : r2[j] = r[j]
    BY <1>2, <1>r, <1>t
  <1>4. \A j \in S : r2[j] < r2[i]
    <2>1. CASE next[l] = 0
      BY <2>1, <1>0
    <2>2. CASE next[l] # 0
      <3>1. r2[i] = r[next[l]] + 1
        BY <2>2, <1>r
      <3>2. ASSUME NEW j \in S PROVE r2[j] < r2[i]
        <4>1. r[j] <= r[next[l]] /\ r[j] \in Nat /\ r[next[l]] \in Nat
          BY <2>2, <1>1, <1>t
        <4>2. r2[j] = r[j]
          BY <1>3
        <4> QED BY <4>1, <4>2, <3>1
      <3> QED BY <3>2
    <2> QED BY <2>1, <2>2
  <1>5. \A j, k \in S \cup {i} : r2[j] = r2[k] => j = k
    <2>1. \A j, k \in S : r[j] = r[k] => j = k
      BY DEF IsList
    <2> QED BY <2>1, <1>2, <1>3, <1>4
  <1>6. ASSUME NEW j \in (S \cup {i}) \cup {l}
        PROVE  IF next2[j] = 0 THEN After(S \cup {i}, r2, l, j) = {}
               ELSE /\ next2[j] \in After(S \cup {i}, r2, l, j)
                    /\ \A k \in After(S \cup {i}, r2, l, j) : r2[k] <= r2[next2[j]]
    <2>1. CASE j = l
      <3>1. After(S \cup {i}, r2, l, j) = S \cup {i}
        BY <2>1 DEF After
      <3>2. \A k \in S \cup {i} : r2[k] <= r2[i]
        BY <1>3, <1>4, <1>t
      <3>3. i # 0
        OBVIOUS
      <3> QED BY <2>1, <3>1, <3>2, <3>3
    <2>2. CASE j = i
      <3>1. After(S \cup {i}, r2, l, j) = S
        <4>1. After(S \cup {i}, r2, l, j) = {k \in S \cup {i} : r2[k] < r2[i]}
          BY <2>2, <1>t DEF After
        <4>2. ~(r2[i] < r2[i])
          BY <1>3
        <4> QED BY <4>1, <4>2, <1>4
      <3> QED BY <2>2, <3>1, <1>0, <1>1, <1>3
    <2>3. CASE j \in S
      <3>a. r2[j] = r[j] /\ ~(r2[i] < r2[j]) /\ j # l
        BY <2>3, <1>3, <1>4, <1>t
      <3>1. After(S \cup {i}, r2, l, j) = After(S, r, l, j)
        BY <3>a, <1>3 DEF After
      <3>2. After(S, r, l, j) \subseteq S
        BY DEF After
      <3>3. IF next[j] = 0 THEN After(S, r, l, j) = {}
            ELSE /\ next[j] \in After(S, r, l, j)
                 /\ \A k \in After(S, r, l, j) : r[k] <= r[next[j]]
        BY <2>3 DEF IsList
      <3>4. next2[j] = next[j]
        BY <2>3
      <3> QED BY <3>1, <3>2, <3>3, <3>4, <1>3
    <2> QED BY <2>1, <2>2, <2>3
  <1> QED BY <1>2, <1>5, <1>6 DEF IsList

\* a place has one predecessor
LEMMA ListPredecessor ==
  ASSUME NEW next, NEW l, NEW S \in SUBSET (1 .. MaxRec),
         NEW r \in [1 .. MaxRec -> Nat], IsList(next, l, S, r), l \notin 1 .. MaxRec,
         MaxRec \in Nat,
         NEW j \in S \cup {l}, NEW k \in S \cup {l}, next[j] \in S, next[k] = next[j]
  PROVE  j = k
  <1> DEFINE i == next[j]
  <1>0. i # 0
    OBVIOUS
  <1>1. i \in After(S, r, l, j) /\ i \in After(S, r, l, k)
    BY <1>0 DEF IsList
  <1> HIDE DEF i
  <1>2. \A x \in After(S, r, l, j) \cup After(S, r, l, k) : r[x] <= r[i]
    BY <1>0 DEF IsList, i
  <1>t. \A x \in S : x # l /\ r[x] \in Nat
    OBVIOUS
  <1>3. j \notin After(S, r, l, k) /\ k \notin After(S, r, l, j)
    <2>1. i \in S
      BY DEF i
    <2>2. ASSUME NEW x \in S, NEW y \in S \cup {l}, i \in After(S, r, l, x), x \in After(S, r, l, y),
                 \A z \in After(S, r, l, y) : r[z] <= r[i]
          PROVE  FALSE
      <3>1. r[i] < r[x] /\ r[x] <= r[i]
        BY <2>2, <1>t DEF After
      <3> QED BY <3>1, <2>1, <1>t
    <2>3. ~(l \in S) /\ \A x, y : x \in After(S, r, l, y) => x \in S
      BY DEF After
    <2>4. k \notin After(S, r, l, j)
      <3> SUFFICES ASSUME k \in After(S, r, l, j) PROVE FALSE
        OBVIOUS
      <3>1. k \in S
        BY <2>3
      <3> QED BY <3>1, <2>2, <1>1, <1>2
    <2>5. j \notin After(S, r, l, k)
      <3> SUFFICES ASSUME j \in After(S, r, l, k) PROVE FALSE
        OBVIOUS
      <3>1. j \in S
        BY <2>3
      <3> QED BY <3>1, <2>2, <1>1, <1>2
    <2> QED BY <2>4, <2>5
  <1>4. CASE j = l
    BY <1>3, <1>4 DEF After
  <1>5. CASE k = l
    BY <1>3, <1>5 DEF After
  <1>6. CASE j \in S /\ k \in S
    <2>1. ~(r[j] < r[k]) /\ ~(r[k] < r[j])
      BY <1>3, <1>6, <1>t DEF After
    <2>2. r[j] = r[k]
      BY <2>1, <1>6, <1>t
    <2> QED BY <2>2, <1>6 DEF IsList
  <1> QED BY <1>4, <1>5, <1>6

\* A list without the record its predecessor is made to skip.
LEMMA ListWithout ==
  ASSUME NEW next, NEW next2, NEW l, NEW S \in SUBSET (1 .. MaxRec),
         NEW r \in [1 .. MaxRec -> Nat], IsList(next, l, S, r), l \notin 1 .. MaxRec,
         MaxRec \in Nat,
         NEW i \in S, NEW j \in S \cup {l}, next[j] = i, next2[j] = next[i],
         \A k \in (S \cup {l}) \ {i, j} : next2[k] = next[k]
  PROVE  IsList(next2, l, S \ {i}, r)
  <1>0. i # 0
    OBVIOUS
  <1>1. i \in After(S, r, l, j) /\ \A x \in After(S, r, l, j) : r[x] <= r[i]
    BY <1>0 DEF IsList
  <1>2. i # j /\ (j \in S => r[i] < r[j])
    BY <1>1 DEF After
  <1>3. \A x, y \in S : r[x] = r[y] => x = y
    BY DEF IsList
  <1>4. ASSUME NEW k \in (S \ {i}) \cup {l}
        PROVE  IF next2[k] = 0 THEN After(S \ {i}, r, l, k) = {}
               ELSE /\ next2[k] \in After(S \ {i}, r, l, k)
                    /\ \A x \in After(S \ {i}, r, l, k) : r[x] <= r[next2[k]]
    <2>1. After(S \ {i}, r, l, k) = After(S, r, l, k) \ {i}
      BY DEF After
    <2>2. CASE k = j
      <3>1. After(S, r, l, j) \ {i} = After(S, r, l, i)
        <4>1. \A x \in S : r[x] < r[i] <=> x \in After(S, r, l, j) /\ x # i
          <5>1. CASE j = l
            BY <5>1, <1>1, <1>3 DEF After
          <5>2. CASE j \in S
            BY <5>2, <1>1, <1>2, <1>3 DEF After
          <5> QED BY <5>1, <5>2
        <4> QED BY <4>1 DEF After
      <3>2. IF next[i] = 0 THEN After(S, r, l, i) = {}
            ELSE /\ next[i] \in After(S, r, l, i)
                 /\ \A x \in After(S, r, l, i) : r[x] <= r[next[i]]
        BY DEF IsList
      <3> QED BY <2>1, <2>2, <3>1, <3>2
    <2>3. CASE k # j
      <3>1. next2[k] = next[k]
        BY <2>3
      <3>2. next[k] # i
        BY <2>3, ListPredecessor
      <3>3. IF next[k] = 0 THEN After(S, r, l, k) = {}
            ELSE /\ next[k] \in After(S, r, l, k)
                 /\ \A x \in After(S, r, l, k) : r[x] <= r[next[k]]
        BY DEF IsList
      <3> QED BY <2>1, <3>1, <3>2, <3>3
    <2> QED BY <2>2, <2>3
  <1> QED BY <1>3, <1>4 DEF IsList

-----------------------------------------------------------------------------
(* What is met along a list: induction over its places                       *)

\* A set of naturals has a least member, ...
LEMMA LeastNatural ==
  ASSUME NEW T \in SUBSET Nat, T # {}
  PROVE  \E n \in T : \A m \in T : n <= m
  <1> DEFINE R == {ss \in Nat \X Nat : ss[1] < ss[2]}
  <1>1. IsWellFoundedOn(R, Nat)
    BY NatLessThanWellFounded DEF OpToRel
  <1>2. \E x \in T : \A y \in T : ~(<<y, x>> \in R)
    BY <1>1, WFMin
  <1>3. \A x, y \in Nat : y < x => <<y, x>> \in R
    OBVIOUS
  <1> HIDE DEF R
  <1>4. PICK x \in T : \A y \in T : ~(<<y, x>> \in R)
    BY <1>2
  <1>5. ASSUME NEW y \in T PROVE x <= y
    <2>1. ~(y < x)
      BY <1>3, <1>4
    <2> QED BY <2>1
  <1> QED BY <1>5

\* what holds of 0, and of n + 1 when it holds of n, ...
LEMMA Induction ==
  ASSUME NEW S, 0 \in S, \A n \in Nat : n \in S => n + 1 \in S
  PROVE  Nat \subseteq S
  <1> SUFFICES ASSUME Nat \ S # {} PROVE FALSE
    OBVIOUS
  <1>1. PICK n \in Nat \ S : \A m \in Nat \ S : n <= m
    BY LeastNatural
  <1>2. n # 0 /\ n - 1 \in Nat
    OBVIOUS
  <1>3. n - 1 \in S
    BY <1>1, <1>2
  <1> QED BY <1>2, <1>3

\* What Nth is defined by at n.
NthStep(l, next, f, n) == IF n = 0 THEN l ELSE LET m == f[n - 1] IN IF m = 0 THEN 0 ELSE next[m]

\* ... so that the recursion of Nth has a solution, ...
LEMMA NthExists ==
  ASSUME NEW next, NEW l, MaxRec \in Nat
  PROVE  \E f : f = [n \in 0 .. MaxRec + 1 |-> NthStep(l, next, f, n)]
  <1> DEFINE Upto(f, k) == f = [n \in 0 .. k |-> NthStep(l, next, f, n)]
             Good == {k \in Nat : \E f : Upto(f, k)}
  <1>1. 0 \in Good
    <2> DEFINE g == [n \in 0 .. 0 |-> l]
    <2>1. g = [n \in 0 .. 0 |-> NthStep(l, next, g, n)]
      BY DEF NthStep
    <2> QED BY <2>1
  <1>2. ASSUME NEW k \in Nat, k \in Good PROVE k + 1 \in Good
    <2>1. PICK f : Upto(f, k)
      BY <1>2
    <2> DEFINE g == [n \in 0 .. k + 1 |-> IF n <= k THEN f[n] ELSE IF f[k] = 0 THEN 0 ELSE next[f[k]]]
    <2>2. \A n \in 0 .. k : f[n] = NthStep(l, next, f, n)
      BY <2>1
    <2>3. ASSUME NEW n \in 0 .. k + 1 PROVE g[n] = NthStep(l, next, g, n)
      <3>1. CASE n = 0
        BY <3>1, <2>2 DEF NthStep
      <3>2. CASE n \in 1 .. k
        <4>1. n \in 0 .. k /\ n - 1 \in 0 .. k /\ n # 0
          BY <3>2
        <4>2. g[n] = f[n] /\ g[n - 1] = f[n - 1]
          BY <4>1
        <4> QED BY <4>1, <4>2, <2>2 DEF NthStep
      <3>3. CASE n = k + 1
        <4>1. g[n] = IF f[k] = 0 THEN 0 ELSE next[f[k]]
          BY <3>3
        <4>2. g[n - 1] = f[k] /\ n # 0
          BY <3>3
        <4> QED BY <4>1, <4>2 DEF NthStep
      <3> QED BY <3>1, <3>2, <3>3
    <2>4. g = [n \in 0 .. k + 1 |-> g[n]]
      OBVIOUS
    <2>5. Upto(g, k + 1)
      BY <2>3, <2>4
    <2> HIDE DEF g
    <2> QED BY <2>5
  <1> HIDE DEF Good
  <1>3. MaxRec + 1 \in Good
    BY <1>1, <1>2, Induction
  <1> QED BY <1>3 DEF Good

\* ... and Nth is one.
LEMMA NthIs ==
  ASSUME NEW next, NEW l, MaxRec \in Nat
  PROVE  Nth(l, next) = [n \in 0 .. MaxRec + 1 |-> NthStep(l, next, Nth(l, next), n)]
  <1>1. \E f : f = [n \in 0 .. MaxRec + 1 |-> NthStep(l, next, f, n)]
    BY NthExists
  <1>2. Nth(l, next) = CHOOSE f : f = [n \in 0 .. MaxRec + 1 |-> NthStep(l, next, f, n)]
    BY Zenon DEF Nth, NthStep
  <1> QED BY <1>1, <1>2, Zenon

\* What is met from the start of a list are its records, and the end.
LEMMA MetIsList ==
  ASSUME NEW next, NEW l, NEW S \in SUBSET (1 .. MaxRec),
         NEW r \in [1 .. MaxRec -> Nat], IsList(next, l, S, r), l \notin 1 .. MaxRec, l # 0,
         MaxRec \in Nat
  PROVE  Met(l, next) = S \cup {0}
  <1> DEFINE f == Nth(l, next)
  <1>0. \A n \in 0 .. MaxRec + 1 : f[n] = NthStep(l, next, f, n)
    BY NthIs
  <1>1. f[0] = l
    BY <1>0 DEF NthStep
  <1>2. \A n \in 1 .. MaxRec + 1 : f[n] = IF f[n - 1] = 0 THEN 0 ELSE next[f[n - 1]]
    <2>1. ASSUME NEW n \in 1 .. MaxRec + 1 PROVE f[n] = IF f[n - 1] = 0 THEN 0 ELSE next[f[n - 1]]
      <3>1. f[n] = NthStep(l, next, f, n) /\ n # 0
        BY <1>0
      <3> QED BY <3>1 DEF NthStep
    <2> QED BY <2>1
  <1> HIDE DEF f
  <1>t. 0 \notin S /\ l \notin S /\ \A j \in S : r[j] \in Nat
    <2>1. 0 \notin 1 .. MaxRec
      OBVIOUS
    <2>2. \A j \in S : j \in 1 .. MaxRec
      OBVIOUS
    <2> QED BY <2>1, <2>2
  <1>3. \A j \in S \cup {l} : next[j] # 0 =>
           /\ next[j] \in After(S, r, l, j) /\ next[j] \in S
           /\ \A k \in After(S, r, l, j) : k = next[j] \/ k \in After(S, r, l, next[j])
    <2>1. ASSUME NEW j \in S \cup {l}, next[j] # 0
          PROVE  /\ next[j] \in After(S, r, l, j) /\ next[j] \in S
                 /\ \A k \in After(S, r, l, j) : k = next[j] \/ k \in After(S, r, l, next[j])
      <3>1. next[j] \in After(S, r, l, j) /\ \A k \in After(S, r, l, j) : r[k] <= r[next[j]]
        BY <2>1 DEF IsList
      <3>2. After(S, r, l, j) \subseteq S
        BY DEF After
      <3>3. next[j] \in S /\ next[j] # l
        BY <3>1, <3>2, <1>t
      <3>4. ASSUME NEW k \in After(S, r, l, j), k # next[j] PROVE k \in After(S, r, l, next[j])
        <4>1. k \in S /\ r[k] <= r[next[j]]
          BY <3>1, <3>2
        <4>2. r[k] # r[next[j]]
          BY <4>1, <3>3, <3>4 DEF IsList
        <4>a. r[k] \in Nat /\ r[next[j]] \in Nat
          BY <4>1, <3>3, <1>t
        <4>3. r[k] < r[next[j]]
          BY <4>1, <4>2, <4>a
        <4> QED BY <4>1, <4>3, <3>3 DEF After
      <3> QED BY <3>1, <3>3, <3>4
    <2> QED BY <2>1
  <1>4. \A j \in S \cup {l} : next[j] = 0 => After(S, r, l, j) = {}
    BY DEF IsList
  \* every place met is the start, a record of the list, or 0
  <1>5. \A n \in 0 .. MaxRec + 1 : f[n] \in S \cup {l, 0} /\ (n > 0 => f[n] \in S \cup {0})
    <2> DEFINE Good == {n \in Nat : n <= MaxRec + 1 =>
                           f[n] \in S \cup {l, 0} /\ (n > 0 => f[n] \in S \cup {0})}
    <2>1. 0 \in Good
      BY <1>1
    <2>2. ASSUME NEW n \in Nat, n \in Good PROVE n + 1 \in Good
      <3> SUFFICES ASSUME n + 1 <= MaxRec + 1 PROVE f[n + 1] \in S \cup {0}
        OBVIOUS
      <3>1. f[n] \in S \cup {l, 0}
        BY <2>2
      <3>2. n + 1 \in 1 .. MaxRec + 1 /\ (n + 1) - 1 = n
        OBVIOUS
      <3>3. f[n + 1] = IF f[n] = 0 THEN 0 ELSE next[f[n]]
        BY <1>2, <3>2
      <3> QED BY <3>1, <3>3, <1>3
    <2> HIDE DEF Good
    <2>3. Nat \subseteq Good
      BY <2>1, <2>2, Induction
    <2> QED BY <2>3 DEF Good
  \* the records met come in the order of the list
  <1>6. \A n \in 1 .. MaxRec + 1 : f[n] # 0 =>
           f[n - 1] # 0 /\ f[n] \in After(S, r, l, f[n - 1])
    <2>1. ASSUME NEW n \in 1 .. MaxRec + 1, f[n] # 0
          PROVE  f[n - 1] # 0 /\ f[n] \in After(S, r, l, f[n - 1])
      <3>1. f[n - 1] # 0 /\ f[n] = next[f[n - 1]]
        BY <2>1, <1>2
      <3>2. f[n - 1] \in S \cup {l}
        <4>1. n - 1 \in 0 .. MaxRec + 1
          OBVIOUS
        <4> QED BY <4>1, <3>1, <1>5
      <3> QED BY <2>1, <3>1, <3>2, <1>3
    <2> QED BY <2>1
  <1>7. \A n \in 1 .. MaxRec + 1 : f[n] # 0 =>
           \A m \in 1 .. n : f[m] # 0 /\ (m < n => r[f[n]] < r[f[m]])
    <2> DEFINE Good == {n \in Nat : n \in 1 .. MaxRec + 1 /\ f[n] # 0 =>
                           \A m \in 1 .. n : f[m] # 0 /\ (m < n => r[f[n]] < r[f[m]])}
    <2>1. 0 \in Good
      OBVIOUS
    <2>2. ASSUME NEW n \in Nat, n \in Good PROVE n + 1 \in Good
      <3> SUFFICES ASSUME n + 1 \in 1 .. MaxRec + 1, f[n + 1] # 0, NEW m \in 1 .. n + 1
                   PROVE  f[m] # 0 /\ (m < n + 1 => r[f[n + 1]] < r[f[m]])
        OBVIOUS
      <3>1. CASE m = n + 1
        BY <3>1
      <3>2. CASE m \in 1 .. n
        <4>1. (n + 1) - 1 = n /\ n \in 1 .. MaxRec + 1 /\ m \in 1 .. MaxRec + 1
          BY <3>2
        <4>2. f[n] # 0 /\ f[n + 1] \in After(S, r, l, f[n])
          BY <1>6, <4>1
        <4>3. f[n] \in S /\ f[n + 1] \in S
          BY <4>1, <4>2, <1>5
        <4>4. r[f[n + 1]] < r[f[n]]
          BY <4>2, <4>3, <1>t DEF After
        <4>5. f[m] # 0 /\ (m < n => r[f[n]] < r[f[m]])
          BY <2>2, <4>1, <4>2, <3>2
        <4>6. f[m] \in S
          BY <4>5, <4>1, <1>5
        <4>7. r[f[n + 1]] \in Nat /\ r[f[n]] \in Nat /\ r[f[m]] \in Nat
          BY <4>3, <4>6, <1>t
        <4>8. CASE m = n
          BY <4>8, <4>4, <4>5
        <4>9. CASE m < n
          BY <4>9, <4>4, <4>5, <4>7
        <4> QED BY <4>8, <4>9, <3>2
      <3> QED BY <3>1, <3>2
    <2> HIDE DEF Good
    <2>3. Nat \subseteq Good
      BY <2>1, <2>2, Induction
    <2> QED BY <2>3 DEF Good
  \* they are distinct, so that the end comes within MaxRec + 1 places
  <1>8. f[MaxRec + 1] = 0
    <2> SUFFICES ASSUME f[MaxRec + 1] # 0 PROVE FALSE
      OBVIOUS
    <2> DEFINE g == [n \in 1 .. MaxRec + 1 |-> f[n]]
    <2>0. MaxRec + 1 \in 1 .. MaxRec + 1
      OBVIOUS
    <2>1. \A n \in 1 .. MaxRec + 1 : f[n] # 0
      BY <1>7, <2>0
    <2>2. \A n \in 1 .. MaxRec + 1 : f[n] \in S
      BY <2>1, <1>5
    <2>3. g \in [1 .. MaxRec + 1 -> S]
      BY <2>2
    <2>4. IsFiniteSet(1 .. MaxRec + 1) /\ Cardinality(1 .. MaxRec + 1) = MaxRec + 1
      BY FS_Interval
    <2>5. IsFiniteSet(1 .. MaxRec) /\ Cardinality(1 .. MaxRec) = MaxRec
      BY FS_Interval
    <2>6. IsFiniteSet(S) /\ Cardinality(S) <= MaxRec
      <3>1. S \in SUBSET (1 .. MaxRec)
        OBVIOUS
      <3>2. IsFiniteSet(S) /\ Cardinality(S) <= Cardinality(1 .. MaxRec)
        BY <3>1, <2>5, FS_Subset, Zenon
      <3> QED BY <3>2, <2>5
    <2>7. Cardinality(S) < Cardinality(1 .. MaxRec + 1)
      BY <2>4, <2>6, FS_CardinalityType
    <2> HIDE DEF g
    <2>8. PICK x, y \in 1 .. MaxRec + 1 : x # y /\ g[x] = g[y]
      BY <2>3, <2>4, <2>6, <2>7, FS_PigeonHole
    <2>9. f[x] = f[y]
      BY <2>8 DEF g
    <2>10. r[f[x]] \in Nat
      BY <2>2, <1>t
    <2>11. CASE x < y
      BY <2>11, <2>1, <2>9, <2>10, <1>7
    <2>12. CASE y < x
      BY <2>12, <2>1, <2>9, <2>10, <1>7
    <2> QED BY <2>8, <2>11, <2>12
  \* whatever has not been met is still to come
  <1>9. \A n \in 0 .. MaxRec + 1 : \A k \in S :
           (f[n] # 0 /\ k \in After(S, r, l, f[n])) \/ \E m \in 1 .. n : f[m] = k
    <2> DEFINE Good == {n \in Nat : n <= MaxRec + 1 => \A k \in S :
           (f[n] # 0 /\ k \in After(S, r, l, f[n])) \/ \E m \in 1 .. n : f[m] = k}
    <2>1. 0 \in Good
      BY <1>1 DEF After
    <2>2. ASSUME NEW n \in Nat, n \in Good PROVE n + 1 \in Good
      <3> SUFFICES ASSUME n + 1 <= MaxRec + 1, NEW k \in S
                   PROVE  \/ f[n + 1] # 0 /\ k \in After(S, r, l, f[n + 1])
                          \/ \E m \in 1 .. n + 1 : f[m] = k
        OBVIOUS
      <3>1. CASE \E m \in 1 .. n : f[m] = k
        <4>1. 1 .. n \subseteq 1 .. n + 1
          OBVIOUS
        <4> QED BY <3>1, <4>1
      <3>2. CASE f[n] # 0 /\ k \in After(S, r, l, f[n])
        <4>1. n + 1 \in 1 .. MaxRec + 1 /\ (n + 1) - 1 = n /\ n \in 0 .. MaxRec + 1
          OBVIOUS
        <4>2. f[n + 1] = next[f[n]]
          BY <3>2, <4>1, <1>2
        <4>3. f[n] \in S \cup {l}
          BY <3>2, <4>1, <1>5
        <4>4. next[f[n]] # 0
          BY <4>3, <3>2, <1>4
        <4>5. k = f[n + 1] \/ k \in After(S, r, l, f[n + 1])
          BY <4>2, <4>3, <4>4, <3>2, <1>3
        <4>6. n + 1 \in 1 .. n + 1
          OBVIOUS
        <4> QED BY <4>2, <4>4, <4>5, <4>6
      <3> QED BY <3>1, <3>2, <2>2
    <2> HIDE DEF Good
    <2>3. Nat \subseteq Good
      BY <2>1, <2>2, Induction
    <2> QED BY <2>3 DEF Good
  <1>10. S \subseteq Met(l, next)
    <2>1. MaxRec + 1 \in 0 .. MaxRec + 1
      OBVIOUS
    <2>2. \A k \in S : \E m \in 1 .. MaxRec + 1 : f[m] = k
      BY <2>1, <1>8, <1>9
    <2> QED BY <2>2 DEF Met, f
  <1>11. 0 \in Met(l, next)
    <2>1. MaxRec + 1 \in 1 .. MaxRec + 1
      OBVIOUS
    <2> QED BY <2>1, <1>8 DEF Met, f
  <1>12. Met(l, next) \subseteq S \cup {0}
    BY <1>5 DEF Met, f
  <1> QED BY <1>10, <1>11, <1>12

-----------------------------------------------------------------------------
(* Where a process can be, and where a step takes it                         *)

\* What the DB structure of p points to.
Whereabouts(p) ==
  /\ At(p, "walk") => h[p].offset \in Rec
  /\ pc[p] \in {"readdat", "overwrite", "dl_lock"} \cup Blanking =>
       h[p].idxoff \in Rec /\ h[p].datoff = idx[h[p].idxoff].datoff
  /\ pc[p] \in Linking => h[p].idxoff \in Rec
  /\ pc[p] \in {"dl_lock"} \cup Blanking \cup Linking => h[p].ptroff \in Place
  /\ pc[p] \in {"ff_walk", "ff_unlink"} => h[p].offset \in Rec /\ h[p].ptroff \in Place
  /\ pc[p] \in {"ff_unlink", "ff_unlock", "st_dat", "st_idx"} /\ h[p].offset # 0 =>
       h[p].idxoff \in Rec /\ h[p].datoff = idx[h[p].idxoff].datoff
  /\ At(p, "st_idx") => h[p].datoff # 0
  /\ At(p, "st_ptr") => h[p].idxoff \in Rec

\* The labels, written out.
Labels == {"closed", "creating", "idle", "dumped", "head", "walk", "readdat", "unlock",
           "overwrite", "st_head", "st_rehead", "st_dat", "st_idx", "st_ptr",
           "ff_lock", "ff_head", "ff_walk", "ff_unlink", "ff_unlock",
           "dl_lock", "dl_unlock", "dl_blank", "dl_free", "dl_idx", "dl_ptr", "dl_unlink",
           "nr_idx", "nr_dat", "nr_unlock"}

\* They are those of Label.
LEMMA LabelIs == Label = Labels
  BY DEF Label, Labels, ChainLabel, DeleteLabel, StoreLabel, FindFree, Blanking, Linking, ScanLabel

USE DbAssumption

\* A request of db_fetch, db_delete or db_store that _db_find_and_lock accepts.
Call(r) == /\ r.op \in {"fetch", "delete", "store"} /\ r.key \in Key
           /\ r.op = "store" => r.data \in Data /\ Room

\* db_fetch, db_delete and db_store begin alike.
LEMMA Calls ==
  ASSUME NEW p \in Proc, db_fetch(p) \/ db_delete(p) \/ db_store(p)
  PROVE  \E r : FindAndLock(p, r) /\ Call(r)
  <1>1. CASE db_fetch(p)
    <2>1. PICK k \in Key : FindAndLock(p, [op |-> "fetch", key |-> k])
      BY <1>1 DEF db_fetch
    <2>2. Call([op |-> "fetch", key |-> k])
      BY DEF Call
    <2> QED BY <2>1, <2>2
  <1>2. CASE db_delete(p)
    <2>1. PICK k \in Key : FindAndLock(p, [op |-> "delete", key |-> k])
      BY <1>2 DEF db_delete
    <2>2. Call([op |-> "delete", key |-> k])
      BY DEF Call
    <2> QED BY <2>1, <2>2
  <1>3. CASE db_store(p)
    <2>1. PICK k \in Key, d \in Data, f \in Flag :
            FindAndLock(p, [op |-> "store", key |-> k, data |-> d, flag |-> f])
      BY <1>3 DEF db_store
    <2>2. Call([op |-> "store", key |-> k, data |-> d, flag |-> f])
      BY <1>3 DEF Call, db_store
    <2> QED BY <2>1, <2>2
  <1> QED BY <1>1, <1>2, <1>3

\* Where the end of a chain takes p, ...
LEMMA NotFoundGoes ==
  ASSUME NEW p \in Proc, NotFound(p)
  PROVE  \/ req[p].op = "store" /\ Goto(p, "st_head")
         \/ Goto(p, "unlock")
  BY DEF NotFound

\* ... where a pointer that is read takes it, ...
LEMMA WalksGoes ==
  ASSUME NEW p \in Proc, NEW o, Walks(p, o)
  PROVE  \/ o # 0 /\ Goto(p, "walk")
         \/ o = 0 /\ req[p].op = "store" /\ Goto(p, "st_head")
         \/ o = 0 /\ Goto(p, "unlock")
  BY NotFoundGoes DEF Walks

\* ... and where the record with the key does.
LEMMA FoundGoes ==
  ASSUME NEW p \in Proc, NEW i, Found(p, i), req[p].op \in {"fetch", "delete", "store"}
  PROVE  \/ req[p].op = "fetch" /\ Goto(p, "readdat")
         \/ req[p].op \in {"delete", "store"} /\ Goto(p, "dl_lock")
         \/ Goto(p, "unlock")
         \/ req[p].op = "store" /\ Goto(p, "overwrite") /\ DatLen[req[p].data] = idx[i].datlen
  <1>1. CASE req[p].op = "fetch"
    BY <1>1 DEF Found
  <1>2. CASE req[p].op = "delete"
    BY <1>2 DEF Found
  <1>3. CASE req[p].op = "store" /\ req[p].flag = "DB_INSERT"
    BY <1>3 DEF Found
  <1>4. CASE req[p].op = "store" /\ req[p].flag # "DB_INSERT"
    <2>1. Goto(p, IF DatLen[req[p].data] # idx[i].datlen THEN "dl_lock" ELSE "overwrite")
      BY <1>4 DEF Found
    <2> QED BY <2>1, <1>4
  <1> QED BY <1>1, <1>2, <1>3, <1>4

\* A step of p moves p only.
LEMMA Moves ==
  ASSUME NEW p \in Proc, pc \in [Proc -> Label], Asked(p), Step(p)
  PROVE  pc' \in [Proc -> Label] /\ pc' = [pc EXCEPT ![p] = pc'[p]]
  <1> USE LabelIs DEF Labels, Goto
  <1>1. CASE Create(p)
    BY <1>1 DEF Create
  <1>2. CASE Initialize(p)
    BY <1>2 DEF Initialize
  <1>3. CASE Open(p)
    BY <1>3 DEF Open
  <1>4. CASE db_close(p)
    BY <1>4 DEF db_close
  <1>5. CASE db_rewind(p)
    BY <1>5 DEF db_rewind
  <1>6. CASE Dump(p)
    BY <1>6 DEF Dump
  <1>7. CASE db_fetch(p) \/ db_delete(p) \/ db_store(p)
    <2>1. PICK r : FindAndLock(p, r)
      BY <1>7, Calls
    <2> QED BY <2>1 DEF FindAndLock
  <1>8. CASE ReadHead(p)
    <2>1. Walks(p, ptr[chain(p)])
      BY <1>8 DEF ReadHead
    <2> QED BY <2>1, WalksGoes
  <1>9. CASE Walk(p)
    <2>1. At(p, "walk") /\ (Found(p, h[p].offset) \/ Walks(p, ptr[h[p].offset]))
      BY <1>9 DEF Walk
    <2>2. req[p].op \in {"fetch", "delete", "store"}
      BY <2>1 DEF Asked, At, ChainLabel
    <2>3. CASE Found(p, h[p].offset)
      BY <2>2, <2>3, FoundGoes
    <2>4. CASE Walks(p, ptr[h[p].offset])
      BY <2>4, WalksGoes
    <2> QED BY <2>1, <2>3, <2>4
  <1>10. CASE ReadDat(p)
    BY <1>10 DEF ReadDat
  <1>11. CASE Unlock(p)
    BY <1>11 DEF Unlock
  <1>12. CASE DeleteLock(p)
    BY <1>12 DEF DeleteLock
  <1>13. CASE DeleteBlank(p)
    BY <1>13 DEF DeleteBlank
  <1>14. CASE DeleteReadFree(p)
    BY <1>14 DEF DeleteReadFree
  <1>15. CASE DeleteWriteIdx(p)
    BY <1>15 DEF DeleteWriteIdx
  <1>16. CASE DeleteWriteFree(p)
    BY <1>16 DEF DeleteWriteFree
  <1>17. CASE DeleteUnlink(p)
    BY <1>17 DEF DeleteUnlink
  <1>18. CASE DeleteUnlock(p)
    BY <1>18 DEF DeleteUnlock
  <1>19. CASE FreeLock(p)
    BY <1>19 DEF FreeLock
  <1>20. CASE FreeHead(p)
    BY <1>20 DEF FreeHead, WalksFree
  <1>21. CASE FreeWalk(p)
    BY <1>21 DEF FreeWalk, WalksFree
  <1>22. CASE FreeUnlink(p)
    BY <1>22 DEF FreeUnlink
  <1>23. CASE FreeUnlock(p)
    BY <1>23 DEF FreeUnlock
  <1>24. CASE StoreReadHead(p)
    BY <1>24 DEF StoreReadHead
  <1>25. CASE StoreWriteDat(p)
    BY <1>25 DEF StoreWriteDat
  <1>26. CASE StoreWriteIdx(p)
    BY <1>26 DEF StoreWriteIdx
  <1>27. CASE StoreWritePtr(p)
    BY <1>27 DEF StoreWritePtr
  <1>28. CASE Overwrite(p)
    BY <1>28 DEF Overwrite
  <1>29. CASE db_nextrec(p)
    BY <1>29 DEF db_nextrec
  <1>30. CASE NextrecReadIdx(p)
    BY <1>30 DEF NextrecReadIdx
  <1>31. CASE NextrecReadDat(p)
    BY <1>31 DEF NextrecReadDat
  <1>32. CASE NextrecUnlock(p)
    BY <1>32 DEF NextrecUnlock
  <1> QED BY <1>1, <1>2, <1>3, <1>4, <1>5, <1>6, <1>7, <1>8, <1>9, <1>10, <1>11, <1>12, <1>13, <1>14, <1>15, <1>16, <1>17, <1>18, <1>19, <1>20, <1>21, <1>22, <1>23, <1>24, <1>25, <1>26, <1>27, <1>28, <1>29, <1>30, <1>31, <1>32 DEF Step

-----------------------------------------------------------------------------
(* The locks                                                                 *)

\* A step of p changes the request of p alone.
LEMMA ReqMoves ==
  ASSUME NEW p \in Proc, req = [q \in Proc |-> req[q]], Step(p)
  PROVE  req' = [req EXCEPT ![p] = req'[p]] /\ req' = [q \in Proc |-> req'[q]]
  <1>1. CASE db_fetch(p) \/ db_delete(p) \/ db_store(p)
    <2>1. PICK r : FindAndLock(p, r)
      BY <1>1, Calls
    <2> QED BY <2>1 DEF FindAndLock
  <1>2. CASE Dump(p)
    BY <1>2 DEF Dump
  <1>3. CASE Unlock(p)
    BY <1>3 DEF Unlock
  <1>4. CASE db_nextrec(p)
    BY <1>4 DEF db_nextrec
  <1>5. CASE NextrecReadIdx(p)
    BY <1>5 DEF NextrecReadIdx
  <1>6. CASE NextrecUnlock(p)
    BY <1>6 DEF NextrecUnlock
  <1>7. CASE Create(p) \/ Initialize(p) \/ Open(p) \/ db_close(p) \/ db_rewind(p) \/ ReadHead(p) \/ Walk(p) \/ ReadDat(p) \/ DeleteLock(p) \/ DeleteBlank(p) \/ DeleteReadFree(p) \/ DeleteWriteIdx(p) \/ DeleteWriteFree(p) \/ DeleteUnlink(p) \/ DeleteUnlock(p) \/ FreeLock(p) \/ FreeHead(p) \/ FreeWalk(p) \/ FreeUnlink(p) \/ FreeUnlock(p) \/ StoreReadHead(p) \/ StoreWriteDat(p) \/ StoreWriteIdx(p) \/ StoreWritePtr(p) \/ Overwrite(p) \/ NextrecReadDat(p)
    BY <1>7 DEF Create, Initialize, Open, db_close, db_rewind, ReadHead, Walk, ReadDat, DeleteLock, DeleteBlank, DeleteReadFree, DeleteWriteIdx, DeleteWriteFree, DeleteUnlink, DeleteUnlock, FreeLock, FreeHead, FreeWalk, FreeUnlink, FreeUnlock, StoreReadHead, StoreWriteDat, StoreWriteIdx, StoreWritePtr, Overwrite, NextrecReadDat
  <1> QED BY <1>1, <1>2, <1>3, <1>4, <1>5, <1>6, <1>7 DEF Step

\* What a step of p does to the locks leaves those of others alone.
OthersHold(p) ==
  \A q \in Proc \ {p}, l \in Lock : /\ q \in readers[l] => q \in readers'[l]
                                    /\ q \in writer[l] => q \in writer'[l]

\* What readw_lock does, ...
LEMMA ReadLocks ==
  ASSUME LocksType, LocksExclude, NEW p \in Proc, NEW l \in Lock, readw_lock(p, l)
  PROVE  /\ LocksType' /\ LocksExclude' /\ OthersHold(p)
         /\ p \in readers'[l] /\ \A m \in Lock : p \in writer[m] => p \in writer'[m]
  <1>1. readers' = [readers EXCEPT ![l] = @ \cup {p}] /\ writer' = writer /\ writer[l] = {}
    BY DEF readw_lock
  <1>2. \A m \in Lock : readers'[m] = IF m = l THEN readers[l] \cup {p} ELSE readers[m]
    BY <1>1 DEF LocksType
  <1> QED BY <1>1, <1>2 DEF LocksType, LocksExclude, OthersHold

\* ... writew_lock ...
LEMMA WriteLocks ==
  ASSUME LocksType, LocksExclude, NEW p \in Proc, NEW l \in Lock, writew_lock(p, l)
  PROVE  /\ LocksType' /\ LocksExclude' /\ OthersHold(p)
         /\ p \in writer'[l] /\ \A m \in Lock : p \in writer[m] => p \in writer'[m]
  <1>1. writer' = [writer EXCEPT ![l] = {p}] /\ readers' = readers /\ readers[l] = {} /\ writer[l] = {}
    BY DEF writew_lock
  <1>2. \A m \in Lock : writer'[m] = IF m = l THEN {p} ELSE writer[m]
    BY <1>1 DEF LocksType
  <1> QED BY <1>1, <1>2 DEF LocksType, LocksExclude, OthersHold

\* ... and un_lock.
LEMMA UnLocks ==
  ASSUME LocksType, LocksExclude, NEW p \in Proc, NEW l \in Lock, un_lock(p, l)
  PROVE  /\ LocksType' /\ LocksExclude' /\ OthersHold(p)
         /\ \A m \in Lock \ {l} : p \in writer[m] => p \in writer'[m]
  <1>1. /\ readers' = [readers EXCEPT ![l] = readers[l] \ {p}]
        /\ writer' = [writer EXCEPT ![l] = writer[l] \ {p}]
    BY DEF un_lock
  <1>2. \A m \in Lock : /\ readers'[m] = IF m = l THEN readers[l] \ {p} ELSE readers[m]
                        /\ writer'[m] = IF m = l THEN writer[l] \ {p} ELSE writer[m]
    BY <1>1 DEF LocksType
  <1>3. LocksType'
    BY <1>1 DEF LocksType
  <1>4. \A m \in Lock : readers'[m] \subseteq readers[m] /\ writer'[m] \subseteq writer[m]
    BY <1>2
  <1>5. LocksExclude'
    BY <1>4 DEF LocksExclude
  <1>6. OthersHold(p)
    BY <1>2 DEF OthersHold
  <1> QED BY <1>2, <1>3, <1>5, <1>6

\* A step keeps the locks exclusive and takes none from another process.
LEMMA LocksStep ==
  ASSUME LocksType, LocksExclude, NEW p \in Proc, Asked(p), Step(p)
  PROVE  LocksType' /\ LocksExclude' /\ OthersHold(p)
  <1>a. FREE_OFF \in Lock /\ \A k \in Key : Hash[k] \in Lock
    BY DEF Lock
  <1>1. CASE db_fetch(p) \/ db_delete(p) \/ db_store(p)
    <2>1. PICK r : FindAndLock(p, r) /\ Call(r)
      BY <1>1, Calls
    <2>2. readw_lock(p, Hash[r.key]) \/ writew_lock(p, Hash[r.key])
      BY <2>1 DEF FindAndLock, LocksChain
    <2>3. Hash[r.key] \in Lock
      BY <2>1, <1>a DEF Call
    <2> QED BY <2>2, <2>3, ReadLocks, WriteLocks
  <1>2. CASE Unlock(p)
    <2>1. un_lock(p, chain(p)) /\ At(p, "unlock")
      BY <1>2 DEF Unlock
    <2>2. chain(p) \in Lock
      BY <2>1, <1>a DEF chain, Asked, At, ChainLabel
    <2> QED BY <2>1, <2>2, UnLocks
  <1>3. CASE DeleteLock(p) \/ FreeLock(p)
    BY <1>3, <1>a, WriteLocks DEF DeleteLock, FreeLock
  <1>4. CASE DeleteUnlock(p) \/ FreeUnlock(p) \/ NextrecUnlock(p)
    BY <1>4, <1>a, UnLocks DEF DeleteUnlock, FreeUnlock, NextrecUnlock
  <1>5. CASE db_nextrec(p)
    BY <1>5, <1>a, ReadLocks DEF db_nextrec, NextrecLocks
  <1>6. CASE Dump(p)
    <2>1. /\ readers' = [l \in Lock |-> readers[l] \ {p}]
          /\ writer' = [l \in Lock |-> writer[l] \ {p}]
      BY <1>6 DEF Dump
    <2> QED BY <2>1 DEF LocksType, LocksExclude, OthersHold
  <1>7. CASE Create(p) \/ Initialize(p) \/ Open(p) \/ db_close(p) \/ db_rewind(p) \/ ReadHead(p) \/ Walk(p) \/ ReadDat(p) \/ DeleteBlank(p) \/ DeleteReadFree(p) \/ DeleteWriteIdx(p) \/ DeleteWriteFree(p) \/ DeleteUnlink(p) \/ FreeHead(p) \/ FreeWalk(p) \/ FreeUnlink(p) \/ StoreReadHead(p) \/ StoreWriteDat(p) \/ StoreWriteIdx(p) \/ StoreWritePtr(p) \/ Overwrite(p) \/ NextrecReadIdx(p) \/ NextrecReadDat(p)
    <2>1. readers' = readers /\ writer' = writer
      BY <1>7 DEF Create, Initialize, Open, db_close, db_rewind, ReadHead, Walk, ReadDat, DeleteBlank, DeleteReadFree, DeleteWriteIdx, DeleteWriteFree, DeleteUnlink, FreeHead, FreeWalk, FreeUnlink, StoreReadHead, StoreWriteDat, StoreWriteIdx, StoreWritePtr, Overwrite, NextrecReadIdx, NextrecReadDat, locks
    <2> QED BY <2>1 DEF LocksType, LocksExclude, OthersHold
  <1> QED BY <1>1, <1>2, <1>3, <1>4, <1>5, <1>6, <1>7 DEF Step

\* The labels a call passes through are its own.
LEMMA AskedStep ==
  ASSUME TypeInv, NEW p \in Proc, Asked(p), Step(p)
  PROVE  Asked(p)'
  <1> USE DEF Asked, At, Goto, TypeInv, ChainLabel, DeleteLabel, StoreLabel, FindFree, Blanking, Linking
  <1>1. CASE db_fetch(p) \/ db_delete(p) \/ db_store(p)
    <2>1. PICK r : FindAndLock(p, r) /\ Call(r)
      BY <1>1, Calls
    <2>2. req'[p] = r /\ pc'[p] = "head"
      BY <2>1 DEF FindAndLock
    <2> QED BY <2>1, <2>2 DEF Call
  <1>2. CASE ReadHead(p)
    <2>1. Walks(p, ptr[chain(p)]) /\ req' = req /\ pc[p] = "head"
      BY <1>2 DEF ReadHead
    <2> QED BY <2>1, WalksGoes
  <1>3. CASE Walk(p)
    <2>1. (Found(p, h[p].offset) \/ Walks(p, ptr[h[p].offset])) /\ req' = req /\ pc[p] = "walk"
      BY <1>3 DEF Walk
    <2>2. CASE Found(p, h[p].offset)
      BY <2>1, <2>2, FoundGoes
    <2>3. CASE Walks(p, ptr[h[p].offset])
      BY <2>1, <2>3, WalksGoes
    <2> QED BY <2>1, <2>2, <2>3
  <1>4. CASE Create(p)
    BY <1>4 DEF Create
  <1>5. CASE Initialize(p)
    BY <1>5 DEF Initialize
  <1>6. CASE Open(p)
    BY <1>6 DEF Open
  <1>7. CASE db_close(p)
    BY <1>7 DEF db_close
  <1>8. CASE db_rewind(p)
    BY <1>8 DEF db_rewind
  <1>9. CASE Dump(p)
    BY <1>9 DEF Dump
  <1>10. CASE ReadDat(p)
    BY <1>10 DEF ReadDat
  <1>11. CASE Unlock(p)
    BY <1>11 DEF Unlock
  <1>12. CASE DeleteLock(p)
    BY <1>12 DEF DeleteLock
  <1>13. CASE DeleteBlank(p)
    BY <1>13 DEF DeleteBlank
  <1>14. CASE DeleteReadFree(p)
    BY <1>14 DEF DeleteReadFree
  <1>15. CASE DeleteWriteIdx(p)
    BY <1>15 DEF DeleteWriteIdx
  <1>16. CASE DeleteWriteFree(p)
    BY <1>16 DEF DeleteWriteFree
  <1>17. CASE DeleteUnlink(p)
    BY <1>17 DEF DeleteUnlink
  <1>18. CASE DeleteUnlock(p)
    BY <1>18 DEF DeleteUnlock
  <1>19. CASE FreeLock(p)
    BY <1>19 DEF FreeLock
  <1>20. CASE FreeHead(p)
    BY <1>20 DEF FreeHead, WalksFree
  <1>21. CASE FreeWalk(p)
    BY <1>21 DEF FreeWalk, WalksFree
  <1>22. CASE FreeUnlink(p)
    BY <1>22 DEF FreeUnlink
  <1>23. CASE FreeUnlock(p)
    BY <1>23 DEF FreeUnlock
  <1>24. CASE StoreReadHead(p)
    BY <1>24 DEF StoreReadHead
  <1>25. CASE StoreWriteDat(p)
    BY <1>25 DEF StoreWriteDat
  <1>26. CASE StoreWriteIdx(p)
    BY <1>26 DEF StoreWriteIdx
  <1>27. CASE StoreWritePtr(p)
    BY <1>27 DEF StoreWritePtr
  <1>28. CASE Overwrite(p)
    BY <1>28 DEF Overwrite
  <1>29. CASE db_nextrec(p)
    BY <1>29 DEF db_nextrec
  <1>30. CASE NextrecReadIdx(p)
    BY <1>30 DEF NextrecReadIdx
  <1>31. CASE NextrecReadDat(p)
    BY <1>31 DEF NextrecReadDat
  <1>32. CASE NextrecUnlock(p)
    BY <1>32 DEF NextrecUnlock
  <1> QED BY <1>1, <1>2, <1>3, <1>4, <1>5, <1>6, <1>7, <1>8, <1>9, <1>10, <1>11, <1>12, <1>13, <1>14, <1>15, <1>16, <1>17, <1>18, <1>19, <1>20, <1>21, <1>22, <1>23, <1>24, <1>25, <1>26, <1>27, <1>28, <1>29, <1>30, <1>31, <1>32 DEF Step

\* Every step leaves p with the locks its next label stands for.
LEMMA HoldsStep ==
  ASSUME TypeInv, LocksExclude, NEW p \in Proc, Asked(p), HoldsLocks(p), Step(p)
  PROVE  HoldsLocks(p)'
  <1> USE LabelIs DEF At, Goto, TypeInv
  <1>a. FREE_OFF \in Lock /\ FREE_OFF \notin Chain /\ \A k \in Key : Hash[k] \in Lock \ {FREE_OFF}
    BY DEF Lock
  <1>b. pc[p] \in ChainLabel => chain(p) \in Lock \ {FREE_OFF}
    BY <1>a DEF Asked, chain
  <1>c. /\ FreeLabel \cap {"head", "walk", "readdat", "unlock", "overwrite", "dl_lock", "ff_lock",
                           "st_head", "st_rehead", "st_dat", "st_idx", "st_ptr"} = {}
        /\ ScanLabel \cap ChainLabel = {}
        /\ FreeLabel \subseteq ChainLabel
    BY DEF ChainLabel, FreeLabel, ScanLabel, DeleteLabel, StoreLabel, FindFree, Blanking, Linking
  <1>1. CASE db_fetch(p) \/ db_delete(p) \/ db_store(p)
    <2>1. PICK r : FindAndLock(p, r) /\ Call(r)
      BY <1>1, Calls
    <2>2. req'[p] = r /\ pc'[p] = "head" /\ LocksChain(p, r)
      BY <2>1 DEF FindAndLock
    <2>3. Hash[r.key] \in Lock
      BY <2>1, <1>a DEF Call
    <2>4. IF r.op = "fetch" THEN p \in readers'[Hash[r.key]] ELSE p \in writer'[Hash[r.key]]
      BY <2>2, <2>3, ReadLocks, WriteLocks DEF LocksChain
    <2>5. "head" \notin FreeLabel /\ "head" \notin ScanLabel
      BY DEF FreeLabel, ScanLabel, DeleteLabel, FindFree, Blanking, Linking
    <2> QED BY <2>2, <2>4, <2>5 DEF HoldsLocks, chain
  <1>2. CASE Unlock(p) \/ NextrecUnlock(p) \/ Dump(p)
    <2>1. pc'[p] \in {"idle", "dumped"}
      BY <1>2 DEF Unlock, NextrecUnlock, Dump
    <2>2. pc'[p] \notin ChainLabel /\ pc'[p] \notin FreeLabel /\ pc'[p] \notin ScanLabel
      BY <2>1 DEF ChainLabel, FreeLabel, ScanLabel, DeleteLabel, StoreLabel, FindFree, Blanking, Linking
    <2> QED BY <2>2 DEF HoldsLocks
  <1>3. CASE DeleteLock(p) \/ FreeLock(p)
    <2>1. writew_lock(p, FREE_OFF) /\ req' = req /\ pc[p] \in {"dl_lock", "ff_lock"}
      BY <1>3 DEF DeleteLock, FreeLock
    <2>2. pc'[p] \in {"dl_blank", "ff_head"}
      BY <1>3 DEF DeleteLock, FreeLock
    <2>3. pc[p] \in ChainLabel /\ req[p].op # "fetch"
      BY <2>1 DEF ChainLabel, DeleteLabel, StoreLabel, FindFree, Asked
    <2>4. p \in writer'[FREE_OFF] /\ p \in writer'[chain(p)]
      BY <2>1, <2>3, <1>a, <1>b, WriteLocks DEF HoldsLocks
    <2>5. pc'[p] \notin ScanLabel
      BY <2>2 DEF ScanLabel
    <2> QED BY <2>1, <2>3, <2>4, <2>5 DEF HoldsLocks, chain
  <1>4. CASE DeleteUnlock(p) \/ FreeUnlock(p)
    <2>1. un_lock(p, FREE_OFF) /\ req' = req /\ pc[p] \in {"dl_unlock", "ff_unlock"}
      BY <1>4 DEF DeleteUnlock, FreeUnlock
    <2>2. pc'[p] \in {"unlock", "st_rehead", "st_dat"}
      BY <1>4 DEF DeleteUnlock, FreeUnlock
    <2>3. pc[p] \in ChainLabel /\ req[p].op # "fetch"
      BY <2>1 DEF ChainLabel, DeleteLabel, StoreLabel, FindFree, Asked
    <2>4. p \in writer'[chain(p)]
      BY <2>1, <2>3, <1>a, <1>b, UnLocks DEF HoldsLocks
    <2>5. pc'[p] \notin ScanLabel /\ pc'[p] \notin FreeLabel
      BY <2>2 DEF ScanLabel, FreeLabel, DeleteLabel, FindFree, Blanking, Linking
    <2> QED BY <2>1, <2>3, <2>4, <2>5 DEF HoldsLocks, chain
  <1>5. CASE db_nextrec(p)
    <2>1. pc'[p] = "nr_idx" /\ p \in readers'[FREE_OFF]
      BY <1>5, <1>a, ReadLocks DEF db_nextrec, NextrecLocks
    <2>2. "nr_idx" \in ScanLabel
      BY DEF ScanLabel
    <2> QED BY <2>1, <2>2, <1>c DEF HoldsLocks
  <1>6. CASE NextrecReadIdx(p) \/ NextrecReadDat(p)
    <2>1. locks' = locks /\ pc[p] \in ScanLabel /\ pc'[p] \in ScanLabel
      BY <1>6 DEF NextrecReadIdx, NextrecReadDat, ScanLabel
    <2> QED BY <2>1, <1>c DEF HoldsLocks, locks
  <1>7. CASE Create(p) \/ Initialize(p) \/ Open(p) \/ db_close(p) \/ db_rewind(p)
    <2>1. pc'[p] \in {"closed", "creating", "idle"}
      BY <1>7 DEF Create, Initialize, Open, db_close, db_rewind
    <2>2. pc'[p] \notin ChainLabel /\ pc'[p] \notin FreeLabel /\ pc'[p] \notin ScanLabel
      BY <2>1 DEF ChainLabel, FreeLabel, ScanLabel, DeleteLabel, StoreLabel, FindFree, Blanking, Linking
    <2> QED BY <2>2 DEF HoldsLocks
  <1> DEFINE Stays == /\ pc[p] \in ChainLabel /\ pc'[p] \in ChainLabel /\ locks' = locks /\ req' = req
                      /\ pc'[p] \in FreeLabel => pc[p] \in FreeLabel
  <1>8. ASSUME Stays PROVE HoldsLocks(p)'
    BY <1>8, <1>c DEF HoldsLocks, locks, chain
  <1> USE DEF ChainLabel, FreeLabel, DeleteLabel, StoreLabel, FindFree, Blanking, Linking
  <1>9. CASE ReadHead(p)
    <2>1. Walks(p, ptr[chain(p)]) /\ locks' = locks /\ req' = req /\ pc[p] = "head"
      BY <1>9 DEF ReadHead
    <2> QED BY <2>1, <1>8, WalksGoes
  <1>10. CASE Walk(p)
    <2>1. /\ Found(p, h[p].offset) \/ Walks(p, ptr[h[p].offset])
          /\ locks' = locks /\ req' = req /\ pc[p] = "walk"
      BY <1>10 DEF Walk
    <2>2. CASE Found(p, h[p].offset)
      BY <2>1, <2>2, <1>8, FoundGoes DEF Asked
    <2>3. CASE Walks(p, ptr[h[p].offset])
      BY <2>1, <2>3, <1>8, WalksGoes
    <2> QED BY <2>1, <2>2, <2>3
  <1>11. CASE ReadDat(p)
    BY <1>11, <1>8 DEF ReadDat
  <1>12. CASE DeleteBlank(p)
    BY <1>12, <1>8 DEF DeleteBlank
  <1>13. CASE DeleteReadFree(p)
    BY <1>13, <1>8 DEF DeleteReadFree
  <1>14. CASE DeleteWriteIdx(p)
    BY <1>14, <1>8 DEF DeleteWriteIdx
  <1>15. CASE DeleteWriteFree(p)
    BY <1>15, <1>8 DEF DeleteWriteFree
  <1>16. CASE DeleteUnlink(p)
    BY <1>16, <1>8 DEF DeleteUnlink
  <1>17. CASE FreeHead(p)
    BY <1>17, <1>8 DEF FreeHead, WalksFree
  <1>18. CASE FreeWalk(p)
    BY <1>18, <1>8 DEF FreeWalk, WalksFree
  <1>19. CASE FreeUnlink(p)
    BY <1>19, <1>8 DEF FreeUnlink
  <1>20. CASE StoreReadHead(p)
    BY <1>20, <1>8 DEF StoreReadHead
  <1>21. CASE StoreWriteDat(p)
    BY <1>21, <1>8 DEF StoreWriteDat
  <1>22. CASE StoreWriteIdx(p)
    BY <1>22, <1>8 DEF StoreWriteIdx
  <1>23. CASE StoreWritePtr(p)
    BY <1>23, <1>8 DEF StoreWritePtr
  <1>24. CASE Overwrite(p)
    BY <1>24, <1>8 DEF Overwrite
  <1> QED BY <1>1, <1>2, <1>3, <1>4, <1>5, <1>6, <1>7, <1>9, <1>10, <1>11, <1>12, <1>13, <1>14, <1>15, <1>16, <1>17, <1>18, <1>19, <1>20, <1>21, <1>22, <1>23, <1>24 DEF Step

-----------------------------------------------------------------------------
(* Types and room                                                            *)

\* A db_store in progress has room for its record.
LEMMA RoomToAppend ==
  ASSUME TypeInv, RoomInv, NEW p \in Appending
  PROVE  Len(idx) < MaxRec
  <1>1. Appending \in SUBSET Proc
    BY DEF Appending
  <1>2. IsFiniteSet(Appending)
    BY <1>1, FS_Subset
  <1>3. Cardinality(Appending) \in Nat /\ Cardinality(Appending) # 0
    BY <1>2, FS_CardinalityType, FS_EmptySet
  <1>4. Len(idx) \in Nat
    BY DEF TypeInv, FilesType
  <1> QED BY <1>3, <1>4 DEF RoomInv

\* The files that a step leaves, when it writes to them.
LEMMA FilesStep ==
  ASSUME TypeInv, RoomInv, NEW p \in Proc, Asked(p), Whereabouts(p), Step(p)
  PROVE  FilesType' /\ Len(idx) <= Len(idx') /\ Len(dat) <= Len(dat')
  <1> USE DEF At
  <1>t. /\ Len(idx) \in Nat /\ Len(dat) \in Nat /\ h[p] \in Handles
        /\ idx \in Seq(IndexRecord) /\ dat \in Seq(Data \cup {Blank}) /\ ptr \in [Place -> 0 .. Len(idx)]
    BY DEF TypeInv, FilesType
  <1>r. FilesType
    BY DEF TypeInv
  <1>h. /\ h[p].offset \in 0 .. Len(idx) /\ h[p].ptrval \in 0 .. Len(idx) /\ h[p].save \in 0 .. Len(idx)
        /\ h[p].idxoff \in 0 .. Len(idx) /\ h[p].datoff \in 0 .. Len(dat)
    BY <1>t DEF Handles, HandlesOf
  <1> DEFINE Good == FilesType' /\ Len(idx) <= Len(idx') /\ Len(dat) <= Len(dat')
  <1>d. ASSUME NEW d \in 1 .. Len(dat), NEW x \in Data \cup {Blank}, dat' = [dat EXCEPT ![d] = x],
               UNCHANGED <<file, ptr, idx>>
        PROVE  Good
    <2>1. dat' \in Seq(Data \cup {Blank}) /\ Len(dat') = Len(dat)
      BY <1>d, <1>t, ExceptSeq
    <2> QED BY <2>1, <1>d, <1>r, <1>t DEF FilesType, Rec
  <1>p. ASSUME NEW l, NEW v \in 0 .. Len(idx), ptr' = [ptr EXCEPT ![l] = v], UNCHANGED <<file, dat, idx>>
        PROVE  Good
    <2>1. ptr' \in [Place -> 0 .. Len(idx)]
      BY <1>p, <1>t
    <2> QED BY <2>1, <1>p, <1>r, <1>t DEF FilesType, Rec
  <1>u. ASSUME UNCHANGED <<ptr, idx, dat>>, file' \in {"absent", "truncated", "ready"} PROVE Good
    BY <1>u, <1>r, <1>t DEF FilesType, Rec
  <1>o. \A i \in Rec : idx[i].datoff \in 1 .. Len(dat) /\ idx[i] \in IndexRecord
    BY <1>r DEF FilesType, Rec
  <1>1. CASE DeleteBlank(p)
    <2>1. dat' = [dat EXCEPT ![h[p].datoff] = Blank] /\ UNCHANGED <<file, ptr, idx>> /\ At(p, "dl_blank")
      BY <1>1 DEF DeleteBlank
    <2>2. h[p].datoff \in 1 .. Len(dat)
      BY <2>1, <1>o DEF Whereabouts, Blanking
    <2> QED BY <2>1, <2>2, <1>d
  <1>2. CASE DeleteWriteIdx(p)
    <2> DEFINE i == h[p].idxoff
               r == [idx[i] EXCEPT !.key = Blank]
    <2>1. i \in Rec
      BY <1>2 DEF DeleteWriteIdx, Whereabouts, Blanking
    <2>2. /\ idx' = [idx EXCEPT ![i] = r]
          /\ ptr' = [ptr EXCEPT ![i] = h[p].offset]
          /\ UNCHANGED <<file, dat>>
      BY <1>2 DEF DeleteWriteIdx
    <2>3. r \in IndexRecord /\ r.datoff = idx[i].datoff
      BY <2>1, <1>o DEF IndexRecord
    <2> HIDE DEF i, r
    <2>5. /\ idx' \in Seq(IndexRecord) /\ Len(idx') = Len(idx)
          /\ \A j \in Rec : idx'[j] = IF j = i THEN r ELSE idx[j]
      BY <2>1, <2>2, <2>3, <1>t, ExceptSeq DEF Rec
    <2>6. \A j \in Rec : idx'[j].datoff \in 1 .. Len(dat)
      BY <2>1, <2>3, <2>5, <1>o
    <2>7. ptr' \in [Place -> 0 .. Len(idx)]
      BY <2>2, <1>h, <1>t
    <2> QED BY <2>2, <2>5, <2>6, <2>7, <1>r, <1>t DEF FilesType, Rec
  <1>3. CASE DeleteWriteFree(p)
    BY <1>3, <1>h, <1>p DEF DeleteWriteFree
  <1>4. CASE DeleteUnlink(p)
    BY <1>4, <1>h, <1>p DEF DeleteUnlink
  <1>5. CASE FreeUnlink(p)
    BY <1>5, <1>h, <1>p DEF FreeUnlink
  <1>6. CASE StoreWriteDat(p)
    <2>1. UNCHANGED <<file, ptr, idx>> /\ At(p, "st_dat")
      BY <1>6 DEF StoreWriteDat
    <2>2. req[p].data \in Data
      BY <2>1 DEF Asked, ChainLabel, StoreLabel
    <2>3. CASE h[p].offset = 0
      <3>1. dat' = Append(dat, req[p].data)
        BY <1>6, <2>3 DEF StoreWriteDat
      <3>2. dat' \in Seq(Data \cup {Blank}) /\ Len(dat') = Len(dat) + 1
        BY <2>2, <3>1, <1>t, AppendProperties
      <3> QED BY <2>1, <3>2, <1>r, <1>t DEF FilesType, Rec
    <2>4. CASE h[p].offset # 0
      <3>1. dat' = [dat EXCEPT ![h[p].datoff] = req[p].data]
        BY <1>6, <2>4 DEF StoreWriteDat
      <3>2. h[p].datoff \in 1 .. Len(dat)
        BY <2>1, <2>4, <1>o DEF Whereabouts
      <3> QED BY <2>1, <2>2, <3>1, <3>2, <1>d
    <2> QED BY <2>3, <2>4
  <1>7. CASE StoreWriteIdx(p)
    <2> DEFINE r == NewRecord(req[p], h[p].datoff)
    <2>1. At(p, "st_idx") /\ UNCHANGED <<file, dat>>
      BY <1>7 DEF StoreWriteIdx
    <2>2. req[p].op = "store" /\ req[p].key \in Key /\ req[p].data \in Data
      BY <2>1 DEF Asked, ChainLabel, StoreLabel
    <2>3. h[p].datoff \in 1 .. Len(dat)
      BY <2>1, <1>h DEF Whereabouts
    <2>4. r \in IndexRecord /\ r.datoff = h[p].datoff
      BY <2>2, <2>3 DEF NewRecord, IndexRecord
    <2> HIDE DEF r
    <2>5. CASE h[p].offset = 0
      <3>1. idx' = Append(idx, r) /\ ptr' = [ptr EXCEPT ![Len(idx) + 1] = h[p].save]
        BY <1>7, <2>5 DEF StoreWriteIdx, r
      <3>2. p \in Appending
        BY <2>1, <2>2 DEF Appending
      <3>3. Len(idx) + 1 <= MaxRec
        BY <3>2, <1>t, RoomToAppend
      <3>4. /\ idx' \in Seq(IndexRecord) /\ Len(idx') = Len(idx) + 1
            /\ \A i \in Rec : idx'[i] = idx[i]
            /\ idx'[Len(idx) + 1] = r
        BY <3>1, <2>4, <1>t, AppendProperties DEF Rec
      <3>5. \A i \in 1 .. Len(idx') : idx'[i].datoff \in 1 .. Len(dat)
        <4>1. \A i \in 1 .. Len(idx') : i \in Rec \/ i = Len(idx) + 1
          BY <3>4, <1>t DEF Rec
        <4> QED BY <4>1, <3>4, <2>3, <2>4, <1>o
      <3>6. ptr' \in [Place -> 0 .. Len(idx')]
        <4>1. 0 .. Len(idx) \subseteq 0 .. Len(idx')
          BY <3>4, <1>t
        <4>2. ptr \in [Place -> 0 .. Len(idx')] /\ h[p].save \in 0 .. Len(idx')
          BY <4>1, <1>h, <1>t
        <4> HIDE DEF Good
        <4> QED BY <3>1, <4>2
      <3> QED BY <3>3, <3>4, <3>5, <3>6, <2>1, <1>r, <1>t DEF FilesType, Rec
    <2>6. CASE h[p].offset # 0
      <3>0. h[p].idxoff \in Rec
        BY <2>1, <2>6 DEF Whereabouts
      <3>1. idx' = [idx EXCEPT ![h[p].idxoff] = r] /\ ptr' = [ptr EXCEPT ![h[p].idxoff] = h[p].save]
        BY <1>7, <2>6 DEF StoreWriteIdx, r
      <3>4. /\ idx' \in Seq(IndexRecord) /\ Len(idx') = Len(idx)
            /\ \A i \in Rec : idx'[i] = IF i = h[p].idxoff THEN r ELSE idx[i]
        BY <3>0, <3>1, <2>4, <1>t, ExceptSeq DEF Rec
      <3>5. \A i \in Rec : idx'[i].datoff \in 1 .. Len(dat)
        BY <3>4, <2>3, <2>4, <1>o
      <3>6. ptr' \in [Place -> 0 .. Len(idx)]
        BY <3>1, <1>h, <1>t
      <3>7. (\A i \in 1 .. Len(idx') : idx'[i].datoff \in 1 .. Len(dat')) /\ ptr' \in [Place -> 0 .. Len(idx')]
        BY <3>4, <3>5, <3>6, <2>1 DEF Rec
      <3> QED BY <3>4, <3>7, <2>1, <1>r, <1>t DEF FilesType, Rec
    <2> QED BY <2>5, <2>6
  <1>8. CASE StoreWritePtr(p)
    BY <1>8, <1>h, <1>p DEF StoreWritePtr
  <1>9. CASE Overwrite(p)
    <2>1. dat' = [dat EXCEPT ![h[p].datoff] = req[p].data] /\ UNCHANGED <<file, ptr, idx>> /\ At(p, "overwrite")
      BY <1>9 DEF Overwrite
    <2>2. req[p].data \in Data
      BY <2>1 DEF Asked, ChainLabel, StoreLabel
    <2>3. h[p].datoff \in 1 .. Len(dat)
      BY <2>1, <1>o DEF Whereabouts
    <2> QED BY <2>1, <2>2, <2>3, <1>d
  <1>10. CASE db_fetch(p) \/ db_delete(p) \/ db_store(p)
    <2>1. PICK r : FindAndLock(p, r)
      BY <1>10, Calls
    <2> QED BY <2>1, <1>r, <1>u DEF FindAndLock, files, FilesType
  <1>11. CASE Create(p) \/ Initialize(p)
    BY <1>11, <1>u DEF Create, Initialize
  <1>12. CASE Open(p) \/ db_close(p) \/ db_rewind(p) \/ Dump(p) \/ ReadHead(p) \/ Walk(p) \/ ReadDat(p) \/ Unlock(p) \/ DeleteLock(p) \/ DeleteReadFree(p) \/ DeleteUnlock(p) \/ FreeLock(p) \/ FreeHead(p) \/ FreeWalk(p) \/ FreeUnlock(p) \/ StoreReadHead(p) \/ db_nextrec(p) \/ NextrecReadIdx(p) \/ NextrecReadDat(p) \/ NextrecUnlock(p)
    BY <1>12, <1>r, <1>u DEF FilesType, Open, db_close, db_rewind, Dump, ReadHead, Walk, ReadDat, Unlock, DeleteLock, DeleteReadFree, DeleteUnlock, FreeLock, FreeHead, FreeWalk, FreeUnlock, StoreReadHead, db_nextrec, NextrecReadIdx, NextrecReadDat, NextrecUnlock, files
  <1> QED BY <1>1, <1>2, <1>3, <1>4, <1>5, <1>6, <1>7, <1>8, <1>9, <1>10, <1>11, <1>12 DEF Step

\* The DB structure of a process keeps its type.
LEMMA HandleStep ==
  ASSUME TypeInv, RoomInv, NEW p \in Proc, Asked(p), Whereabouts(p), Step(p)
  PROVE  h' = [h EXCEPT ![p] = h'[p]] /\ h'[p] \in Handles'
  <1> USE DEF At, Handle
  <1>g. Handles \subseteq Handles'
    <2>1. /\ Len(idx) \in Nat /\ Len(dat) \in Nat /\ Len(idx') \in Nat /\ Len(dat') \in Nat
          /\ Len(idx) <= Len(idx') /\ Len(dat) <= Len(dat')
      BY FilesStep DEF TypeInv, FilesType
    <2>2. 0 .. Len(idx) \subseteq 0 .. Len(idx') /\ 0 .. Len(dat) \subseteq 0 .. Len(dat')
      BY <2>1
    <2> QED BY <2>2 DEF Handles, HandlesOf
  <1>t. /\ Len(idx) \in Nat /\ Len(dat) \in Nat /\ ptr \in [Place -> 0 .. Len(idx)]
        /\ h \in [Proc -> Handles] /\ h[p] \in Handles
    BY DEF TypeInv, FilesType
  <1>o. \A i \in Rec : /\ idx[i].datoff \in 0 .. Len(dat) /\ idx[i].datlen \in Nat
                        /\ i \in 0 .. Len(idx) /\ i \in Place /\ ptr[i] \in 0 .. Len(idx)
    <2>1. \A i \in Rec : idx[i] \in IndexRecord /\ idx[i].datoff \in 1 .. Len(dat) /\ i \in 1 .. MaxRec
      BY DEF TypeInv, FilesType, Rec
    <2>2. \A i \in Rec : i \in Place
      BY <2>1 DEF Place
    <2> QED BY <2>1, <2>2, <1>t DEF IndexRecord, Rec
  <1>n. NoHandle \in Handles
    BY <1>t DEF NoHandle, Handles, HandlesOf
  <1>f. FREE_OFF \in Place /\ \A k \in Key : Hash[k] \in Place
    BY DEF Place, Lock
  <1>w. ASSUME NEW w \in Handles', h' = [h EXCEPT ![p] = w]
        PROVE  h' = [h EXCEPT ![p] = h'[p]] /\ h'[p] \in Handles'
    BY <1>w, <1>t
  <1>e. \A w \in Handles :
          /\ \A o \in 0 .. Len(idx) : [w EXCEPT !.offset = o] \in Handles
          /\ \A l \in Place : [w EXCEPT !.ptroff = l] \in Handles
          /\ \A o \in 0 .. Len(idx), l \in Place : [w EXCEPT !.ptroff = l, !.offset = o] \in Handles
          /\ \A o \in 0 .. Len(idx) : [w EXCEPT !.save = o] \in Handles
          /\ \A o, s \in 0 .. Len(idx) : [w EXCEPT !.save = s, !.offset = o] \in Handles
          /\ \A o, s \in 0 .. Len(idx) : [w EXCEPT !.offset = o, !.save = s] \in Handles
          /\ \A o \in 0 .. Len(idx) : [w EXCEPT !.ptrval = o] \in Handles
          /\ \A o \in 0 .. Len(dat) : [w EXCEPT !.datoff = o] \in Handles
          /\ w.offset \in 0 .. Len(idx) /\ w.ptrval \in 0 .. Len(idx)
    BY <1>t DEF Handles, HandlesOf
  <1>r. \A w \in Handles, i \in Rec : Reads(w, i) \in Handles
    BY <1>o, <1>t DEF Handles, HandlesOf, Reads
  <1>1. CASE db_fetch(p) \/ db_delete(p) \/ db_store(p)
    <2>1. PICK r : FindAndLock(p, r) /\ Call(r)
      BY <1>1, Calls
    <2>2. h' = [h EXCEPT ![p] = [NoHandle EXCEPT !.ptroff = Hash[r.key]]] /\ Hash[r.key] \in Place
      BY <2>1, <1>f DEF FindAndLock, Call
    <2> QED BY <2>2, <1>n, <1>e, <1>g, <1>w
  <1>2. CASE Dump(p) \/ Unlock(p) \/ NextrecUnlock(p)
    BY <1>2, <1>n, <1>g, <1>w DEF Dump, Unlock, NextrecUnlock
  <1>3. CASE ReadHead(p)
    <2>1. h' = [h EXCEPT ![p] = [h[p] EXCEPT !.offset = ptr[chain(p)]]] /\ pc[p] = "head"
      BY <1>3 DEF ReadHead
    <2>2. ptr[chain(p)] \in 0 .. Len(idx)
      BY <2>1, <1>f, <1>t DEF Asked, chain, ChainLabel
    <2> QED BY <2>1, <2>2, <1>t, <1>e, <1>g, <1>w
  <1>4. CASE Walk(p)
    <2> DEFINE i == h[p].offset
    <2>1. i \in Rec
      BY <1>4 DEF Walk, Whereabouts
    <2>2. \/ h' = [h EXCEPT ![p] = Reads(h[p], i)]
          \/ h' = [h EXCEPT ![p] = [Reads(h[p], i) EXCEPT !.ptroff = i, !.offset = ptr[i]]]
      BY <1>4 DEF Walk
    <2>3. Reads(h[p], i) \in Handles
      BY <2>1, <1>r, <1>t
    <2>4. i \in Place /\ ptr[i] \in 0 .. Len(idx)
      BY <2>1, <1>o
    <2> QED BY <2>2, <2>3, <2>4, <1>e, <1>g, <1>w
  <1>5. CASE DeleteReadFree(p)
    BY <1>5, <1>t, <1>f, <1>e, <1>g, <1>w DEF DeleteReadFree, Saves
  <1>6. CASE DeleteWriteIdx(p)
    BY <1>6, <1>t, <1>e, <1>g, <1>w DEF DeleteWriteIdx
  <1>7. CASE FreeHead(p)
    BY <1>7, <1>t, <1>f, <1>e, <1>g, <1>w DEF FreeHead, WalksFree
  <1>8. CASE FreeWalk(p)
    <2> DEFINE i == h[p].offset
    <2>1. i \in Rec
      BY <1>8 DEF FreeWalk, Whereabouts
    <2>2. \/ h' = [h EXCEPT ![p] = Reads(h[p], i)]
          \/ h' = [h EXCEPT ![p] = [h[p] EXCEPT !.ptroff = i, !.offset = ptr[i]]]
      BY <1>8 DEF FreeWalk, WalksFree
    <2>3. Reads(h[p], i) \in Handles
      BY <2>1, <1>r, <1>t
    <2>4. i \in Place /\ ptr[i] \in 0 .. Len(idx)
      BY <2>1, <1>o
    <2> QED BY <2>2, <2>3, <2>4, <1>t, <1>e, <1>g, <1>w
  <1>9. CASE StoreReadHead(p)
    <2>1. pc[p] \in StoreLabel
      BY <1>9 DEF StoreReadHead, StoreLabel
    <2>2. ptr[chain(p)] \in 0 .. Len(idx)
      BY <2>1, <1>f, <1>t DEF Asked, chain, ChainLabel
    <2>3. 0 \in 0 .. Len(idx)
      BY <1>t
    <2> QED BY <1>9, <2>2, <2>3, <1>t, <1>e, <1>g, <1>w DEF StoreReadHead, HeadAgain
  <1>10. CASE StoreWriteDat(p)
    <2>1. CASE h[p].offset = 0
      <3>1. dat' = Append(dat, req[p].data) /\ idx' = idx
            /\ h' = [h EXCEPT ![p] = [h[p] EXCEPT !.datoff = Len(dat) + 1]]
        BY <1>10, <2>1 DEF StoreWriteDat
      <3>2. req[p].data \in Data
        BY <1>10 DEF StoreWriteDat, Asked, ChainLabel, StoreLabel
      <3>3. Len(dat') = Len(dat) + 1
        BY <3>1, <3>2, AppendProperties DEF TypeInv, FilesType
      <3>4. [h[p] EXCEPT !.datoff = Len(dat) + 1] \in Handles'
        <4>1. Len(dat) + 1 \in 0 .. Len(dat')
          BY <3>3, <1>t
        <4> QED BY <4>1, <3>1, <1>t, <1>g DEF Handles, HandlesOf
      <3> QED BY <3>1, <3>4, <1>w
    <2>2. CASE h[p].offset # 0
      BY <1>10, <2>2, <1>t, <1>g DEF StoreWriteDat
    <2> QED BY <2>1, <2>2
  <1>11. CASE StoreWriteIdx(p)
    <2> DEFINE i == IF h[p].offset = 0 THEN Len(idx) + 1 ELSE h[p].idxoff
    <2>1. h' = [h EXCEPT ![p] = [h[p] EXCEPT !.idxoff = i]] /\ dat' = dat /\ At(p, "st_idx")
      BY <1>11 DEF StoreWriteIdx
    <2>2. i \in 0 .. Len(idx')
      <3>1. CASE h[p].offset = 0
        <4>1. idx' = Append(idx, NewRecord(req[p], h[p].datoff))
          BY <1>11, <3>1 DEF StoreWriteIdx
        <4>2. Len(idx') = Len(idx) + 1
          BY <4>1 DEF TypeInv, FilesType
        <4> QED BY <4>2, <3>1, <1>t
      <3>2. CASE h[p].offset # 0
        <4>1. idx' = [idx EXCEPT ![h[p].idxoff] = NewRecord(req[p], h[p].datoff)]
          BY <1>11, <3>2 DEF StoreWriteIdx
        <4>2. h[p].idxoff \in 0 .. Len(idx) /\ Len(idx) <= Len(idx') /\ Len(idx') \in Nat
          BY <1>t, FilesStep DEF Handles, HandlesOf, FilesType
        <4> QED BY <4>2, <3>2, <1>t
      <3> QED BY <3>1, <3>2
    <2>3. [h[p] EXCEPT !.idxoff = i] \in Handles'
      <3> HIDE DEF i
      <3> QED BY <2>2, <1>t, <1>g DEF Handles, HandlesOf
    <2> QED BY <2>1, <2>3, <1>w
  <1>12. CASE NextrecReadIdx(p)
    <2>1. \/ h' = h
          \/ scan[p] \in Rec /\ h' = [h EXCEPT ![p] = [NoHandle EXCEPT !.datoff = idx[scan[p]].datoff]]
      BY <1>12 DEF NextrecReadIdx
    <2>2. CASE h' = h
      BY <2>2, <1>t, <1>g
    <2>3. CASE scan[p] \in Rec /\ h' = [h EXCEPT ![p] = [NoHandle EXCEPT !.datoff = idx[scan[p]].datoff]]
      BY <2>3, <1>o, <1>n, <1>e, <1>g, <1>w
    <2> QED BY <2>1, <2>2, <2>3
  <1>13. CASE Create(p) \/ Initialize(p) \/ Open(p) \/ db_close(p) \/ db_rewind(p) \/ ReadDat(p) \/ DeleteLock(p) \/ DeleteBlank(p) \/ DeleteWriteFree(p) \/ DeleteUnlink(p) \/ DeleteUnlock(p) \/ FreeLock(p) \/ FreeUnlink(p) \/ FreeUnlock(p) \/ StoreWritePtr(p) \/ Overwrite(p) \/ db_nextrec(p) \/ NextrecReadDat(p)
    <2>1. h' = h
      BY <1>13 DEF Create, Initialize, Open, db_close, db_rewind, ReadDat, DeleteLock, DeleteBlank, DeleteWriteFree, DeleteUnlink, DeleteUnlock, FreeLock, FreeUnlink, FreeUnlock, StoreWritePtr, Overwrite, db_nextrec, NextrecReadDat
    <2> QED BY <2>1, <1>t, <1>g
  <1> QED BY <1>1, <1>2, <1>3, <1>4, <1>5, <1>6, <1>7, <1>8, <1>9, <1>10, <1>11, <1>12, <1>13 DEF Step

\* The file offset of db_nextrec is a record, or one past the last.
LEMMA ScanStep ==
  ASSUME TypeInv, NEW p \in Proc, Step(p)
  PROVE  scan' \in [Proc -> 0 .. MaxRec + 1]
  <1>t. scan \in [Proc -> 0 .. MaxRec + 1] /\ Len(idx) \in Nat /\ Len(idx) <= MaxRec
    BY DEF TypeInv, FilesType
  <1>1. CASE db_fetch(p) \/ db_delete(p) \/ db_store(p)
    <2>1. PICK r : FindAndLock(p, r)
      BY <1>1, Calls
    <2> QED BY <2>1, <1>t DEF FindAndLock
  <1>2. CASE Initialize(p) \/ Open(p) \/ db_close(p) \/ db_rewind(p)
    <2>1. scan' = [scan EXCEPT ![p] = 0] \/ scan' = [scan EXCEPT ![p] = 1]
      BY <1>2 DEF Initialize, Open, db_close, db_rewind
    <2>2. 0 \in 0 .. MaxRec + 1 /\ 1 \in 0 .. MaxRec + 1
      OBVIOUS
    <2> QED BY <2>1, <2>2, <1>t
  <1>3. CASE NextrecReadIdx(p)
    <2>1. \/ scan' = scan
          \/ scan[p] \in Rec /\ scan' = [scan EXCEPT ![p] = scan[p] + 1]
      BY <1>3 DEF NextrecReadIdx
    <2>2. scan[p] \in Rec => scan[p] + 1 \in 0 .. MaxRec + 1
      BY <1>t DEF Rec
    <2> QED BY <2>1, <2>2, <1>t
  <1>4. CASE Create(p) \/ Dump(p) \/ ReadHead(p) \/ Walk(p) \/ ReadDat(p) \/ Unlock(p) \/ DeleteLock(p) \/ DeleteBlank(p) \/ DeleteReadFree(p) \/ DeleteWriteIdx(p) \/ DeleteWriteFree(p) \/ DeleteUnlink(p) \/ DeleteUnlock(p) \/ FreeLock(p) \/ FreeHead(p) \/ FreeWalk(p) \/ FreeUnlink(p) \/ FreeUnlock(p) \/ StoreReadHead(p) \/ StoreWriteDat(p) \/ StoreWriteIdx(p) \/ StoreWritePtr(p) \/ Overwrite(p) \/ db_nextrec(p) \/ NextrecReadDat(p) \/ NextrecUnlock(p)
    <2>1. scan' = scan
      BY <1>4 DEF Create, Dump, ReadHead, Walk, ReadDat, Unlock, DeleteLock, DeleteBlank, DeleteReadFree, DeleteWriteIdx, DeleteWriteFree, DeleteUnlink, DeleteUnlock, FreeLock, FreeHead, FreeWalk, FreeUnlink, FreeUnlock, StoreReadHead, StoreWriteDat, StoreWriteIdx, StoreWritePtr, Overwrite, db_nextrec, NextrecReadDat, NextrecUnlock
    <2> QED BY <2>1, <1>t
  <1> QED BY <1>1, <1>2, <1>3, <1>4 DEF Step

\* A step keeps the types.
LEMMA TypeStep ==
  ASSUME TypeInv, RoomInv, LocksExclude, NEW p \in Proc, Asked(p), Whereabouts(p), Step(p)
  PROVE  TypeInv'
  <1>1. FilesType' /\ LocksType'
    BY FilesStep, LocksStep DEF TypeInv
  <1>2. scan' \in [Proc -> 0 .. MaxRec + 1] /\ pc' \in [Proc -> Label]
    BY ScanStep, Moves DEF TypeInv
  <1>3. req' = [q \in Proc |-> req'[q]]
    BY ReqMoves DEF TypeInv
  <1>4. h' \in [Proc -> Handles']
    <2>1. Handles \subseteq Handles'
      <3>1. /\ Len(idx) \in Nat /\ Len(dat) \in Nat /\ Len(idx') \in Nat /\ Len(dat') \in Nat
            /\ Len(idx) <= Len(idx') /\ Len(dat) <= Len(dat')
        BY FilesStep DEF TypeInv, FilesType
      <3>2. 0 .. Len(idx) \subseteq 0 .. Len(idx') /\ 0 .. Len(dat) \subseteq 0 .. Len(dat')
        BY <3>1
      <3> QED BY <3>2 DEF Handles, HandlesOf
    <2>2. h \in [Proc -> Handles]
      BY DEF TypeInv
    <2>3. h' = [h EXCEPT ![p] = h'[p]] /\ h'[p] \in Handles'
      BY HandleStep
    <2> QED BY <2>1, <2>2, <2>3
  <1> QED BY <1>1, <1>2, <1>3, <1>4 DEF TypeInv

\* A store that has appended its record is not counted any more.
LEMMA RoomStep ==
  ASSUME TypeInv, RoomInv, NEW p \in Proc, Asked(p), Whereabouts(p), Step(p)
  PROVE  RoomInv'
  <1>t. Len(idx) \in Nat /\ Appending \in SUBSET Proc
    BY DEF TypeInv, FilesType, Appending
  <1>f. IsFiniteSet(Appending) /\ Cardinality(Appending) \in Nat
    BY <1>t, FS_Subset, FS_CardinalityType
  <1>m. /\ pc' = [pc EXCEPT ![p] = pc'[p]] /\ pc \in [Proc -> Label]
        /\ req' = [req EXCEPT ![p] = req'[p]] /\ req = [q \in Proc |-> req[q]]
    BY Moves, ReqMoves DEF TypeInv
  <1>q. \A q \in Proc \ {p} : pc'[q] = pc[q] /\ req'[q] = req[q]
    BY <1>m
  <1>1. CASE db_fetch(p) \/ db_delete(p) \/ db_store(p)
    <2>1. PICK r : FindAndLock(p, r) /\ Call(r)
      BY <1>1, Calls
    <2>2. req'[p] = r /\ pc'[p] = "head" /\ idx' = idx
      BY <2>1, <1>m DEF FindAndLock, Goto, files
    <2>3. CASE r.op = "store"
      <3>1. Appending' \subseteq Storing \cup {p}
        BY <1>q DEF Appending, Storing
      <3>2. Storing \in SUBSET Proc /\ IsFiniteSet(Storing) /\ Cardinality(Storing) \in Nat
        BY FS_Subset, FS_CardinalityType DEF Storing
      <3>3. /\ IsFiniteSet(Storing \cup {p}) /\ Cardinality(Storing \cup {p}) \in Nat
            /\ Cardinality(Storing \cup {p}) <= Cardinality(Storing) + 1
        <4>1. /\ IsFiniteSet(Storing \cup {p})
              /\ Cardinality(Storing \cup {p}) = IF p \in Storing THEN Cardinality(Storing) ELSE Cardinality(Storing) + 1
          BY <3>2, FS_AddElement
        <4> QED BY <4>1, <3>2
      <3>4. Cardinality(Appending') <= Cardinality(Storing \cup {p}) /\ Cardinality(Appending') \in Nat
        BY <3>1, <3>3, FS_Subset, FS_CardinalityType
      <3>5. Len(idx) + Cardinality(Storing) < MaxRec
        BY <2>1, <2>3 DEF Call, Room
      <3> QED BY <2>2, <3>2, <3>3, <3>4, <3>5, <1>t DEF RoomInv
    <2>4. CASE r.op # "store"
      <3>1. Appending' \subseteq Appending
        BY <1>q, <2>2, <2>4 DEF Appending
      <3>2. Cardinality(Appending') <= Cardinality(Appending) /\ Cardinality(Appending') \in Nat
        BY <3>1, <1>f, FS_Subset, FS_CardinalityType
      <3> QED BY <2>2, <3>2, <1>f, <1>t DEF RoomInv
    <2> QED BY <2>3, <2>4
  <1>2. CASE StoreWriteIdx(p)
    <2>1. At(p, "st_idx") /\ pc'[p] = "st_ptr" /\ req[p].op = "store"
      BY <1>2, <1>m DEF StoreWriteIdx, Goto, At, Asked, StoreLabel
    <2>2. Appending' \subseteq Appending \ {p} /\ p \in Appending
      BY <2>1, <1>q DEF Appending, At
    <2>3. IsFiniteSet(Appending \ {p}) /\ Cardinality(Appending \ {p}) = Cardinality(Appending) - 1
      BY <2>2, <1>f, FS_RemoveElement
    <2>4. Cardinality(Appending') <= Cardinality(Appending \ {p}) /\ Cardinality(Appending') \in Nat
      BY <2>2, <2>3, FS_Subset, FS_CardinalityType
    <2>5. Len(idx') \in Nat /\ Len(idx') <= Len(idx) + 1
      <3> DEFINE r == NewRecord(req[p], h[p].datoff)
      <3>1. idx' = Append(idx, r) \/ idx' = [idx EXCEPT ![h[p].idxoff] = r]
        BY <1>2 DEF StoreWriteIdx
      <3> HIDE DEF r
      <3> QED BY <3>1, <1>t, FilesStep DEF TypeInv, FilesType
    <2> QED BY <2>3, <2>4, <2>5, <1>f, <1>t DEF RoomInv
  <1>l. ASSUME Appending' \subseteq Appending, idx' = idx \/ Len(idx') = Len(idx) PROVE RoomInv'
    <2>1. Cardinality(Appending') <= Cardinality(Appending) /\ Cardinality(Appending') \in Nat
      BY <1>l, <1>f, FS_Subset, FS_CardinalityType
    <2>2. Len(idx') = Len(idx)
      BY <1>l
    <2> QED BY <2>1, <2>2, <1>f, <1>t DEF RoomInv
  <1>3. CASE Dump(p) \/ Unlock(p) \/ db_nextrec(p) \/ NextrecReadIdx(p) \/ NextrecUnlock(p)
    <2>1. idx' = idx
      BY <1>3 DEF Dump, Unlock, db_nextrec, NextrecReadIdx, NextrecUnlock, files
    <2>2. req'[p].op # "store" \/ (req'[p] = req[p] /\ pc[p] = "nr_idx")
      BY <1>3, <1>m DEF Dump, Unlock, db_nextrec, NextrecReadIdx, NextrecUnlock, NoReq, At
    <2>3. Appending' \subseteq Appending
      BY <1>q, <2>2 DEF Appending
    <2> QED BY <2>1, <2>3, <1>l
  <1>4. CASE StoreWritePtr(p)
    <2>1. idx' = idx /\ pc'[p] = "unlock"
      BY <1>4, <1>m DEF StoreWritePtr, Goto
    <2>2. Appending' \subseteq Appending
      BY <1>q, <2>1 DEF Appending
    <2> QED BY <2>1, <2>2, <1>l
  <1>5. CASE DeleteWriteIdx(p)
    <2>1. Len(idx') = Len(idx)
      BY <1>5 DEF DeleteWriteIdx, TypeInv, FilesType
    <2>2. req' = req /\ pc[p] = "dl_idx"
      BY <1>5 DEF DeleteWriteIdx, At
    <2>3. Appending' \subseteq Appending
      BY <1>q, <2>2 DEF Appending
    <2> QED BY <2>1, <2>3, <1>l
  <1>6. CASE Create(p) \/ Initialize(p) \/ Open(p) \/ db_close(p) \/ db_rewind(p) \/ ReadHead(p) \/ Walk(p) \/ ReadDat(p) \/ DeleteLock(p) \/ DeleteBlank(p) \/ DeleteReadFree(p) \/ DeleteWriteFree(p) \/ DeleteUnlink(p) \/ DeleteUnlock(p) \/ FreeLock(p) \/ FreeHead(p) \/ FreeWalk(p) \/ FreeUnlink(p) \/ FreeUnlock(p) \/ StoreReadHead(p) \/ StoreWriteDat(p) \/ Overwrite(p) \/ NextrecReadDat(p)
    <2>1. idx' = idx /\ req' = req /\ pc[p] \notin {"st_ptr", "unlock"}
      BY <1>6 DEF Create, Initialize, Open, db_close, db_rewind, ReadHead, Walk, ReadDat, DeleteLock, DeleteBlank, DeleteReadFree, DeleteWriteFree, DeleteUnlink, DeleteUnlock, FreeLock, FreeHead, FreeWalk, FreeUnlink, FreeUnlock, StoreReadHead, StoreWriteDat, Overwrite, NextrecReadDat, files, At
    <2>2. Appending' \subseteq Appending
      BY <1>q, <2>1 DEF Appending
    <2> QED BY <2>1, <2>2, <1>l
  <1> QED BY <1>1, <1>2, <1>3, <1>4, <1>5, <1>6 DEF Step

-----------------------------------------------------------------------------
(* Steps that write to no file                                               *)

\* What p knows says what its DB structure points to.
LEMMA Located ==
  ASSUME TypeInv, NEW p \in Proc, Asked(p), NEW on, NEW rank, Structure(on, rank), Knows(p, on, rank)
  PROVE  Whereabouts(p)
  <1>a. pc[p] \in ChainLabel => chain(p) \in Lock
    BY DEF Asked, chain, Lock
  <1>b. \A l \in Lock : on[l] \subseteq Rec
    BY DEF Structure
  <1>c. (\A i \in Rec : i \in Place) /\ \A l \in Lock : l \in Place
    BY DEF TypeInv, FilesType, Rec, Place
  <1>1. At(p, "walk") => h[p].offset \in Rec
    <2>1. "walk" \in ChainLabel
      BY DEF ChainLabel
    <2> QED BY <2>1, <1>a, <1>b DEF Knows, Walking, At
  <1>2. pc[p] \in {"readdat", "overwrite", "dl_lock"} \cup Blanking =>
          h[p].idxoff \in Rec /\ h[p].datoff = idx[h[p].idxoff].datoff
    <2>1. {"readdat", "overwrite", "dl_lock"} \cup Blanking \subseteq ChainLabel
      BY DEF ChainLabel, DeleteLabel, StoreLabel
    <2> QED BY <2>1, <1>a, <1>b DEF Knows, AtKey
  <1>3. pc[p] \in Linking => h[p].idxoff \in Rec
    <2>1. Linking \subseteq ChainLabel
      BY DEF ChainLabel, DeleteLabel
    <2> QED BY <2>1, <1>a, <1>b DEF Knows
  <1>4. pc[p] \in {"dl_lock"} \cup Blanking \cup Linking => h[p].ptroff \in Place
    <2>1. {"dl_lock"} \cup Blanking \cup Linking \subseteq ChainLabel
      BY DEF ChainLabel, DeleteLabel
    <2> QED BY <2>1, <1>a, <1>b, <1>c DEF Knows, Behind
  <1>5. pc[p] \in {"ff_walk", "ff_unlink"} => h[p].offset \in Rec /\ h[p].ptroff \in Place
    <2>1. FREE_OFF \in Lock
      BY DEF Lock
    <2> QED BY <2>1, <1>b, <1>c DEF Knows, WalkingFree
  <1>6. pc[p] \in {"ff_unlink", "ff_unlock", "st_dat", "st_idx"} /\ h[p].offset # 0 =>
          h[p].idxoff \in Rec /\ h[p].datoff = idx[h[p].idxoff].datoff
    BY DEF Knows, Reusing
  <1>7. (At(p, "st_idx") => h[p].datoff # 0) /\ (At(p, "st_ptr") => h[p].idxoff \in Rec)
    BY DEF Knows
  <1> QED BY <1>1, <1>2, <1>3, <1>4, <1>5, <1>6, <1>7 DEF Whereabouts

\* p moves, and no other process.
Only(p) == /\ pc' = [pc EXCEPT ![p] = pc'[p]] /\ h' = [h EXCEPT ![p] = h'[p]]
           /\ req' = [req EXCEPT ![p] = req'[p]]

\* A step of p changes the locals of p alone.
LEMMA OnlyMoves ==
  ASSUME TypeInv, RoomInv, NEW p \in Proc, Asked(p), Whereabouts(p), Step(p)
  PROVE  /\ Only(p)
         /\ \A q \in Proc \ {p} : pc'[q] = pc[q] /\ h'[q] = h[q] /\ req'[q] = req[q]
  <1>1. pc' = [pc EXCEPT ![p] = pc'[p]] /\ pc \in [Proc -> Label]
    BY Moves DEF TypeInv
  <1>2. h' = [h EXCEPT ![p] = h'[p]] /\ h \in [Proc -> Handles]
    BY HandleStep DEF TypeInv
  <1>3. req' = [req EXCEPT ![p] = req'[p]] /\ req = [q \in Proc |-> req[q]]
    BY ReqMoves DEF TypeInv
  <1> QED BY <1>1, <1>2, <1>3 DEF Only

\* A step of p that writes to no file and neither takes nor gives a record.
Quiet(p) ==
  /\ UNCHANGED <<ptr, idx, dat>>
  /\ \A q \in Proc \ {p} : pc'[q] = pc[q] /\ h'[q] = h[q] /\ req'[q] = req[q]
  /\ pc[p] \notin Linking /\ pc'[p] \notin Linking
  /\ InHand(p)' = InHand(p)
  /\ pc[p] \in {"dl_free", "dl_idx"} => pc'[p] \in {"dl_free", "dl_idx"} /\ h'[p].idxoff = h[p].idxoff
  /\ pc'[p] # "st_idx"

\* A quiet step changes no list, no key and nothing that others know.
LEMMA QuietKeeps ==
  ASSUME NEW p \in Proc, Quiet(p), NEW on, NEW rank, Placed(on, rank)
  PROVE  /\ ChainPtr' = ChainPtr /\ Structure(on, rank)' /\ Keys(on)' /\ Lengths'
         /\ \A q \in Proc \ {p} : Knows(q, on, rank)'
  <1>1. ptr' = ptr /\ idx' = idx /\ dat' = dat /\ Rec' = Rec
    BY DEF Quiet, Rec
  <1>2. \A q \in Proc \ {p} : pc'[q] = pc[q] /\ h'[q] = h[q] /\ req'[q] = req[q]
    BY DEF Quiet
  <1>3. pc[p] \notin {"dl_ptr", "dl_unlink"} /\ pc'[p] \notin {"dl_ptr", "dl_unlink"}
    BY DEF Quiet, Linking
  <1>4. \A i : Deleting(i)' = Deleting(i)
    BY <1>2, <1>3 DEF Deleting
  <1>5. ChainPtr' = ChainPtr
    <2>1. ASSUME NEW l \in Place
          PROVE  (IF l \in Rec /\ Deleting(l) # {} THEN h[Deleter(l)].save ELSE ptr[l])'
                  = IF l \in Rec /\ Deleting(l) # {} THEN h[Deleter(l)].save ELSE ptr[l]
      <3>1. CASE Deleting(l) = {}
        BY <3>1, <1>1, <1>4
      <3>2. CASE Deleting(l) # {}
        <4>1. Deleter(l) \in Deleting(l)
          BY <3>2 DEF Deleter
        <4>2. Deleter(l) \in Proc \ {p}
          BY <4>1, <1>3 DEF Deleting
        <4>3. Deleter(l)' = Deleter(l)
          BY <1>4 DEF Deleter
        <4>4. h'[Deleter(l)] = h[Deleter(l)]
          BY <4>2, <1>2
        <4> QED BY <4>3, <4>4, <1>1, <1>4
      <3> QED BY <3>1, <3>2
    <2>2. Place' = Place
      OBVIOUS
    <2> QED BY <2>1, <2>2 DEF ChainPtr
  <1>6. \A q \in Proc : InHand(q)' = InHand(q)
    BY <1>2 DEF Quiet, InHand
  <1>7. \A i : Unlinking(i) => Unlinking(i)'
    BY <1>2, <1>3 DEF Unlinking, At
  <1>8. Structure(on, rank)'
    <2>1. Structure(on, rank)
      BY DEF Placed
    <2>2. \A c \in Chain : IsList(ChainPtr, c, on[c], rank[c])'
      BY <2>1, <1>5 DEF Structure, IsList
    <2>3. IsList(ptr, FREE_OFF, on[FREE_OFF], rank[FREE_OFF])'
      BY <2>1, <1>1 DEF Structure, IsList
    <2>4. \A i \in Rec' : (\E l \in Lock : i \in on[l]) \/ (\E q \in Proc : i \in InHand(q)')
      BY <2>1, <1>1, <1>6 DEF Structure
    <2>5. \A q \in Proc, l \in Lock : InHand(q)' \cap on[l] = {}
      BY <2>1, <1>6 DEF Structure
    <2>6. \A q, r \in Proc : q # r => InHand(q)' \cap InHand(r)' = {}
      BY <2>1, <1>6 DEF Structure
    <2>7. /\ \A l \in Lock : on[l] \subseteq Rec'
          /\ \A c, d \in Chain : c # d => on[c] \cap on[d] = {}
          /\ \A c \in Chain : \A i \in on[c] \cap on[FREE_OFF] : Unlinking(i)'
      BY <2>1, <1>1, <1>7 DEF Structure
    <2> QED BY <2>2, <2>3, <2>4, <2>5, <2>6, <2>7 DEF Structure
  <1>9. Keys(on)'
    BY <1>1, <1>4 DEF Placed, Keys
  <1>10. Lengths'
    <2>1. \A q \in Proc : Appends(q)' => q # p /\ Appends(q) /\ h'[q] = h[q]
      BY <1>2 DEF Quiet, Appends, At
    <2>2. \A i \in Rec : (\E q \in Proc : pc[q] \in {"dl_free", "dl_idx"} /\ h[q].idxoff = i)
            => \E q \in Proc : pc'[q] \in {"dl_free", "dl_idx"} /\ h'[q].idxoff = i
      BY <1>2 DEF Quiet
    <2>3. Lengths
      BY DEF Placed
    <2>4. \A q, r \in Proc : Appends(q)' /\ Appends(r)' /\ h'[q].datoff = h'[r].datoff => q = r
      BY <2>1, <2>3 DEF Lengths
    <2> QED BY <2>2, <2>3, <2>4, <1>1 DEF Lengths
  <1>11. ASSUME NEW q \in Proc \ {p} PROVE Knows(q, on, rank)'
    <2>1. Knows(q, on, rank)
      BY DEF Placed
    <2>2. chain(q)' = chain(q) /\ pc'[q] = pc[q] /\ h'[q] = h[q] /\ req'[q] = req[q]
      BY <1>2 DEF chain
    <2> QED BY <2>1, <2>2, <1>1, <1>5 DEF Knows, Walking, AtKey, Behind, Absent, WalkingFree, Reusing,
                 Fits, Appends, At
  <1> QED BY <1>5, <1>8, <1>9, <1>10, <1>11

\* The invariant, for the lists on and their ranks.
Sound(on, rank) ==
  /\ TypeInv /\ RoomInv /\ LockInv
  /\ \A p \in Proc : Asked(p)
  /\ on \in [Lock -> SUBSET (1 .. MaxRec)] /\ rank \in [Lock -> [1 .. MaxRec -> Nat]]
  /\ Placed(on, rank)

\* A process that deletes or stores has its chain to itself.
LEMMA Apart ==
  ASSUME LockInv, NEW p \in Proc, NEW q \in Proc, p # q, Asked(p), Asked(q),
         pc[p] \in ChainLabel, pc[q] \in ChainLabel, req[q].op # "fetch"
  PROVE  chain(p) # chain(q)
  <1>1. chain(p) \in Lock /\ chain(q) \in Lock
    BY DEF Asked, chain, Lock
  <1>2. HoldsLocks(p) /\ HoldsLocks(q) /\ LocksExclude
    BY DEF LockInv
  <1> QED BY <1>1, <1>2 DEF HoldsLocks, LocksExclude

\* The free list is one process's.
LEMMA FreeApart ==
  ASSUME LockInv, NEW p \in Proc, NEW q \in Proc, p # q, pc[p] \in FreeLabel
  PROVE  pc[q] \notin FreeLabel \cup ScanLabel
  <1>1. HoldsLocks(p) /\ HoldsLocks(q) /\ LocksExclude /\ FREE_OFF \in Lock
    BY DEF LockInv, Lock
  <1> QED BY <1>1 DEF HoldsLocks, LocksExclude

\* A record that is being unlinked is on the chain of the process that does it.
LEMMA Linked ==
  ASSUME NEW on, NEW rank, Sound(on, rank), NEW q \in Proc, pc[q] \in Linking
  PROVE  /\ pc[q] \in ChainLabel /\ pc[q] \in FreeLabel /\ req[q].op # "fetch"
         /\ chain(q) \in Chain /\ h[q].idxoff \in on[chain(q)] /\ h[q].idxoff \in Rec
         /\ idx[h[q].idxoff].key = Blank
  <1>1. pc[q] \in ChainLabel /\ pc[q] \in FreeLabel /\ pc[q] \in DeleteLabel
    BY DEF ChainLabel, FreeLabel, DeleteLabel, Linking
  <1>2. Asked(q) /\ Knows(q, on, rank) /\ Structure(on, rank)
    BY DEF Sound, Placed
  <1>3. req[q].op # "fetch" /\ chain(q) \in Chain
    BY <1>1, <1>2 DEF Asked, chain
  <1> QED BY <1>1, <1>2, <1>3 DEF Knows, Structure, Lock

\* Of a chain that p has locked and is not unlinking from, the pointers are those of the file.
LEMMA ChainPtrAt ==
  ASSUME NEW on, NEW rank, Sound(on, rank), NEW p \in Proc, pc[p] \in ChainLabel \ Linking,
         NEW x \in on[chain(p)] \cup {chain(p)}
  PROVE  /\ chain(p) \in Chain /\ x \in Place /\ ChainPtr[x] = ptr[x]
         /\ on[chain(p)] \in SUBSET (1 .. MaxRec) /\ rank[chain(p)] \in [1 .. MaxRec -> Nat]
         /\ IsList(ChainPtr, chain(p), on[chain(p)], rank[chain(p)])
  <1>1. Asked(p) /\ Structure(on, rank) /\ LockInv
    BY DEF Sound, Placed
  <1>2. chain(p) \in Chain /\ chain(p) \in Lock
    BY <1>1 DEF Asked, chain, Lock
  <1>3. x \in Place
    BY <1>2 DEF Sound, Place
  <1>4. ASSUME x \in Rec, NEW q \in Deleting(x) PROVE FALSE
    <2>1. q \in Proc /\ pc[q] \in Linking /\ h[q].idxoff = x
      BY <1>4 DEF Deleting, Linking
    <2>2. /\ pc[q] \in ChainLabel /\ req[q].op # "fetch" /\ chain(q) \in Chain
          /\ x \in on[chain(q)]
      BY <2>1, Linked
    <2>3. chain(p) # chain(q)
      BY <2>1, <2>2, <1>1, Apart DEF Sound
    <2>4. x \in on[chain(p)]
      BY <1>2, <1>4 DEF Rec
    <2> QED BY <2>2, <2>3, <2>4, <1>1, <1>2 DEF Structure
  <1>5. ChainPtr[x] = ptr[x]
    BY <1>3, <1>4 DEF ChainPtr
  <1> QED BY <1>1, <1>2, <1>3, <1>5 DEF Sound, Structure

\* The labels a process has knowledge at.
KnowLabel == {"head", "walk", "readdat", "overwrite"} \cup DeleteLabel \cup StoreLabel

\* At the others it has none.
LEMMA Forgets ==
  ASSUME NEW p, pc'[p] \notin KnowLabel, NEW on, NEW rank
  PROVE  Knows(p, on, rank)'
  BY DEF Knows, KnowLabel, DeleteLabel, StoreLabel, Blanking, Linking, FindFree, At, Appends

\* A quiet step of p that leaves p with the knowledge its label stands for.
LEMMA Quietly ==
  ASSUME NEW on, NEW rank, Placed(on, rank), NEW p \in Proc, Quiet(p), Knows(p, on, rank)'
  PROVE  Placed(on, rank)'
  BY QuietKeeps DEF Placed

\* A step of p leaves the locals of the others.
LEMMA QuietMoves ==
  ASSUME NEW on, NEW rank, Sound(on, rank), NEW p \in Proc, Step(p)
  PROVE  /\ \A q \in Proc \ {p} : pc'[q] = pc[q] /\ h'[q] = h[q] /\ req'[q] = req[q]
         /\ p \in DOMAIN pc /\ p \in DOMAIN h /\ p \in DOMAIN req
  BY Located, OnlyMoves DEF Sound, Placed, TypeInv

-----------------------------------------------------------------------------
(* The steps that write to no file, one by one                               *)

\* The steps at whose end p knows nothing of the files.
LEMMA ForgetStep ==
  ASSUME NEW on, NEW rank, Sound(on, rank), NEW p \in Proc, Step(p),
         \/ Create(p) \/ Initialize(p) \/ Open(p) \/ db_close(p) \/ db_rewind(p) \/ Dump(p)
         \/ ReadDat(p) \/ Unlock(p)
         \/ db_nextrec(p) \/ NextrecReadIdx(p) \/ NextrecReadDat(p) \/ NextrecUnlock(p)
  PROVE  Placed(on, rank)'
  <1> DEFINE A == {"closed", "creating", "idle", "dumped", "head", "readdat", "unlock",
                   "nr_idx", "nr_dat", "nr_unlock"}
  <1>1. UNCHANGED <<ptr, idx, dat>> /\ pc[p] \in A /\ pc'[p] \in A \ {"head", "readdat"}
    <2> USE QuietMoves DEF At, Goto
    <2>1. CASE Create(p)
      BY <2>1 DEF Create
    <2>2. CASE Initialize(p)
      BY <2>2 DEF Initialize
    <2>3. CASE Open(p)
      BY <2>3 DEF Open, files
    <2>4. CASE db_close(p)
      BY <2>4 DEF db_close, files
    <2>5. CASE db_rewind(p)
      BY <2>5 DEF db_rewind, files
    <2>6. CASE Dump(p)
      BY <2>6 DEF Dump, files
    <2>8. CASE ReadDat(p)
      BY <2>8 DEF ReadDat, files
    <2>9. CASE Unlock(p)
      BY <2>9 DEF Unlock, files
    <2>10. CASE db_nextrec(p)
      BY <2>10 DEF db_nextrec, files
    <2>11. CASE NextrecReadIdx(p)
      BY <2>11 DEF NextrecReadIdx, files
    <2>12. CASE NextrecReadDat(p)
      BY <2>12 DEF NextrecReadDat, files
    <2>13. CASE NextrecUnlock(p)
      BY <2>13 DEF NextrecUnlock, files
    <2> QED BY <2>1, <2>2, <2>3, <2>4, <2>5, <2>6, <2>8, <2>9, <2>10, <2>11, <2>12, <2>13
  <1>2. Quiet(p)
    <2>1. InHand(p) = {} /\ InHand(p)' = {}
      BY <1>1 DEF InHand, At
    <2>2. pc[p] \notin Linking /\ pc'[p] \notin Linking
      BY <1>1 DEF Linking
    <2> QED BY <1>1, <2>1, <2>2, QuietMoves DEF Quiet
  <1>3. Knows(p, on, rank)'
    BY <1>1, Forgets DEF KnowLabel, DeleteLabel, StoreLabel, Blanking, Linking, FindFree
  <1> QED BY <1>2, <1>3, Quietly DEF Sound

\* The chain is locked: its process stands before the head.
LEMMA FindAndLockStep ==
  ASSUME NEW on, NEW rank, Sound(on, rank), NEW p \in Proc, Step(p),
         db_fetch(p) \/ db_delete(p) \/ db_store(p)
  PROVE  Placed(on, rank)'
  <1>1. PICK r : FindAndLock(p, r) /\ Call(r)
    BY Calls
  <1>2. /\ UNCHANGED <<ptr, idx, dat>> /\ pc[p] = "idle" /\ pc'[p] = "head"
        /\ h'[p] = [NoHandle EXCEPT !.ptroff = Hash[r.key]] /\ req'[p] = r
    BY <1>1, QuietMoves DEF FindAndLock, files, At, Goto, Handle
  <1>3. Quiet(p)
    <2>1. InHand(p) = {} /\ InHand(p)' = {}
      BY <1>2 DEF InHand, At
    <2> QED BY <1>2, <2>1, QuietMoves DEF Quiet, Linking
  <1>4. h'[p].ptroff = Hash[req'[p].key]
    BY <1>2 DEF NoHandle
  <1>5. Knows(p, on, rank)'
    BY <1>2, <1>4 DEF Knows, chain, At, Blanking, Linking, FindFree, StoreLabel, Appends
  <1> QED BY <1>3, <1>5, Quietly DEF Sound

\* p comes to the record after place x of its chain, or to the end.
LEMMA ComesTo ==
  ASSUME NEW on, NEW rank, Sound(on, rank), NEW p \in Proc, Quiet(p),
         pc[p] \in {"head", "walk"}, NEW x \in on[chain(p)] \cup {chain(p)},
         h'[p].offset = ptr[x], h'[p].ptroff = x, req'[p] = req[p],
         \A j \in on[chain(p)] : idx[j].key = req[p].key =>
           j \in After(on[chain(p)], rank[chain(p)], chain(p), x),
         \/ ptr[x] # 0 /\ pc'[p] = "walk"
         \/ ptr[x] = 0 /\ pc'[p] \in {"st_head", "unlock"}
  PROVE  Knows(p, on, rank)'
  <1> DEFINE c == chain(p)
  <1>1. pc[p] \in ChainLabel \ Linking
    BY DEF ChainLabel, Linking
  <1>2. x \in Place /\ ChainPtr[x] = ptr[x] /\ IsList(ChainPtr, c, on[c], rank[c])
    BY <1>1, ChainPtrAt
  <1>3. chain(p)' = c /\ idx' = idx /\ ptr' = ptr /\ Rec' = Rec /\ ChainPtr' = ChainPtr
    BY QuietKeeps DEF Quiet, chain, Sound, Rec
  <1>4. CASE ptr[x] # 0 /\ pc'[p] = "walk"
    <2>1. /\ ptr[x] \in After(on[c], rank[c], c, x)
          /\ \A k \in After(on[c], rank[c], c, x) : rank[c][k] <= rank[c][ptr[x]]
      BY <1>2, <1>4 DEF IsList
    <2>2. ptr[x] \in on[c]
      BY <2>1 DEF After
    <2>3. Walking(p, on, rank)'
      BY <1>2, <1>3, <2>1, <2>2 DEF Walking
    <2> QED BY <1>4, <2>3 DEF Knows, At, Blanking, Linking, FindFree, StoreLabel, Appends
  <1>5. CASE ptr[x] = 0 /\ pc'[p] \in {"st_head", "unlock"}
    <2>1. After(on[c], rank[c], c, x) = {}
      BY <1>2, <1>5 DEF IsList
    <2>2. Absent(p, on)'
      BY <1>3, <2>1 DEF Absent
    <2> QED BY <1>5, <2>2 DEF Knows, At, Blanking, Linking, FindFree, StoreLabel, Appends
  <1> QED BY <1>4, <1>5

\* The head of the chain is read.
LEMMA ReadHeadStep ==
  ASSUME NEW on, NEW rank, Sound(on, rank), NEW p \in Proc, Step(p), ReadHead(p)
  PROVE  Placed(on, rank)'
  <1> DEFINE c == chain(p)
  <1>1. /\ UNCHANGED <<ptr, idx, dat>> /\ req' = req /\ pc[p] = "head"
        /\ h'[p] = [h[p] EXCEPT !.offset = ptr[c]] /\ Walks(p, ptr[c])
    BY QuietMoves DEF ReadHead, files, At, Handle
  <1>2. \/ ptr[c] # 0 /\ pc'[p] = "walk"
        \/ ptr[c] = 0 /\ pc'[p] \in {"st_head", "unlock"}
    BY <1>1, WalksGoes, QuietMoves DEF Goto
  <1>3. Quiet(p)
    <2>1. InHand(p) = {} /\ InHand(p)' = {}
      BY <1>1, <1>2 DEF InHand, At
    <2> QED BY <1>1, <1>2, <2>1, QuietMoves DEF Quiet, Linking
  <1>4. h[p].ptroff = c /\ h[p] \in Handles
    BY <1>1 DEF Sound, Placed, Knows, At, TypeInv
  <1>5. h'[p].offset = ptr[c] /\ h'[p].ptroff = c
    BY <1>1, <1>4 DEF Handles, HandlesOf
  <1>6. Knows(p, on, rank)'
    BY <1>1, <1>2, <1>3, <1>5, ComesTo DEF After
  <1> QED BY <1>3, <1>6, Quietly DEF Sound

\* A record of the chain is read: it has the key, or the walk goes on.
LEMMA WalkStep ==
  ASSUME NEW on, NEW rank, Sound(on, rank), NEW p \in Proc, Step(p), Walk(p)
  PROVE  Placed(on, rank)'
  <1> DEFINE c == chain(p)
             i == h[p].offset
  <1>1. UNCHANGED <<ptr, idx, dat>> /\ req' = req /\ pc[p] = "walk"
    BY DEF Walk, files, At
  <1>2. /\ i \in on[c] /\ h[p].ptroff \in on[c] \cup {c} /\ ChainPtr[h[p].ptroff] = i
        /\ \A j \in on[c] : idx[j].key = req[p].key => rank[c][j] <= rank[c][i]
        /\ h[p] \in Handles /\ Asked(p) /\ req[p].op \in {"fetch", "delete", "store"}
    BY <1>1 DEF Sound, Placed, Knows, At, Walking, TypeInv, Asked, ChainLabel
  <1>3. pc[p] \in ChainLabel \ Linking
    BY <1>1 DEF ChainLabel, Linking
  <1>4. /\ c \in Chain /\ i \in Place /\ ChainPtr[i] = ptr[i] /\ IsList(ChainPtr, c, on[c], rank[c])
        /\ on[c] \in SUBSET (1 .. MaxRec) /\ rank[c] \in [1 .. MaxRec -> Nat]
    BY <1>2, <1>3, ChainPtrAt
  <1>5. CASE idx[i].key = req[p].key
    <2>1. h'[p] = Reads(h[p], i) /\ Found(p, i)
      BY <1>5, QuietMoves DEF Walk, Handle
    <2>2. /\ h'[p].idxoff = i /\ h'[p].datoff = idx[i].datoff /\ h'[p].ptrval = ptr[i]
          /\ h'[p].ptroff = h[p].ptroff
      BY <2>1, <1>2 DEF Reads, Handles, HandlesOf
    <2>3. \/ pc'[p] \in {"readdat", "dl_lock", "unlock"}
          \/ pc'[p] = "overwrite" /\ DatLen[req[p].data] = idx[i].datlen
      BY <2>1, <1>2, FoundGoes, QuietMoves DEF Goto
    <2>4. Quiet(p)
      <3>1. InHand(p) = {} /\ InHand(p)' = {}
        BY <1>1, <2>3 DEF InHand, At
      <3> QED BY <1>1, <2>3, <3>1, QuietMoves DEF Quiet, Linking
    <2>5. chain(p)' = c /\ ChainPtr' = ChainPtr
      BY <1>1, <2>4, QuietKeeps DEF chain, Sound
    <2>6. AtKey(p, on)' /\ Behind(p, on)'
      BY <1>1, <1>2, <1>5, <2>2, <2>5 DEF AtKey, Behind
    <2>7. Knows(p, on, rank)'
      BY <1>1, <2>2, <2>3, <2>6 DEF Knows, At, Blanking, Linking, FindFree, StoreLabel, Appends
    <2> QED BY <2>4, <2>7, Quietly DEF Sound
  <1>6. CASE idx[i].key # req[p].key
    <2>1. h'[p] = [Reads(h[p], i) EXCEPT !.ptroff = i, !.offset = ptr[i]] /\ Walks(p, ptr[i])
      BY <1>6, QuietMoves DEF Walk, Handle
    <2>2. h'[p].ptroff = i /\ h'[p].offset = ptr[i]
      BY <2>1, <1>2 DEF Reads, Handles, HandlesOf
    <2>3. \/ ptr[i] # 0 /\ pc'[p] = "walk"
          \/ ptr[i] = 0 /\ pc'[p] \in {"st_head", "unlock"}
      BY <2>1, WalksGoes, QuietMoves DEF Goto
    <2>4. Quiet(p)
      <3>1. InHand(p) = {} /\ InHand(p)' = {}
        BY <1>1, <2>3 DEF InHand, At
      <3> QED BY <1>1, <2>3, <3>1, QuietMoves DEF Quiet, Linking
    <2>5. ASSUME NEW j \in on[c], idx[j].key = req[p].key
          PROVE  j \in After(on[c], rank[c], c, i)
      <3>1. j # i /\ rank[c][j] <= rank[c][i]
        BY <1>2, <1>6, <2>5
      <3>2. rank[c][j] # rank[c][i]
        BY <3>1, <1>2, <1>4 DEF IsList
      <3>3. rank[c][j] < rank[c][i]
        BY <3>1, <3>2, <1>2, <1>4
      <3>4. i # c
        BY <1>2, <1>4
      <3> QED BY <3>3, <3>4 DEF After
    <2>6. Knows(p, on, rank)'
      BY <1>1, <1>2, <2>2, <2>3, <2>4, <2>5, ComesTo
    <2> QED BY <2>4, <2>6, Quietly DEF Sound
  <1> QED BY <1>5, <1>6

\* _db_dodelete locks the free list, ...
LEMMA DeleteLockStep ==
  ASSUME NEW on, NEW rank, Sound(on, rank), NEW p \in Proc, Step(p), DeleteLock(p)
  PROVE  Placed(on, rank)'
  <1>1. UNCHANGED <<ptr, idx, dat, req, h>> /\ pc[p] = "dl_lock" /\ pc'[p] = "dl_blank"
    BY QuietMoves DEF DeleteLock, files, At, Goto
  <1>2. Quiet(p)
    <2>1. InHand(p) = {} /\ InHand(p)' = {}
      BY <1>1 DEF InHand, At
    <2> QED BY <1>1, <2>1, QuietMoves DEF Quiet, Linking
  <1>3. chain(p)' = chain(p) /\ ChainPtr' = ChainPtr /\ Knows(p, on, rank)
    BY <1>1, <1>2, QuietKeeps DEF chain, Sound, Placed
  <1>4. Knows(p, on, rank)'
    BY <1>1, <1>3 DEF Knows, At, AtKey, Behind, Blanking, Linking, FindFree, StoreLabel, Appends
  <1> QED BY <1>2, <1>4, Quietly DEF Sound

\* ... reads freeptr and saves the chain pointer, ...
LEMMA DeleteReadFreeStep ==
  ASSUME NEW on, NEW rank, Sound(on, rank), NEW p \in Proc, Step(p), DeleteReadFree(p)
  PROVE  Placed(on, rank)'
  <1>1. /\ UNCHANGED <<ptr, idx, dat, req>> /\ pc[p] = "dl_free" /\ pc'[p] = "dl_idx"
        /\ h'[p] = Saves(h[p]) /\ h[p] \in Handles
    BY QuietMoves DEF DeleteReadFree, files, At, Goto, Handle, Sound, TypeInv
  <1>2. /\ h'[p].offset = ptr[FREE_OFF] /\ h'[p].save = h[p].ptrval /\ h'[p].ptrval = h[p].ptrval
        /\ h'[p].idxoff = h[p].idxoff /\ h'[p].datoff = h[p].datoff /\ h'[p].ptroff = h[p].ptroff
    BY <1>1 DEF Saves, Handles, HandlesOf
  <1>3. Quiet(p)
    <2>1. InHand(p) = {} /\ InHand(p)' = {}
      BY <1>1 DEF InHand, At
    <2> QED BY <1>1, <1>2, <2>1, QuietMoves DEF Quiet, Linking
  <1>4. chain(p)' = chain(p) /\ ChainPtr' = ChainPtr /\ Knows(p, on, rank)
    BY <1>1, <1>3, QuietKeeps DEF chain, Sound, Placed
  <1>5. Knows(p, on, rank)'
    BY <1>1, <1>2, <1>4 DEF Knows, At, AtKey, Behind, Blanking, Linking, FindFree, StoreLabel, Appends
  <1> QED BY <1>3, <1>5, Quietly DEF Sound

\* ... and unlocks.
LEMMA DeleteUnlockStep ==
  ASSUME NEW on, NEW rank, Sound(on, rank), NEW p \in Proc, Step(p), DeleteUnlock(p)
  PROVE  Placed(on, rank)'
  <1>1. /\ UNCHANGED <<ptr, idx, dat, req, h>> /\ pc[p] = "dl_unlock"
        /\ pc'[p] \in {"st_rehead", "unlock"}
    BY QuietMoves DEF DeleteUnlock, files, At, Goto
  <1>2. Quiet(p)
    <2>1. InHand(p) = {} /\ InHand(p)' = {}
      BY <1>1 DEF InHand, At
    <2> QED BY <1>1, <2>1, QuietMoves DEF Quiet, Linking
  <1>3. chain(p)' = chain(p) /\ Knows(p, on, rank)
    BY <1>1 DEF chain, Sound, Placed
  <1>4. Knows(p, on, rank)'
    BY <1>1, <1>3 DEF Knows, At, Absent, Blanking, Linking, FindFree, StoreLabel, Appends
  <1> QED BY <1>2, <1>4, Quietly DEF Sound

\* _db_findfree locks the free list ...
LEMMA FreeLockStep ==
  ASSUME NEW on, NEW rank, Sound(on, rank), NEW p \in Proc, Step(p), FreeLock(p)
  PROVE  Placed(on, rank)'
  <1>1. UNCHANGED <<ptr, idx, dat, req, h>> /\ pc[p] = "ff_lock" /\ pc'[p] = "ff_head"
    BY QuietMoves DEF FreeLock, files, At, Goto
  <1>2. Quiet(p)
    <2>1. InHand(p) = {} /\ InHand(p)' = {}
      BY <1>1 DEF InHand, At
    <2> QED BY <1>1, <2>1, QuietMoves DEF Quiet, Linking
  <1>3. chain(p)' = chain(p) /\ Knows(p, on, rank)
    BY <1>1 DEF chain, Sound, Placed
  <1>4. Knows(p, on, rank)'
    BY <1>1, <1>3 DEF Knows, At, Absent, Blanking, Linking, FindFree, StoreLabel, Appends
  <1> QED BY <1>2, <1>4, Quietly DEF Sound

\* ... and unlocks it; the record it found stays in hand.
LEMMA FreeUnlockStep ==
  ASSUME NEW on, NEW rank, Sound(on, rank), NEW p \in Proc, Step(p), FreeUnlock(p)
  PROVE  Placed(on, rank)'
  <1>1. UNCHANGED <<ptr, idx, dat, req, h>> /\ pc[p] = "ff_unlock" /\ pc'[p] = "st_dat"
    BY QuietMoves DEF FreeUnlock, files, At, Goto
  <1>2. Quiet(p)
    <2>1. InHand(p) = InHand(p)'
      BY <1>1 DEF InHand, At
    <2> QED BY <1>1, <2>1, QuietMoves DEF Quiet, Linking
  <1>3. chain(p)' = chain(p) /\ Knows(p, on, rank) /\ Rec' = Rec
    BY <1>1 DEF chain, Sound, Placed, Rec
  <1>4. Knows(p, on, rank)'
    BY <1>1, <1>3 DEF Knows, At, Absent, Blanking, Linking, FindFree, StoreLabel, Appends, Reusing, Fits
  <1> QED BY <1>2, <1>4, Quietly DEF Sound

\* db_store keeps the head of the chain, which will follow the new record.
LEMMA StoreReadHeadStep ==
  ASSUME NEW on, NEW rank, Sound(on, rank), NEW p \in Proc, Step(p), StoreReadHead(p)
  PROVE  Placed(on, rank)'
  <1>1. /\ UNCHANGED <<ptr, idx, dat, req>> /\ h[p] \in Handles
        /\ \/ /\ pc[p] = "st_head" /\ pc'[p] = "ff_lock"
              /\ h'[p] = [h[p] EXCEPT !.save = ptr[chain(p)]]
           \/ /\ pc[p] = "st_rehead" /\ pc'[p] = "st_dat"
              /\ h'[p] = [h[p] EXCEPT !.save = ptr[chain(p)], !.offset = 0]
    BY QuietMoves DEF StoreReadHead, files, At, Goto, Handle, Sound, TypeInv, HeadAgain
  <1>2. h'[p].save = ptr[chain(p)] /\ (pc'[p] = "st_dat" => h'[p].offset = 0)
    BY <1>1 DEF Handles, HandlesOf
  <1>3. Quiet(p)
    <2>1. InHand(p) = {} /\ InHand(p)' = {}
      BY <1>1, <1>2 DEF InHand, At
    <2> QED BY <1>1, <2>1, QuietMoves DEF Quiet, Linking
  <1>4. chain(p)' = chain(p) /\ Knows(p, on, rank)
    BY <1>1 DEF chain, Sound, Placed
  <1>5. Absent(p, on)
    BY <1>1, <1>4 DEF Knows, StoreLabel
  <1>6. Knows(p, on, rank)'
    BY <1>1, <1>2, <1>4, <1>5 DEF Knows, At, Absent, Blanking, Linking, FindFree, StoreLabel, Appends
  <1> QED BY <1>3, <1>6, Quietly DEF Sound

\* p comes to the record after place x of the free list, or to the end.
LEMMA ComesToFree ==
  ASSUME NEW on, NEW rank, Sound(on, rank), NEW p \in Proc, Quiet(p),
         pc[p] \in {"ff_head", "ff_walk"}, NEW x \in on[FREE_OFF] \cup {FREE_OFF},
         WalksFree(p, x, ptr[x]), req' = req, p \in DOMAIN pc, p \in DOMAIN h
  PROVE  Knows(p, on, rank)'
  <1>1. /\ pc'[p] = IF ptr[x] = 0 THEN "ff_unlock" ELSE "ff_walk"
        /\ h'[p] = [h[p] EXCEPT !.ptroff = x, !.offset = ptr[x]] /\ h[p] \in Handles
    BY DEF WalksFree, Goto, Handle, Sound, TypeInv
  <1>2. h'[p].ptroff = x /\ h'[p].offset = ptr[x] /\ h'[p].save = h[p].save
    BY <1>1 DEF Handles, HandlesOf
  <1>3. chain(p)' = chain(p) /\ Knows(p, on, rank) /\ ptr' = ptr /\ idx' = idx /\ dat' = dat
    BY DEF chain, Sound, Placed, Quiet
  <1>4. h[p].save = ptr[chain(p)] /\ Absent(p, on)
    BY <1>3 DEF Knows, StoreLabel, FindFree
  <1>5. h'[p].save = ptr'[chain(p)'] /\ Absent(p, on)'
    BY <1>2, <1>3, <1>4 DEF Absent
  <1>6. CASE ptr[x] = 0
    <2>1. pc'[p] = "ff_unlock" /\ h'[p].offset = 0
      BY <1>1, <1>2, <1>6
    <2> QED BY <2>1, <1>5 DEF Knows, At, Blanking, Linking, FindFree, StoreLabel, Appends
  <1>7. CASE ptr[x] # 0
    <2>1. IsList(ptr, FREE_OFF, on[FREE_OFF], rank[FREE_OFF])
      BY DEF Sound, Placed, Structure
    <2>2. ptr[x] \in on[FREE_OFF]
      BY <2>1, <1>7 DEF IsList, After
    <2>3. WalkingFree(p, on)'
      BY <1>2, <1>3, <2>2 DEF WalkingFree
    <2>4. pc'[p] = "ff_walk"
      BY <1>1, <1>7
    <2> QED BY <2>3, <2>4, <1>5 DEF Knows, At, Blanking, Linking, FindFree, StoreLabel, Appends
  <1> QED BY <1>6, <1>7

\* The head of the free list is read.
LEMMA FreeHeadStep ==
  ASSUME NEW on, NEW rank, Sound(on, rank), NEW p \in Proc, Step(p), FreeHead(p)
  PROVE  Placed(on, rank)'
  <1>1. /\ UNCHANGED <<ptr, idx, dat, req>> /\ pc[p] = "ff_head" /\ h[p] \in Handles
        /\ WalksFree(p, FREE_OFF, ptr[FREE_OFF])
    BY DEF FreeHead, files, At, Sound, TypeInv
  <1>2. /\ pc'[p] = IF ptr[FREE_OFF] = 0 THEN "ff_unlock" ELSE "ff_walk"
        /\ h'[p].offset = ptr[FREE_OFF]
    BY <1>1, QuietMoves DEF WalksFree, Goto, Handle, Handles, HandlesOf
  <1>3. Quiet(p)
    <2>1. InHand(p) = {} /\ InHand(p)' = {}
      BY <1>1, <1>2 DEF InHand, At
    <2> QED BY <1>1, <1>2, <2>1, QuietMoves DEF Quiet, Linking
  <1>4. Knows(p, on, rank)'
    BY <1>1, <1>3, QuietMoves, ComesToFree
  <1> QED BY <1>3, <1>4, Quietly DEF Sound

\* A free record is read: it fits, or the walk goes on.
LEMMA FreeWalkStep ==
  ASSUME NEW on, NEW rank, Sound(on, rank), NEW p \in Proc, Step(p), FreeWalk(p)
  PROVE  Placed(on, rank)'
  <1> DEFINE i == h[p].offset
  <1>1. UNCHANGED <<ptr, idx, dat, req>> /\ pc[p] = "ff_walk" /\ h[p] \in Handles
    BY DEF FreeWalk, files, At, Sound, TypeInv
  <1>2. /\ chain(p)' = chain(p) /\ Knows(p, on, rank) /\ Rec' = Rec
        /\ Keys(on) /\ Structure(on, rank)
    BY <1>1 DEF chain, Sound, Placed, Rec
  <1>3. WalkingFree(p, on) /\ h[p].save = ptr[chain(p)] /\ Absent(p, on)
    BY <1>1, <1>2 DEF Knows, StoreLabel, FindFree
  <1>4. i \in on[FREE_OFF] /\ i \in Rec /\ idx[i].key = Blank
    BY <1>2, <1>3 DEF WalkingFree, Keys, Structure, Lock
  <1>5. CASE Fits(req[p], i) /\ Handle(p, Reads(h[p], i)) /\ Goto(p, "ff_unlink")
    <2>1. /\ pc'[p] = "ff_unlink" /\ h'[p].idxoff = i /\ h'[p].datoff = idx[i].datoff
          /\ h'[p].ptrval = ptr[i] /\ h'[p].offset = i /\ h'[p].save = h[p].save
          /\ h'[p].ptroff = h[p].ptroff
      BY <1>1, <1>5, QuietMoves DEF Goto, Handle, Reads, Handles, HandlesOf
    <2>2. Quiet(p)
      <3>1. InHand(p) = {} /\ InHand(p)' = {}
        BY <1>1, <2>1 DEF InHand, At
      <3> QED BY <1>1, <2>1, <3>1, QuietMoves DEF Quiet, Linking
    <2>3. WalkingFree(p, on)' /\ Absent(p, on)' /\ Reusing(p)'
      BY <1>1, <1>2, <1>3, <1>4, <1>5, <2>1 DEF WalkingFree, Absent, Reusing, Fits
    <2>4. Knows(p, on, rank)'
      BY <1>1, <1>2, <1>3, <2>1, <2>3
         DEF Knows, At, Blanking, Linking, FindFree, StoreLabel, Appends
    <2> QED BY <2>2, <2>4, Quietly DEF Sound
  <1>6. CASE WalksFree(p, i, ptr[i])
    <2>1. /\ pc'[p] = IF ptr[i] = 0 THEN "ff_unlock" ELSE "ff_walk"
          /\ h'[p].offset = ptr[i]
      BY <1>1, <1>6, QuietMoves DEF WalksFree, Goto, Handle, Handles, HandlesOf
    <2>2. Quiet(p)
      <3>1. InHand(p) = {} /\ InHand(p)' = {}
        BY <1>1, <2>1 DEF InHand, At
      <3> QED BY <1>1, <2>1, <3>1, QuietMoves DEF Quiet, Linking
    <2>3. Knows(p, on, rank)'
      BY <1>1, <1>4, <1>6, <2>2, QuietMoves, ComesToFree
    <2> QED BY <2>2, <2>3, Quietly DEF Sound
  <1> QED BY <1>5, <1>6 DEF FreeWalk

-----------------------------------------------------------------------------
(* Steps that write: what of the files is the process's own                  *)

\* The places p may write: its chain, the record in its hands, the next record to be appended,
\* and the free list if it has locked it.
Own(p, on) == on[chain(p)] \cup {chain(p)} \cup InHand(p) \cup {Len(idx) + 1}
                \cup (IF pc[p] \in FreeLabel THEN on[FREE_OFF] \cup {FREE_OFF} ELSE {})

\* What p has in hand is one record.
LEMMA HandIsRecord ==
  ASSUME NEW on, NEW rank, Sound(on, rank), NEW q \in Proc
  PROVE  InHand(q) \subseteq Rec
  <1>1. Whereabouts(q)
    BY Located DEF Sound, Placed
  <1> QED BY <1>1 DEF Whereabouts, InHand, At

\* The records of two processes that write are apart.
LEMMA Overlap ==
  ASSUME NEW on, NEW rank, Sound(on, rank), NEW c \in Chain, NEW x \in on[c] \cap on[FREE_OFF]
  PROVE  \E r \in Proc : pc[r] = "dl_unlink" /\ pc[r] \in FreeLabel \cap ChainLabel
                         /\ req[r].op # "fetch" /\ chain(r) = c /\ h[r].idxoff = x
  <1>1. PICK r \in Proc : pc[r] = "dl_unlink" /\ h[r].idxoff = x
    BY DEF Sound, Placed, Structure, Unlinking, At
  <1>2. pc[r] \in Linking
    BY <1>1 DEF Linking
  <1>3. /\ pc[r] \in FreeLabel \cap ChainLabel /\ req[r].op # "fetch"
        /\ chain(r) \in Chain /\ x \in on[chain(r)]
    BY <1>1, <1>2, Linked
  <1>4. chain(r) = c
    BY <1>3 DEF Sound, Placed, Structure
  <1> QED BY <1>1, <1>3, <1>4

\* A record that is another's is not p's.
LEMMA NotOwn ==
  ASSUME NEW on, NEW rank, Sound(on, rank), NEW p \in Proc, pc[p] \in ChainLabel,
         req[p].op # "fetch"
  PROVE  /\ \A c \in Chain \ {chain(p)} : (on[c] \cup {c}) \cap Own(p, on) = {}
         /\ pc[p] \notin FreeLabel => (on[FREE_OFF] \cup {FREE_OFF}) \cap Own(p, on) = {}
         /\ \A q \in Proc \ {p} : InHand(q) \cap Own(p, on) = {}
  <1>1. /\ chain(p) \in Chain /\ Structure(on, rank) /\ LockInv /\ \A q \in Proc : Asked(q)
        /\ Len(idx) \in Nat
    BY DEF Sound, Placed, Asked, chain, TypeInv, FilesType
  <1>2. \A l \in Lock : on[l] \subseteq Rec /\ l \notin Rec /\ l # Len(idx) + 1
    BY <1>1 DEF Structure, Rec, Lock
  <1>3. Len(idx) + 1 \notin Rec
    BY <1>1 DEF Rec
  <1>4. chain(p) \in Lock /\ FREE_OFF \in Lock /\ Chain \subseteq Lock
    BY <1>1 DEF Lock
  <1>5. ASSUME NEW c \in Chain \ {chain(p)}, NEW x \in (on[c] \cup {c}) \cap Own(p, on)
        PROVE FALSE
    <2>1. CASE x \in InHand(p)
      <3>1. x \in Rec /\ x \notin on[c]
        BY <2>1, <1>1, <1>4, HandIsRecord DEF Structure
      <3> QED BY <3>1, <1>2, <1>4, <1>5
    <2>2. CASE pc[p] \in FreeLabel /\ x \in on[FREE_OFF] \cup {FREE_OFF}
      <3>1. x # FREE_OFF /\ x # c
        BY <2>2, <1>2, <1>4, <1>5
      <3>2. x \in on[c] \cap on[FREE_OFF]
        BY <3>1, <2>2, <1>5
      <3>3. PICK r \in Proc : pc[r] \in FreeLabel /\ chain(r) = c
        BY <3>2, Overlap
      <3>4. r # p
        BY <3>3, <1>5
      <3> QED BY <3>3, <3>4, <2>2, <1>1, FreeApart
    <2>3. CASE x \in on[chain(p)] \cup {chain(p)} \cup {Len(idx) + 1}
      <3>1. x \in on[c] => x \in Rec /\ x \notin on[chain(p)]
        BY <1>1, <1>2, <1>4, <1>5 DEF Structure
      <3> QED BY <3>1, <2>3, <1>2, <1>3, <1>4, <1>5
    <2> QED BY <2>1, <2>2, <2>3, <1>5 DEF Own
  <1>6. ASSUME pc[p] \notin FreeLabel, NEW x \in (on[FREE_OFF] \cup {FREE_OFF}) \cap Own(p, on)
        PROVE FALSE
    <2>1. CASE x \in InHand(p)
      <3>1. x \in Rec /\ x \notin on[FREE_OFF]
        BY <2>1, <1>1, <1>4, HandIsRecord DEF Structure
      <3> QED BY <3>1, <1>2, <1>4, <1>6
    <2>2. CASE x \in on[chain(p)]
      <3>1. x \in on[chain(p)] \cap on[FREE_OFF]
        BY <2>2, <1>2, <1>4, <1>6
      <3>2. PICK r \in Proc : /\ pc[r] \in FreeLabel \cap ChainLabel /\ req[r].op # "fetch"
                              /\ chain(r) = chain(p)
        BY <3>1, <1>1, Overlap
      <3>3. r # p
        BY <3>2, <1>6
      <3> QED BY <3>2, <3>3, <1>1, Apart
    <2>3. CASE x \in {chain(p)} \cup {Len(idx) + 1}
      <3>1. x \in on[FREE_OFF] => x \in Rec
        BY <1>2, <1>4
      <3> QED BY <3>1, <2>3, <1>1, <1>2, <1>3, <1>4, <1>6
    <2> QED BY <2>1, <2>2, <2>3, <1>6 DEF Own
  <1>7. ASSUME NEW q \in Proc \ {p}, NEW x \in InHand(q) \cap Own(p, on)
        PROVE FALSE
    <2>1. x \in Rec /\ x \notin on[chain(p)] /\ x \notin on[FREE_OFF] /\ x \notin InHand(p)
      BY <1>1, <1>4, <1>7, HandIsRecord DEF Structure
    <2> QED BY <2>1, <1>2, <1>3, <1>4, <1>7 DEF Own
  <1> QED BY <1>5, <1>6, <1>7

\* Of its own places p alone can be deleting the record.
LEMMA OwnPtr ==
  ASSUME NEW on, NEW rank, Sound(on, rank), NEW p \in Proc, Step(p), pc[p] \in ChainLabel,
         req[p].op # "fetch", NEW x \in Own(p, on) \cap Place
  PROVE  /\ ChainPtr[x] = IF x \in Rec /\ pc[p] \in Linking /\ h[p].idxoff = x
                          THEN h[p].save ELSE ptr[x]
         /\ ChainPtr'[x] = IF x \in Rec' /\ pc'[p] \in Linking /\ h'[p].idxoff = x
                           THEN h'[p].save ELSE ptr'[x]
         /\ Deleting(x) \subseteq {p}
  <1>1. ASSUME NEW q \in Proc \ {p}, pc[q] \in Linking, h[q].idxoff = x PROVE FALSE
    <2>1. pc[q] \in ChainLabel /\ req[q].op # "fetch" /\ chain(q) \in Chain /\ x \in on[chain(q)]
      BY <1>1, Linked
    <2>2. chain(q) # chain(p)
      BY <2>1, Apart DEF Sound
    <2> QED BY <2>1, <2>2, NotOwn
  <1>2. \A q \in Proc \ {p} : pc'[q] = pc[q] /\ h'[q] = h[q]
    BY QuietMoves
  <1>3. Deleting(x) \subseteq {p} /\ Deleting(x)' \subseteq {p}
    BY <1>1, <1>2 DEF Deleting, Linking
  <1>4. ChainPtr[x] = IF x \in Rec /\ pc[p] \in Linking /\ h[p].idxoff = x THEN h[p].save ELSE ptr[x]
    <2>1. ChainPtr[x] = IF x \in Rec /\ Deleting(x) # {} THEN h[Deleter(x)].save ELSE ptr[x]
      BY DEF ChainPtr
    <2>2. Deleting(x) # {} <=> pc[p] \in Linking /\ h[p].idxoff = x
      BY <1>3 DEF Deleting, Linking
    <2>3. Deleting(x) # {} => Deleter(x) = p
      BY <1>3 DEF Deleter
    <2> QED BY <2>1, <2>2, <2>3
  <1>5. ChainPtr'[x] = IF x \in Rec' /\ pc'[p] \in Linking /\ h'[p].idxoff = x THEN h'[p].save ELSE ptr'[x]
    <2>1. ChainPtr'[x] = IF x \in Rec' /\ Deleting(x)' # {} THEN h'[Deleter(x)'].save ELSE ptr'[x]
      BY DEF ChainPtr
    <2>2. Deleting(x)' # {} <=> pc'[p] \in Linking /\ h'[p].idxoff = x
      BY <1>3 DEF Deleting, Linking
    <2>3. Deleting(x)' # {} => Deleter(x)' = p
      BY <1>3 DEF Deleter
    <2> QED BY <2>1, <2>2, <2>3
  <1> QED BY <1>3, <1>4, <1>5

\* Where the data of the index records lie.
KeepsDatoff(p) ==
  \A j \in Rec' : \/ j \in Rec /\ idx'[j].datoff = idx[j].datoff
                  \/ Appends(p) /\ j = Len(idx) + 1 /\ idx'[j].datoff = h[p].datoff

\* A step of p that writes to its own places at most.
Writes(p, on, rank, on2, rank2) ==
  /\ pc[p] \in ChainLabel /\ req[p].op # "fetch"
  /\ \A x \in Place \ Own(p, on) : ptr'[x] = ptr[x]
  /\ \A j \in Rec \ Own(p, on) : idx'[j] = idx[j]
  /\ \A d \in 1 .. Len(dat) : dat'[d] = dat[d] \/ \E j \in Rec \cap Own(p, on) : idx[j].datoff = d
  /\ \A l \in Lock \ {chain(p), FREE_OFF} : on2[l] = on[l] /\ rank2[l] = rank[l]
  /\ pc[p] \notin FreeLabel => on2[FREE_OFF] = on[FREE_OFF] /\ rank2[FREE_OFF] = rank[FREE_OFF]
  /\ pc'[p] \in Linking => h'[p].idxoff \in Own(p, on)
  /\ KeepsDatoff(p)

\* A write of p leaves the pointers of the other lists, ...
LEMMA OtherPtr ==
  ASSUME NEW on, NEW rank, Sound(on, rank), NEW p \in Proc, Step(p), NEW on2, NEW rank2,
         Writes(p, on, rank, on2, rank2), NEW x \in Place \ Own(p, on)
  PROVE  ChainPtr'[x] = ChainPtr[x] /\ Deleting(x)' = Deleting(x) /\ ptr'[x] = ptr[x]
  <1>1. \A q \in Proc \ {p} : pc'[q] = pc[q] /\ h'[q] = h[q]
    BY QuietMoves
  <1>2. pc[p] \in Linking => h[p].idxoff \in Own(p, on)
    BY Linked DEF Own
  <1>3. p \notin Deleting(x) /\ p \notin Deleting(x)'
    BY <1>2 DEF Deleting, Linking, Writes
  <1>4. Deleting(x)' = Deleting(x)
    BY <1>1, <1>3 DEF Deleting
  <1>5. ptr'[x] = ptr[x]
    BY DEF Writes
  <1>6. ChainPtr[x] = IF x \in Rec /\ Deleting(x) # {} THEN h[Deleter(x)].save ELSE ptr[x]
    BY DEF ChainPtr
  <1>7. ChainPtr'[x] = IF x \in Rec' /\ Deleting(x)' # {} THEN h'[Deleter(x)'].save ELSE ptr'[x]
    BY DEF ChainPtr
  <1>8. CASE Deleting(x) = {}
    BY <1>4, <1>5, <1>6, <1>7, <1>8
  <1>9. CASE Deleting(x) # {}
    <2>1. Deleter(x) \in Deleting(x) /\ Deleter(x)' = Deleter(x)
      BY <1>4, <1>9 DEF Deleter
    <2>2. Deleter(x) \in Proc \ {p} /\ pc[Deleter(x)] \in Linking /\ h[Deleter(x)].idxoff = x
      BY <2>1, <1>3 DEF Deleting, Linking
    <2>3. x \in Rec
      BY <2>2, Linked
    <2>4. x \in Rec'
      <3>1. Len(idx) \in Nat /\ Len(idx') \in Nat /\ Len(idx) <= Len(idx')
        BY Located, FilesStep DEF Sound, Placed, TypeInv, FilesType
      <3> QED BY <2>3, <3>1 DEF Rec
    <2>5. h'[Deleter(x)] = h[Deleter(x)]
      BY <2>2, <1>1
    <2> QED BY <2>1, <2>3, <2>4, <2>5, <1>4, <1>5, <1>6, <1>7, <1>9
  <1> QED BY <1>4, <1>5, <1>8, <1>9

\* ... so that these stay lists, ...
LEMMA OtherLists ==
  ASSUME NEW on, NEW rank, Sound(on, rank), NEW p \in Proc, Step(p), NEW on2, NEW rank2,
         Writes(p, on, rank, on2, rank2)
  PROVE  /\ \A c \in Chain \ {chain(p)} :
              /\ on2[c] = on[c] /\ rank2[c] = rank[c]
              /\ IsList(ChainPtr', c, on2[c], rank2[c])
              /\ \A i \in on2[c] : idx'[i] = idx[i] /\ Deleting(i)' = Deleting(i)
         /\ pc[p] \notin FreeLabel => IsList(ptr', FREE_OFF, on2[FREE_OFF], rank2[FREE_OFF])
         /\ \A q \in Proc \ {p} : InHand(q)' = InHand(q)
  <1>1. pc[p] \in ChainLabel /\ req[p].op # "fetch" /\ Structure(on, rank)
    BY DEF Writes, Sound, Placed
  <1>2. \A l \in Lock : on[l] \subseteq Rec /\ on[l] \cup {l} \subseteq Place
    <2>1. Rec \subseteq Place
      BY DEF Sound, TypeInv, FilesType, Rec, Place
    <2> QED BY <1>1, <2>1 DEF Structure, Place
  <1>3. Chain \subseteq Lock \ {FREE_OFF} /\ FREE_OFF \in Lock
    BY DEF Lock
  <1>4. ASSUME NEW c \in Chain \ {chain(p)}
        PROVE  /\ on2[c] = on[c] /\ rank2[c] = rank[c]
               /\ IsList(ChainPtr', c, on2[c], rank2[c])
               /\ \A i \in on2[c] : idx'[i] = idx[i] /\ Deleting(i)' = Deleting(i)
    <2>1. on2[c] = on[c] /\ rank2[c] = rank[c]
      BY <1>3, <1>4 DEF Writes
    <2>2. (on[c] \cup {c}) \cap Own(p, on) = {}
      BY <1>1, NotOwn
    <2>3. \A x \in on[c] \cup {c} : ChainPtr'[x] = ChainPtr[x] /\ Deleting(x)' = Deleting(x)
      BY <2>2, <1>2, <1>3, OtherPtr
    <2>4. IsList(ChainPtr', c, on[c], rank[c])
      BY <2>3, <1>1, ListSame DEF Structure
    <2>5. \A i \in on[c] : idx'[i] = idx[i]
      BY <2>2, <1>2, <1>3 DEF Writes
    <2> QED BY <2>1, <2>3, <2>4, <2>5
  <1>5. ASSUME pc[p] \notin FreeLabel
        PROVE  IsList(ptr', FREE_OFF, on2[FREE_OFF], rank2[FREE_OFF])
    <2>1. on2[FREE_OFF] = on[FREE_OFF] /\ rank2[FREE_OFF] = rank[FREE_OFF]
      BY <1>5 DEF Writes
    <2>2. (on[FREE_OFF] \cup {FREE_OFF}) \cap Own(p, on) = {}
      BY <1>1, <1>5, NotOwn
    <2>3. \A x \in on[FREE_OFF] \cup {FREE_OFF} : ptr'[x] = ptr[x]
      BY <2>2, <1>2, <1>3 DEF Writes
    <2> QED BY <2>1, <2>3, <1>1, ListSame DEF Structure
  <1>6. \A q \in Proc \ {p} : InHand(q)' = InHand(q)
    BY QuietMoves DEF InHand, At
  <1> QED BY <1>4, <1>5, <1>6

\* ... and the others still know what they knew.
LEMMA OthersKnow ==
  ASSUME NEW on, NEW rank, Sound(on, rank), NEW p \in Proc, Step(p), NEW on2, NEW rank2,
         Writes(p, on, rank, on2, rank2), NEW q \in Proc \ {p}
  PROVE  Knows(q, on2, rank2)'
  <1>1. /\ pc'[q] = pc[q] /\ h'[q] = h[q] /\ req'[q] = req[q] /\ chain(q)' = chain(q)
        /\ Knows(q, on, rank) /\ Asked(q) /\ Lengths
    BY QuietMoves DEF chain, Sound, Placed
  <1>2. SUFFICES ASSUME pc[q] \in KnowLabel PROVE Knows(q, on2, rank2)'
    BY <1>1, Forgets
  <1>3. pc[q] \in ChainLabel /\ pc[p] \in ChainLabel /\ req[p].op # "fetch"
    BY <1>2 DEF ChainLabel, KnowLabel, StoreLabel, DeleteLabel, Writes
  <1> DEFINE c == chain(q)
  <1>4. c \in Chain \ {chain(p)} /\ c \in Lock \ {FREE_OFF}
    BY <1>1, <1>3, Apart DEF Sound, Asked, chain, Lock
  <1>5. Rec \subseteq Rec' /\ \A l \in Lock : on[l] \subseteq Rec /\ on[l] \cup {l} \subseteq Place
    <2>1. Len(idx) \in Nat /\ Len(idx') \in Nat /\ Len(idx) <= Len(idx')
      BY Located, FilesStep DEF Sound, Placed, TypeInv, FilesType
    <2>2. Rec \subseteq Rec' /\ Rec \subseteq Place
      BY <2>1 DEF Sound, TypeInv, FilesType, Rec, Place
    <2> QED BY <2>2 DEF Sound, Placed, Structure, Place
  <1>6. on2[c] = on[c] /\ rank2[c] = rank[c] /\ (on[c] \cup {c}) \cap Own(p, on) = {}
    BY <1>3, <1>4, NotOwn, OtherLists
  <1>7. \A x \in on[c] \cup {c} : ChainPtr'[x] = ChainPtr[x] /\ ptr'[x] = ptr[x]
    BY <1>4, <1>5, <1>6, OtherPtr
  <1>8. \A j \in on[c] : idx'[j] = idx[j]
    BY <1>4, <1>5, <1>6 DEF Writes
  \* The data of a record that is not p's.
  <1>9. ASSUME NEW j \in Rec \ Own(p, on) PROVE dat'[idx[j].datoff] = dat[idx[j].datoff]
    <2>1. idx[j].datoff \in 1 .. Len(dat)
      BY DEF Sound, TypeInv, FilesType
    <2>2. ~ \E k \in Rec \cap Own(p, on) : idx[k].datoff = idx[j].datoff
      BY <1>1 DEF Lengths
    <2> QED BY <2>1, <2>2 DEF Writes
  <1>10. \A j \in on[c] : dat'[idx[j].datoff] = dat[idx[j].datoff]
    BY <1>4, <1>5, <1>6, <1>9
  <1>11. ASSUME NEW i \in InHand(q)
         PROVE  /\ i \in Rec /\ idx'[i] = idx[i] /\ ptr'[i] = ptr[i]
                /\ dat'[idx[i].datoff] = dat[idx[i].datoff]
    <2>1. i \in Rec \ Own(p, on)
      BY <1>3, NotOwn, HandIsRecord
    <2>2. i \in Place
      BY <2>1 DEF Sound, TypeInv, FilesType, Rec, Place
    <2> QED BY <2>1, <2>2, <1>9 DEF Writes
  <1>12. ASSUME pc[q] \in FreeLabel
         PROVE  /\ on2[FREE_OFF] = on[FREE_OFF]
                /\ \A x \in on[FREE_OFF] \cup {FREE_OFF} : ptr'[x] = ptr[x]
                /\ \A j \in on[FREE_OFF] : idx'[j] = idx[j]
    <2>1. pc[p] \notin FreeLabel /\ FREE_OFF \in Lock
      BY <1>12, FreeApart DEF Sound, Lock
    <2>2. (on[FREE_OFF] \cup {FREE_OFF}) \cap Own(p, on) = {} /\ on2[FREE_OFF] = on[FREE_OFF]
      BY <1>3, <2>1, NotOwn DEF Writes
    <2> QED BY <2>1, <2>2, <1>5 DEF Writes
  <1>f. /\ Blanking \cup Linking \cup {"ff_walk", "ff_unlink"} \subseteq FreeLabel
        /\ {"dl_free", "dl_idx", "dl_ptr"} \subseteq {"dl_lock"} \cup Blanking \cup Linking
    BY DEF FreeLabel, DeleteLabel, FindFree, Blanking, Linking
  <1>13. pc'[q] \in {"head"} => h'[q].ptroff = chain(q)'
    BY <1>1 DEF Knows, At
  <1>14. pc'[q] = "walk" => Walking(q, on2, rank2)'
    BY <1>1, <1>6, <1>7, <1>8 DEF Knows, At, Walking
  <1>15. pc'[q] \in {"readdat", "overwrite", "dl_lock"} \cup Blanking =>
           AtKey(q, on2)' /\ idx'[h[q].idxoff] = idx[h[q].idxoff]
    BY <1>1, <1>6, <1>8 DEF Knows, AtKey
  <1>16. pc'[q] \in {"dl_lock"} \cup Blanking => h'[q].ptrval = ptr'[h'[q].idxoff]
    BY <1>1, <1>7 DEF Knows, AtKey
  <1>17. pc'[q] \in {"dl_lock"} \cup Blanking \cup Linking => Behind(q, on2)'
    BY <1>1, <1>6, <1>7 DEF Knows, Behind
  <1>18. pc'[q] \in {"dl_free", "dl_idx", "dl_ptr"} => dat'[idx'[h'[q].idxoff].datoff] = Blank
    <2>1. pc[q] \in {"dl_free", "dl_idx", "dl_ptr"} => h[q].idxoff \in on[c]
      BY <1>1 DEF Knows, AtKey, Blanking, Linking
    <2> QED BY <2>1, <1>1, <1>8, <1>10 DEF Knows
  <1>19. pc'[q] = "dl_idx" => h'[q].offset = ptr'[FREE_OFF] /\ h'[q].save = h'[q].ptrval
    BY <1>1, <1>12, <1>f DEF Knows, At, Blanking
  <1>20. pc'[q] \in Linking => h'[q].idxoff \in on2[c] /\ idx'[h'[q].idxoff].key = Blank
    BY <1>1, <1>6, <1>8 DEF Knows
  <1>21. pc'[q] = "dl_ptr" => ptr'[h'[q].idxoff] = ptr'[FREE_OFF]
    <2>1. pc[q] = "dl_ptr" => h[q].idxoff \in on[c] /\ ptr[h[q].idxoff] = ptr[FREE_OFF]
      BY <1>1 DEF Knows, At, Linking
    <2> QED BY <2>1, <1>1, <1>7, <1>12, <1>f DEF Linking
  <1>22. pc'[q] = "dl_unlink" => h'[q].idxoff \in on2[FREE_OFF]
    BY <1>1, <1>12, <1>f DEF Knows, At, Linking
  <1>23. pc'[q] \in (StoreLabel \ {"overwrite"}) \cup Linking \cup {"dl_unlock"} => Absent(q, on2)'
    BY <1>1, <1>6, <1>8 DEF Knows, Absent
  <1>24. pc'[q] \in FindFree \cup {"st_dat", "st_idx"} => h'[q].save = ptr'[c]
    BY <1>1, <1>7 DEF Knows
  <1>25. pc'[q] \in {"ff_walk", "ff_unlink"} => WalkingFree(q, on2)'
    BY <1>1, <1>12, <1>f DEF Knows, WalkingFree
  <1>26. pc'[q] = "ff_unlink" => h'[q].idxoff = h'[q].offset /\ h'[q].ptrval = ptr'[h'[q].idxoff]
    <2>1. pc[q] = "ff_unlink" => h[q].offset \in on[FREE_OFF]
      BY <1>1 DEF Knows, WalkingFree
    <2> QED BY <2>1, <1>1, <1>12, <1>f DEF Knows, At
  <1>27. pc'[q] \in {"ff_unlink", "ff_unlock", "st_dat", "st_idx"} /\ h'[q].offset # 0 => Reusing(q)'
    <2>1. CASE pc[q] = "ff_unlink"
      <3>1. h[q].idxoff \in on[FREE_OFF]
        BY <1>1, <2>1 DEF Knows, WalkingFree, At
      <3> QED BY <3>1, <2>1, <1>1, <1>5, <1>12, <1>f DEF Knows, Reusing, Fits
    <2>2. CASE pc[q] \in {"ff_unlock", "st_dat", "st_idx"} /\ h[q].offset # 0
      <3>1. h[q].idxoff \in InHand(q)
        BY <2>2 DEF InHand
      <3> QED BY <3>1, <2>2, <1>1, <1>5, <1>11 DEF Knows, Reusing, Fits
    <2> QED BY <2>1, <2>2, <1>1
  <1>28. pc'[q] = "st_idx" => h'[q].datoff # 0 /\ dat'[h'[q].datoff] = req'[q].data
    <2>1. CASE pc[q] = "st_idx" /\ h[q].offset # 0
      <3>1. h[q].idxoff \in InHand(q) /\ h[q].datoff = idx[h[q].idxoff].datoff
        BY <1>1, <2>1 DEF InHand, Knows, Reusing
      <3> QED BY <3>1, <2>1, <1>1, <1>11 DEF Knows, At
    <2>2. CASE pc[q] = "st_idx" /\ h[q].offset = 0
      <3>1. /\ h[q].datoff \in 1 .. Len(dat) /\ \A j \in Rec : idx[j].datoff # h[q].datoff
            /\ dat[h[q].datoff] = req[q].data /\ h[q].datoff # 0
        BY <1>1, <2>2 DEF Knows, Appends, At
      <3> QED BY <3>1, <1>1 DEF Writes
    <2> QED BY <2>1, <2>2, <1>1
  <1>29. Appends(q)' => /\ h'[q].datoff \in 1 .. Len(dat')
                        /\ \A j \in Rec' : idx'[j].datoff # h'[q].datoff
    <2>1. Len(dat) \in Nat /\ Len(dat') \in Nat /\ Len(dat) <= Len(dat')
      BY Located, FilesStep DEF Sound, Placed, TypeInv, FilesType
    <2>2. Appends(q)' => Appends(q)
      BY <1>1 DEF Appends, At
    <2>3. Appends(q) => /\ h[q].datoff \in 1 .. Len(dat) /\ \A j \in Rec : idx[j].datoff # h[q].datoff
                        /\ Appends(p) => h[p].datoff # h[q].datoff
      BY <1>1 DEF Knows, Lengths
    <2>4. Appends(q) => \A j \in Rec' : idx'[j].datoff # h[q].datoff
      <3>1. \A j \in Rec' : \/ j \in Rec /\ idx'[j].datoff = idx[j].datoff
                            \/ Appends(p) /\ idx'[j].datoff = h[p].datoff
        BY Zenon DEF Writes, KeepsDatoff
      <3> QED BY <2>3, <3>1
    <2> QED BY <1>1, <2>1, <2>2, <2>3, <2>4
  <1>30. pc'[q] = "st_ptr" => /\ h'[q].idxoff \in Rec' /\ idx'[h'[q].idxoff].key = req'[q].key
                              /\ ptr'[h'[q].idxoff] = ptr'[c]
    <2>1. pc[q] = "st_ptr" => h[q].idxoff \in InHand(q)
      BY DEF InHand, At
    <2> QED BY <2>1, <1>1, <1>5, <1>7, <1>11 DEF Knows, At
  <1>31. pc'[q] = "overwrite" => DatLen[req'[q].data] = idx'[h'[q].idxoff].datlen
    BY <1>1, <1>15 DEF Knows, At
  <1> QED
    BY <1>1, <1>13, <1>14, <1>15, <1>16, <1>17, <1>18, <1>19, <1>20, <1>21, <1>22, <1>23, <1>24,
       <1>25, <1>26, <1>27, <1>28, <1>29, <1>30, <1>31 DEF Knows, At

\* What p's own places are after a step of p.
OwnStructure(p, on, on2, rank2) ==
  LET c == chain(p)
      own == on2[c] \cup InHand(p)' \cup (IF pc[p] \in FreeLabel THEN on2[FREE_OFF] ELSE {})
  IN /\ own = Own(p, on) \cap Rec'
     /\ IsList(ChainPtr', c, on2[c], rank2[c])
     /\ InHand(p)' \cap on2[c] = {}
     /\ pc[p] \in FreeLabel => /\ IsList(ptr', FREE_OFF, on2[FREE_OFF], rank2[FREE_OFF])
                               /\ InHand(p)' \cap on2[FREE_OFF] = {}
                               /\ \A i \in on2[c] \cap on2[FREE_OFF] : Unlinking(i)'

\* The keys that p answers for, after its step.
OwnKeys(p, on2) ==
  LET c == chain(p) IN
  /\ \A i \in on2[c] : IF idx'[i].key = Blank THEN Deleting(i)' # {} ELSE Hash[idx'[i].key] = c
  /\ \A i, j \in on2[c] : idx'[i].key = idx'[j].key /\ idx'[i].key # Blank => i = j
  /\ pc[p] \in FreeLabel =>
       \A i \in on2[FREE_OFF] : idx'[i].key = Blank /\ dat'[idx'[i].datoff] = Blank

\* The lengths that p answers for, after its step.
OwnLengths(p, on) ==
  /\ \A i \in Own(p, on) \cap Rec' :
       /\ dat'[idx'[i].datoff] # Blank => DatLen[dat'[idx'[i].datoff]] = idx'[i].datlen
       /\ idx'[i].key # Blank /\ dat'[idx'[i].datoff] = Blank
            => pc'[p] \in {"dl_free", "dl_idx"} /\ h'[p].idxoff = i
  /\ Appends(p)' => \A q \in Proc \ {p} : Appends(q) => h[q].datoff # h'[p].datoff

\* The data of other records are left alone.
LEMMA OtherData ==
  ASSUME NEW on, NEW rank, Sound(on, rank), NEW p \in Proc, Step(p), NEW on2, NEW rank2,
         Writes(p, on, rank, on2, rank2), NEW j \in Rec \ Own(p, on)
  PROVE  idx'[j] = idx[j] /\ dat'[idx[j].datoff] = dat[idx[j].datoff]
  <1>1. idx[j].datoff \in 1 .. Len(dat) /\ Lengths
    BY DEF Sound, TypeInv, FilesType, Placed
  <1>2. ~ \E k \in Rec \cap Own(p, on) : idx[k].datoff = idx[j].datoff
    BY <1>1 DEF Lengths
  <1> QED BY <1>1, <1>2 DEF Writes

\* With its own lists in order after a write, p leaves all of them in order.
LEMMA StructureStep ==
  ASSUME NEW on, NEW rank, Sound(on, rank), NEW p \in Proc, Step(p), NEW on2, NEW rank2,
         Writes(p, on, rank, on2, rank2), OwnStructure(p, on, on2, rank2)
  PROVE  Structure(on2, rank2)'
  <1> DEFINE c == chain(p)
             free == pc[p] \in FreeLabel
  <1>1. /\ pc[p] \in ChainLabel /\ req[p].op # "fetch" /\ Structure(on, rank) /\ c \in Chain
        /\ LockInv
    BY DEF Writes, Sound, Placed, Asked, chain
  <1>2. /\ \A d \in Chain \ {c} : /\ on2[d] = on[d] /\ rank2[d] = rank[d]
                                  /\ IsList(ChainPtr', d, on2[d], rank2[d])
                                  /\ on2[d] \cap Own(p, on) = {}
        /\ ~free => /\ IsList(ptr', FREE_OFF, on2[FREE_OFF], rank2[FREE_OFF])
                    /\ on2[FREE_OFF] = on[FREE_OFF] /\ on2[FREE_OFF] \cap Own(p, on) = {}
        /\ \A q \in Proc \ {p} : InHand(q)' = InHand(q) /\ InHand(q) \cap Own(p, on) = {}
    <2>1. /\ \A d \in Chain \ {c} : on2[d] = on[d] /\ on2[d] \cap Own(p, on) = {}
          /\ \A q \in Proc \ {p} : InHand(q)' = InHand(q) /\ InHand(q) \cap Own(p, on) = {}
      BY <1>1, OtherLists, NotOwn
    <2>2. /\ \A d \in Chain \ {c} : rank2[d] = rank[d] /\ IsList(ChainPtr', d, on2[d], rank2[d])
          /\ ~free => IsList(ptr', FREE_OFF, on2[FREE_OFF], rank2[FREE_OFF])
      BY OtherLists
    <2>3. ~free => on2[FREE_OFF] = on[FREE_OFF] /\ on[FREE_OFF] \cap Own(p, on) = {}
      BY <1>1, NotOwn DEF Writes
    <2> HIDE DEF c, free
    <2> QED BY <2>1, <2>2, <2>3
  <1>3. Rec \subseteq Rec' /\ Rec' \subseteq Rec \cup {Len(idx) + 1}
    <2>1. Len(idx) \in Nat /\ Len(idx') \in Nat /\ Len(idx) <= Len(idx')
      BY Located, FilesStep DEF Sound, Placed, TypeInv, FilesType
    <2>2. Rec \subseteq Rec'
      BY <2>1 DEF Rec
    <2>3. \A j \in Rec' : j \in Rec \/ j = Len(idx) + 1
      BY Zenon DEF Writes, KeepsDatoff
    <2> QED BY <2>2, <2>3
  <1>4. Lock = Chain \cup {FREE_OFF} /\ FREE_OFF \notin Chain
    BY DEF Lock
  <1>5. /\ on2[c] \subseteq Own(p, on) \cap Rec' /\ InHand(p)' \subseteq Own(p, on) \cap Rec'
        /\ free => on2[FREE_OFF] \subseteq Own(p, on) \cap Rec'
    BY DEF OwnStructure
  <1>6. \A l \in Lock : on2[l] \subseteq Rec'
    BY <1>1, <1>2, <1>3, <1>4, <1>5 DEF Structure
  <1>7. \A d \in Chain : IsList(ChainPtr, d, on2[d], rank2[d])'
    BY <1>2 DEF OwnStructure
  <1>8. IsList(ptr, FREE_OFF, on2[FREE_OFF], rank2[FREE_OFF])'
    BY <1>2 DEF OwnStructure
  <1>9. \A d, e \in Chain : d # e => on2[d] \cap on2[e] = {}
    BY <1>1, <1>2, <1>5 DEF Structure
  <1>10. ASSUME NEW d \in Chain, NEW i \in on2[d] \cap on2[FREE_OFF] PROVE Unlinking(i)'
    <2>1. CASE d = c
      BY <2>1, <1>2, <1>5, <1>10 DEF OwnStructure
    <2>2. CASE d # c
      <3>1. ~free /\ i \in on[d] \cap on[FREE_OFF] /\ i \notin Own(p, on)
        BY <2>2, <1>2, <1>5, <1>10
      <3>2. PICK r \in Proc : pc[r] = "dl_unlink" /\ chain(r) = d /\ h[r].idxoff = i
        BY <3>1, Overlap
      <3>3. r # p
        BY <3>2, <2>2
      <3>4. pc'[r] = pc[r] /\ h'[r] = h[r]
        BY <3>3, QuietMoves
      <3> QED BY <3>2, <3>4 DEF Unlinking, At
    <2> QED BY <2>1, <2>2
  <1>11. ASSUME NEW q \in Proc, NEW l \in Lock PROVE InHand(q)' \cap on2[l] = {}
    <2>1. CASE q = p
      <3>1. CASE l = c
        BY <2>1, <3>1 DEF OwnStructure
      <3>2. CASE l = FREE_OFF
        BY <2>1, <3>2, <1>2, <1>5 DEF OwnStructure
      <3>3. CASE l \in Chain \ {c}
        BY <2>1, <3>3, <1>2, <1>5
      <3> QED BY <3>1, <3>2, <3>3, <1>4
    <2>2. CASE q # p
      <3>1. CASE on2[l] \subseteq Own(p, on)
        BY <2>2, <3>1, <1>2
      <3>2. CASE on2[l] = on[l]
        BY <2>2, <3>2, <1>1, <1>2 DEF Structure
      <3> QED BY <3>1, <3>2, <1>2, <1>4, <1>5
    <2> QED BY <2>1, <2>2
  <1>12. ASSUME NEW q \in Proc, NEW r \in Proc, q # r PROVE InHand(q)' \cap InHand(r)' = {}
    <2>1. CASE q # p /\ r # p
      BY <2>1, <1>1, <1>2, <1>12 DEF Structure
    <2>2. CASE q = p \/ r = p
      BY <2>2, <1>2, <1>5, <1>12
    <2> QED BY <2>1, <2>2
  <1>13. ASSUME NEW i \in Rec'
         PROVE  (\E l \in Lock : i \in on2[l]) \/ (\E q \in Proc : i \in InHand(q)')
    <2>1. CASE i \in Own(p, on)
      <3>1. i \in on2[c] \/ i \in InHand(p)' \/ i \in on2[FREE_OFF]
        BY <2>1, <1>13 DEF OwnStructure
      <3> QED BY <3>1, <1>1, <1>4
    <2>2. CASE i \notin Own(p, on)
      <3>1. i \in Rec
        BY <2>2, <1>3, <1>13 DEF Own
      <3>2. CASE \E l \in Lock : i \in on[l]
        <4>1. PICK l \in Lock : i \in on[l]
          BY <3>2
        <4>2. l # c /\ (l = FREE_OFF => ~free)
          BY <4>1, <2>2 DEF Own
        <4> QED BY <4>1, <4>2, <1>2, <1>4
      <3>3. CASE \E q \in Proc : i \in InHand(q)
        <4>1. PICK q \in Proc : i \in InHand(q)
          BY <3>3
        <4>2. q # p
          BY <4>1, <2>2 DEF Own
        <4> QED BY <4>1, <4>2, <1>2
      <3> QED BY <3>1, <3>2, <3>3, <1>1 DEF Structure
    <2> QED BY <2>1, <2>2
  <1> QED BY <1>6, <1>7, <1>8, <1>9, <1>10, <1>11, <1>12, <1>13 DEF Structure

\* The same for the keys, ...
LEMMA KeysStep ==
  ASSUME NEW on, NEW rank, Sound(on, rank), NEW p \in Proc, Step(p), NEW on2, NEW rank2,
         Writes(p, on, rank, on2, rank2), OwnKeys(p, on2)
  PROVE  Keys(on2)'
  <1> DEFINE c == chain(p)
  <1>1. pc[p] \in ChainLabel /\ req[p].op # "fetch" /\ Keys(on) /\ c \in Chain
    BY DEF Writes, Sound, Placed, Asked, chain
  <1>2. \A d \in Chain \ {c} :
          on2[d] = on[d] /\ \A i \in on2[d] : idx'[i] = idx[i] /\ Deleting(i)' = Deleting(i)
    BY OtherLists
  <1>3. pc[p] \notin FreeLabel =>
          /\ on2[FREE_OFF] = on[FREE_OFF]
          /\ \A j \in on[FREE_OFF] : idx'[j] = idx[j] /\ dat'[idx[j].datoff] = dat[idx[j].datoff]
    <2>1. on[FREE_OFF] \subseteq Rec
      BY DEF Sound, Placed, Structure, Lock
    <2>2. pc[p] \notin FreeLabel => on[FREE_OFF] \cap Own(p, on) = {} /\ on2[FREE_OFF] = on[FREE_OFF]
      BY <1>1, NotOwn DEF Writes
    <2> QED BY <2>1, <2>2, OtherData
  <1>4. \A d \in Chain : \A i \in on2[d] :
          IF idx'[i].key = Blank THEN Deleting(i)' # {} ELSE Hash[idx'[i].key] = d
    BY <1>1, <1>2 DEF Keys, OwnKeys
  <1>5. \A d \in Chain : \A i, j \in on2[d] : idx'[i].key = idx'[j].key /\ idx'[i].key # Blank => i = j
    BY <1>1, <1>2 DEF Keys, OwnKeys
  <1>6. \A i \in on2[FREE_OFF] : idx'[i].key = Blank /\ dat'[idx'[i].datoff] = Blank
    BY <1>1, <1>3 DEF Keys, OwnKeys
  <1> QED BY <1>4, <1>5, <1>6 DEF Keys

\* ... and for the lengths.
LEMMA LengthsStep ==
  ASSUME NEW on, NEW rank, Sound(on, rank), NEW p \in Proc, Step(p), NEW on2, NEW rank2,
         Writes(p, on, rank, on2, rank2), OwnLengths(p, on)
  PROVE  Lengths'
  <1>1. Lengths /\ Knows(p, on, rank) /\ \A q \in Proc \ {p} : pc'[q] = pc[q] /\ h'[q] = h[q]
    BY QuietMoves DEF Sound, Placed
  <1>2. \A j \in Rec' : j \in Rec \cup {Len(idx) + 1} /\ (j \notin Rec => j \in Own(p, on))
    <2>1. \A j \in Rec' : j \in Rec \/ j = Len(idx) + 1
      BY Zenon DEF Writes, KeepsDatoff
    <2> QED BY <2>1 DEF Own
  <1>3. ASSUME NEW i \in Rec', NEW j \in Rec', idx'[i].datoff = idx'[j].datoff PROVE i = j
    <2>1. Appends(p) => \A k \in Rec : idx[k].datoff # h[p].datoff
      BY <1>1 DEF Knows
    <2>2. \A k \in {i, j} : \/ k \in Rec /\ idx'[k].datoff = idx[k].datoff
                            \/ Appends(p) /\ k = Len(idx) + 1 /\ idx'[k].datoff = h[p].datoff
      BY Zenon DEF Writes, KeepsDatoff
    <2>3. i \in Rec /\ j \in Rec /\ idx[i].datoff = idx[j].datoff => i = j
      BY <1>1 DEF Lengths
    <2> QED BY <2>1, <2>2, <2>3, <1>3
  <1>4. ASSUME NEW i \in Rec', dat'[idx'[i].datoff] # Blank
        PROVE  DatLen[dat'[idx'[i].datoff]] = idx'[i].datlen
    <2>1. CASE i \in Own(p, on)
      BY <2>1, <1>4 DEF OwnLengths
    <2>2. CASE i \notin Own(p, on)
      <3>1. idx'[i] = idx[i] /\ dat'[idx[i].datoff] = dat[idx[i].datoff] /\ i \in Rec
        BY <2>2, <1>2, OtherData
      <3> QED BY <3>1, <1>1, <1>4 DEF Lengths
    <2> QED BY <2>1, <2>2
  <1>5. ASSUME NEW i \in Rec', idx'[i].key # Blank, dat'[idx'[i].datoff] = Blank
        PROVE  \E q \in Proc : pc'[q] \in {"dl_free", "dl_idx"} /\ h'[q].idxoff = i
    <2>1. CASE i \in Own(p, on)
      BY <2>1, <1>5 DEF OwnLengths
    <2>2. CASE i \notin Own(p, on)
      <3>1. idx'[i] = idx[i] /\ dat'[idx[i].datoff] = dat[idx[i].datoff] /\ i \in Rec
        BY <2>2, <1>2, OtherData
      <3>2. PICK q \in Proc : pc[q] \in {"dl_free", "dl_idx"} /\ h[q].idxoff = i
        BY <3>1, <1>1, <1>5 DEF Lengths
      <3>3. q # p
        BY <3>2, <2>2, <1>1 DEF Knows, AtKey, Blanking, Own
      <3> QED BY <3>2, <3>3, <1>1
    <2> QED BY <2>1, <2>2
  <1>6. ASSUME NEW q \in Proc, NEW r \in Proc, Appends(q)', Appends(r)', h'[q].datoff = h'[r].datoff
        PROVE  q = r
    <2>1. \A s \in Proc \ {p} : Appends(s)' => Appends(s)
      BY <1>1 DEF Appends, At
    <2> QED BY <2>1, <1>1, <1>6 DEF OwnLengths, Lengths
  <1> QED BY <1>3, <1>4, <1>5, <1>6 DEF Lengths

\* A step that writes leaves every record placed, if it places its own.
LEMMA WrittenIsPlaced ==
  ASSUME NEW on, NEW rank, Sound(on, rank), NEW p \in Proc, Step(p), NEW on2, NEW rank2,
         Writes(p, on, rank, on2, rank2), OwnStructure(p, on, on2, rank2), OwnKeys(p, on2),
         OwnLengths(p, on), Knows(p, on2, rank2)'
  PROVE  Placed(on2, rank2)'
  BY StructureStep, KeysStep, LengthsStep, OthersKnow DEF Placed

-----------------------------------------------------------------------------
(* The steps that write, one by one                                          *)

\* What is known of a process that deletes or stores.
LEMMA Writer ==
  ASSUME NEW on, NEW rank, Sound(on, rank), NEW p \in Proc, pc[p] \in DeleteLabel \cup StoreLabel
  PROVE  /\ pc[p] \in ChainLabel /\ req[p].op # "fetch" /\ req[p].key \in Key
         /\ chain(p) \in Chain /\ chain(p) \in Lock /\ FREE_OFF \in Lock /\ chain(p) # FREE_OFF
         /\ Knows(p, on, rank) /\ h[p] \in Handles
         /\ on[chain(p)] \in SUBSET (1 .. MaxRec) /\ rank[chain(p)] \in [1 .. MaxRec -> Nat]
         /\ on[FREE_OFF] \in SUBSET (1 .. MaxRec) /\ rank[FREE_OFF] \in [1 .. MaxRec -> Nat]
         /\ Rec \subseteq 1 .. MaxRec /\ Rec \subseteq Place /\ Lock \subseteq Place
         /\ chain(p) \notin Nat /\ FREE_OFF \notin Nat /\ Rec \subseteq Nat
         /\ on[chain(p)] \subseteq Rec /\ on[FREE_OFF] \subseteq Rec
  <1>1. pc[p] \in ChainLabel /\ Asked(p)
    BY DEF ChainLabel, Sound
  <1>2. req[p].op # "fetch" /\ req[p].key \in Key
    BY <1>1 DEF Asked
  <1>3. chain(p) \in Chain
    BY <1>2 DEF chain
  <1>4. Knows(p, on, rank) /\ h[p] \in Handles
    BY DEF Sound, Placed, TypeInv
  <1>5. Rec \subseteq 1 .. MaxRec /\ Rec \subseteq Nat
    BY DEF Sound, TypeInv, FilesType, Rec
  <1> QED BY <1>1, <1>2, <1>3, <1>4, <1>5 DEF Sound, Lock, Place, Placed, Structure

\* The records that are its own.
LEMMA OwnRecords ==
  ASSUME NEW on, NEW rank, Sound(on, rank), NEW p \in Proc, pc[p] \in DeleteLabel \cup StoreLabel
  PROVE  /\ Own(p, on) \cap Rec
              = on[chain(p)] \cup InHand(p) \cup (IF pc[p] \in FreeLabel THEN on[FREE_OFF] ELSE {})
         /\ Own(p, on) \cap (Rec \cup {Len(idx) + 1}) = (Own(p, on) \cap Rec) \cup {Len(idx) + 1}
         /\ Len(idx) + 1 \notin Rec
  <1>1. Len(idx) + 1 \notin Rec
    BY DEF Sound, TypeInv, FilesType, Rec
  <1>2. InHand(p) \subseteq Rec
    BY HandIsRecord
  <1>3. /\ on[chain(p)] \subseteq Rec /\ on[FREE_OFF] \subseteq Rec /\ chain(p) \notin Rec
        /\ FREE_OFF \notin Rec
    BY Writer
  <1> QED BY <1>1, <1>2, <1>3 DEF Own

\* Nobody else is unlinking a record of p's.
LEMMA OwnDeleting ==
  ASSUME NEW on, NEW rank, Sound(on, rank), NEW p \in Proc, Step(p),
         pc[p] \in DeleteLabel \cup StoreLabel, NEW x \in on[chain(p)]
  PROVE  /\ Deleting(x) = IF pc[p] \in Linking /\ h[p].idxoff = x THEN {p} ELSE {}
         /\ Deleting(x)' = IF pc'[p] \in Linking /\ h'[p].idxoff = x THEN {p} ELSE {}
         /\ pc[p] # "dl_unlink" => x \notin on[FREE_OFF]
  <1>1. pc[p] \in ChainLabel /\ req[p].op # "fetch" /\ chain(p) \in Chain
    BY Writer
  <1>2. ASSUME NEW q \in Proc \ {p}, pc[q] \in Linking, h[q].idxoff = x PROVE FALSE
    <2>1. pc[q] \in ChainLabel /\ req[q].op # "fetch" /\ chain(q) \in Chain /\ x \in on[chain(q)]
      BY <1>2, Linked
    <2>2. chain(q) # chain(p)
      BY <2>1, <1>1, Apart DEF Sound
    <2> QED BY <2>1, <2>2, <1>1 DEF Sound, Placed, Structure
  <1>3. \A q \in Proc \ {p} : pc'[q] = pc[q] /\ h'[q] = h[q]
    BY QuietMoves
  <1>4. ASSUME pc[p] # "dl_unlink", x \in on[FREE_OFF] PROVE FALSE
    <2>1. PICK r \in Proc : pc[r] = "dl_unlink" /\ h[r].idxoff = x
      BY <1>1, <1>4, Overlap
    <2> QED BY <2>1, <1>2, <1>4 DEF Linking
  <1> QED BY <1>2, <1>3, <1>4 DEF Deleting, Linking

\* A step that leaves its lists as they are.
LEMMA SameStructure ==
  ASSUME NEW on, NEW rank, Sound(on, rank), NEW p \in Proc, Step(p),
         pc[p] \in DeleteLabel \cup StoreLabel, UNCHANGED <<ptr, idx>>,
         pc[p] \notin Linking, pc'[p] \notin Linking, InHand(p)' = InHand(p)
  PROVE  OwnStructure(p, on, on, rank)
  <1> DEFINE c == chain(p)
  <1>1. pc[p] \in ChainLabel /\ req[p].op # "fetch" /\ c \in Chain /\ c \in Lock /\ FREE_OFF \in Lock
    BY Writer
  <1>2. Structure(on, rank) /\ Rec' = Rec
    BY DEF Sound, Placed, Rec
  <1>3. on[c] \cup {c} \subseteq Own(p, on) \cap Place
    BY Writer DEF Own
  <1>4. \A x \in on[c] \cup {c} : ChainPtr[x] = ptr[x] /\ ChainPtr'[x] = ptr[x]
    BY <1>1, <1>3, OwnPtr
  <1>5. IsList(ChainPtr', c, on[c], rank[c])
    BY <1>1, <1>2, <1>4, ListSame DEF Structure
  <1>6. IsList(ptr', FREE_OFF, on[FREE_OFF], rank[FREE_OFF])
    BY <1>2 DEF Structure
  <1>7. on[c] \cap on[FREE_OFF] = {}
    BY OwnDeleting DEF Linking
  <1>8. InHand(p)' \cap on[c] = {} /\ InHand(p)' \cap on[FREE_OFF] = {}
    BY <1>1, <1>2 DEF Structure
  <1>9. on[c] \cup InHand(p)' \cup (IF pc[p] \in FreeLabel THEN on[FREE_OFF] ELSE {})
          = Own(p, on) \cap Rec'
    BY <1>2, OwnRecords
  <1> QED BY <1>5, <1>6, <1>7, <1>8, <1>9 DEF OwnStructure

\* A step that leaves its keys as they are.
LEMMA SameKeys ==
  ASSUME NEW on, NEW rank, Sound(on, rank), NEW p \in Proc, Step(p),
         pc[p] \in DeleteLabel \cup StoreLabel, \A i \in on[chain(p)] : idx'[i] = idx[i],
         pc[p] \notin Linking, pc'[p] \notin Linking,
         pc[p] \in FreeLabel =>
           \A i \in on[FREE_OFF] : idx'[i].key = Blank /\ dat'[idx'[i].datoff] = Blank
  PROVE  OwnKeys(p, on)
  <1>1. Keys(on) /\ chain(p) \in Chain
    BY Writer DEF Sound, Placed
  <1>2. \A i \in on[chain(p)] : Deleting(i) = {}
    BY OwnDeleting
  <1> QED BY <1>1, <1>2 DEF Keys, OwnKeys

\* The data are blanked: the record keeps its place and its key.
LEMMA DeleteBlankStep ==
  ASSUME NEW on, NEW rank, Sound(on, rank), NEW p \in Proc, Step(p), DeleteBlank(p)
  PROVE  Placed(on, rank)'
  <1> DEFINE c == chain(p)
             i == h[p].idxoff
             d == h[p].datoff
  <1>1. /\ pc[p] = "dl_blank" /\ pc'[p] = "dl_free" /\ UNCHANGED <<ptr, idx, req, h>>
        /\ dat' = [dat EXCEPT ![d] = Blank]
    BY QuietMoves DEF DeleteBlank, At, Goto
  <1>2. pc[p] \in DeleteLabel \cup StoreLabel /\ pc[p] \notin Linking /\ pc'[p] \notin Linking
    BY <1>1 DEF DeleteLabel, Blanking, Linking
  <1>3. Knows(p, on, rank) /\ c \in Chain /\ on[c] \subseteq Rec /\ on[FREE_OFF] \subseteq Rec /\ Rec' = Rec
    BY <1>1, <1>2, Writer DEF Rec
  <1>4. i \in on[c] /\ idx[i].key = req[p].key /\ d = idx[i].datoff /\ i \in Rec
    BY <1>1, <1>3 DEF Knows, AtKey, Blanking
  <1>5. d \in 1 .. Len(dat) /\ \A e \in 1 .. Len(dat) : dat'[e] = IF e = d THEN Blank ELSE dat[e]
    BY <1>1, <1>4 DEF Sound, TypeInv, FilesType
  <1>6. \A j \in Rec : /\ idx[j].datoff \in 1 .. Len(dat)
                       /\ dat'[idx[j].datoff] = IF j = i THEN Blank ELSE dat[idx[j].datoff]
    BY <1>4, <1>5 DEF Sound, Placed, Lengths, TypeInv, FilesType
  <1>7. Writes(p, on, rank, on, rank)
    <2>1. i \in Own(p, on)
      BY <1>4 DEF Own
    <2>2. KeepsDatoff(p)
      BY <1>1, <1>3 DEF KeepsDatoff
    <2>3. pc[p] \in ChainLabel /\ req[p].op # "fetch"
      BY <1>2, Writer
    <2>4. \A e \in 1 .. Len(dat) : dat'[e] = dat[e] \/ \E j \in Rec \cap Own(p, on) : idx[j].datoff = e
      BY <2>1, <1>4, <1>5
    <2>5. UNCHANGED <<ptr, idx>>
      BY <1>1
    <2> QED BY <2>2, <2>3, <2>4, <2>5, <1>2 DEF Writes
  <1>8. OwnStructure(p, on, on, rank)
    <2>1. InHand(p)' = InHand(p)
      BY <1>1 DEF InHand, At
    <2> QED BY <2>1, <1>1, <1>2, SameStructure
  <1>9. OwnKeys(p, on)
    <2>1. \A j \in on[FREE_OFF] : idx[j].key = Blank /\ dat'[idx[j].datoff] = Blank
      BY <1>3, <1>6 DEF Sound, Placed, Keys
    <2> QED BY <2>1, <1>1, <1>2, SameKeys
  <1>10. OwnLengths(p, on)
    <2>1. \A j \in Own(p, on) \cap Rec' :
            /\ dat'[idx'[j].datoff] # Blank => DatLen[dat'[idx'[j].datoff]] = idx'[j].datlen
      BY <1>1, <1>3, <1>6 DEF Sound, Placed, Lengths
    <2>2. ASSUME NEW j \in Own(p, on) \cap Rec', idx[j].key # Blank, dat'[idx[j].datoff] = Blank
          PROVE  j = i
      <3>1. CASE j # i
        <4>1. dat[idx[j].datoff] = Blank /\ j \in Rec
          BY <2>2, <3>1, <1>3, <1>6
        <4>2. PICK q \in Proc : pc[q] \in {"dl_free", "dl_idx"} /\ h[q].idxoff = j
          BY <4>1, <2>2 DEF Sound, Placed, Lengths
        <4>3. /\ q # p /\ Knows(q, on, rank) /\ pc[q] \in DeleteLabel /\ pc[q] \in FreeLabel
              /\ pc[p] \in FreeLabel
          BY <4>2, <1>1 DEF DeleteLabel, FreeLabel, Blanking, Sound, Placed
        <4> QED BY <4>3, FreeApart DEF Sound
      <3> QED BY <3>1
    <2>3. ~Appends(p)'
      BY <1>1 DEF Appends, At
    <2> QED BY <2>1, <2>2, <2>3, <1>1 DEF OwnLengths
  <1>11. Knows(p, on, rank)'
    <2>1. chain(p)' = c /\ ChainPtr'[h[p].ptroff] = ChainPtr[h[p].ptroff]
      <3>1. h[p].ptroff \in on[c] \cup {c}
        BY <1>1, <1>3 DEF Knows, Behind, Blanking
      <3>2. h[p].ptroff \in Own(p, on) \cap Place
        BY <3>1, <1>2, Writer DEF Own
      <3>3. pc[p] \in ChainLabel /\ req[p].op # "fetch"
        BY <1>2, Writer
      <3> QED BY <3>2, <3>3, <1>1, <1>2, OwnPtr DEF chain
    <2> QED BY <2>1, <1>1, <1>3, <1>4, <1>6
            DEF Knows, At, AtKey, Behind, Blanking, Linking, FindFree, StoreLabel, Appends
  <1> QED BY <1>7, <1>8, <1>9, <1>10, <1>11, WrittenIsPlaced

\* The data are overwritten by data of the same length.
LEMMA OverwriteStep ==
  ASSUME NEW on, NEW rank, Sound(on, rank), NEW p \in Proc, Step(p), Overwrite(p)
  PROVE  Placed(on, rank)'
  <1> DEFINE c == chain(p)
             i == h[p].idxoff
             d == h[p].datoff
  <1>1. /\ pc[p] = "overwrite" /\ pc'[p] = "unlock" /\ UNCHANGED <<ptr, idx, req, h>>
        /\ dat' = [dat EXCEPT ![d] = req[p].data]
    BY QuietMoves DEF Overwrite, At, Goto
  <1>2. pc[p] \in DeleteLabel \cup StoreLabel /\ pc[p] \notin Linking /\ pc'[p] \notin Linking
    BY <1>1 DEF StoreLabel, Linking
  <1>3. /\ Knows(p, on, rank) /\ c \in Chain /\ on[c] \subseteq Rec /\ on[FREE_OFF] \subseteq Rec
        /\ Rec' = Rec /\ req[p].key # Blank
    BY <1>1, <1>2, Writer DEF Rec
  <1>4. i \in on[c] /\ idx[i].key = req[p].key /\ d = idx[i].datoff /\ i \in Rec
    BY <1>1, <1>3 DEF Knows, AtKey
  <1>5. /\ DatLen[req[p].data] = idx[i].datlen
    BY <1>1, <1>3 DEF Knows, At
  <1>6. \A j \in Rec : /\ idx[j].datoff \in 1 .. Len(dat)
                       /\ dat'[idx[j].datoff] = IF j = i THEN req[p].data ELSE dat[idx[j].datoff]
    BY <1>1, <1>4 DEF Sound, Placed, Lengths, TypeInv, FilesType
  <1>7. Writes(p, on, rank, on, rank)
    <2>1. i \in Own(p, on)
      BY <1>4 DEF Own
    <2>2. KeepsDatoff(p)
      BY <1>1, <1>3 DEF KeepsDatoff
    <2>3. pc[p] \in ChainLabel /\ req[p].op # "fetch"
      BY <1>2, Writer
    <2>4. \A e \in 1 .. Len(dat) : dat'[e] = dat[e] \/ \E j \in Rec \cap Own(p, on) : idx[j].datoff = e
      BY <2>1, <1>1, <1>4 DEF Sound, TypeInv, FilesType
    <2>5. UNCHANGED <<ptr, idx>>
      BY <1>1
    <2> QED BY <2>2, <2>3, <2>4, <2>5, <1>2 DEF Writes
  <1>8. OwnStructure(p, on, on, rank)
    <2>1. InHand(p)' = InHand(p)
      BY <1>1 DEF InHand, At
    <2> QED BY <2>1, <1>1, <1>2, SameStructure
  <1>9. OwnKeys(p, on)
    <2>1. \A j \in on[FREE_OFF] : idx[j].key = Blank /\ dat'[idx[j].datoff] = Blank
      BY <1>3, <1>4, <1>6 DEF Sound, Placed, Keys
    <2> QED BY <2>1, <1>1, <1>2, SameKeys
  <1>10. OwnLengths(p, on)
    <2>1. req[p].data # Blank
      BY <1>1 DEF Sound, Asked, ChainLabel, StoreLabel
    <2>2. \A j \in Own(p, on) \cap Rec' :
            /\ dat'[idx'[j].datoff] # Blank => DatLen[dat'[idx'[j].datoff]] = idx'[j].datlen
      BY <1>1, <1>3, <1>5, <1>6 DEF Sound, Placed, Lengths
    <2>3. ASSUME NEW j \in Own(p, on) \cap Rec', idx[j].key # Blank, dat'[idx[j].datoff] = Blank
          PROVE  FALSE
      <3>1. j # i /\ dat[idx[j].datoff] = Blank /\ j \in Rec
        BY <2>1, <2>3, <1>3, <1>6
      <3>2. PICK q \in Proc : pc[q] \in {"dl_free", "dl_idx"} /\ h[q].idxoff = j
        BY <3>1, <2>3 DEF Sound, Placed, Lengths
      <3>3. q # p /\ Knows(q, on, rank) /\ pc[q] \in DeleteLabel /\ pc[q] \in FreeLabel
        BY <3>2, <1>1 DEF DeleteLabel, FreeLabel, Blanking, Sound, Placed
      <3>4. j \in on[chain(q)] /\ idx[j].key = req[q].key
        BY <3>2, <3>3 DEF Knows, AtKey, Blanking
      <3>5. chain(q) \in Chain \ {c}
        BY <3>3, <1>2, Writer, Apart DEF Sound
      <3>6. pc[p] \in ChainLabel /\ req[p].op # "fetch" /\ FREE_OFF \notin Chain
        BY <1>2, Writer
      <3> QED BY <3>4, <3>5, <3>6, <2>3, NotOwn
    <2>4. ~Appends(p)'
      BY <1>1 DEF Appends, At
    <2> QED BY <2>2, <2>3, <2>4, <1>1 DEF OwnLengths
  <1>11. Knows(p, on, rank)'
    BY <1>1, Forgets DEF KnowLabel, DeleteLabel, StoreLabel, Blanking, Linking, FindFree
  <1> QED BY <1>7, <1>8, <1>9, <1>10, <1>11, WrittenIsPlaced

\* The record gets a blank key and freeptr; its chain goes on through saveptr.
LEMMA DeleteWriteIdxStep ==
  ASSUME NEW on, NEW rank, Sound(on, rank), NEW p \in Proc, Step(p), DeleteWriteIdx(p)
  PROVE  Placed(on, rank)'
  <1> DEFINE c == chain(p)
             i == h[p].idxoff
  <1>1. /\ pc[p] = "dl_idx" /\ pc'[p] = "dl_ptr" /\ UNCHANGED <<dat, req>>
        /\ idx' = [idx EXCEPT ![i].key = Blank] /\ ptr' = [ptr EXCEPT ![i] = h[p].offset]
        /\ h'[p] = [h[p] EXCEPT !.ptrval = h[p].offset]
    BY QuietMoves DEF DeleteWriteIdx, At, Goto, Handle
  <1>2. /\ pc[p] \in DeleteLabel \cup StoreLabel /\ pc[p] \notin Linking /\ pc'[p] \in Linking
        /\ pc[p] \in FreeLabel
    BY <1>1 DEF DeleteLabel, FreeLabel, Blanking, Linking
  <1>3. /\ Knows(p, on, rank) /\ c \in Chain /\ on[c] \subseteq Rec /\ on[FREE_OFF] \subseteq Rec
        /\ req[p].key # Blank /\ pc[p] \in ChainLabel /\ req[p].op # "fetch" /\ h[p] \in Handles
        /\ Structure(on, rank) /\ Keys(on) /\ Lengths /\ chain(p)' = c
        /\ c \notin Nat /\ FREE_OFF \notin Nat /\ Rec \subseteq Nat /\ Rec \subseteq Place
    <2>1. /\ Knows(p, on, rank) /\ c \in Chain /\ on[c] \subseteq Rec /\ on[FREE_OFF] \subseteq Rec
          /\ req[p].key # Blank /\ pc[p] \in ChainLabel /\ req[p].op # "fetch" /\ h[p] \in Handles
          /\ c \notin Nat /\ FREE_OFF \notin Nat /\ Rec \subseteq Nat /\ Rec \subseteq Place
      BY <1>2, Writer
    <2>2. Structure(on, rank) /\ Keys(on) /\ Lengths
      BY DEF Sound, Placed
    <2>3. chain(p)' = c
      BY <1>1 DEF chain
    <2> QED BY <2>1, <2>2, <2>3
  <1>4. i \in on[c] /\ idx[i].key = req[p].key /\ i \in Rec /\ i # 0 /\ i # c /\ i # FREE_OFF
    BY <1>1, <1>3 DEF Knows, AtKey, Blanking, Rec
  <1>5. /\ h[p].offset = ptr[FREE_OFF] /\ h[p].save = ptr[i] /\ dat[idx[i].datoff] = Blank
        /\ h[p].ptroff \in on[c] \cup {c} /\ ChainPtr[h[p].ptroff] = i
    BY <1>1, <1>3 DEF Knows, Behind, Blanking, At
  <1>6. h'[p].idxoff = i /\ h'[p].save = h[p].save /\ h'[p].ptroff = h[p].ptroff
    BY <1>1, <1>3 DEF Handles, HandlesOf
  <1>7. /\ Len(idx') = Len(idx) /\ Rec' = Rec
        /\ \A j \in Rec : j # i => idx'[j] = idx[j]
        /\ idx'[i].key = Blank /\ idx'[i].datoff = idx[i].datoff /\ idx'[i].datlen = idx[i].datlen
    BY <1>1, <1>4 DEF Sound, TypeInv, FilesType, Rec, IndexRecord
  <1>8. /\ \A x \in Place : ptr'[x] = IF x = i THEN ptr[FREE_OFF] ELSE ptr[x]
    BY <1>1, <1>3, <1>4, <1>5 DEF Sound, TypeInv, FilesType
  <1>9. i \in Own(p, on) /\ i \notin on[FREE_OFF]
    BY <1>1, <1>2, <1>4, OwnDeleting DEF Own
  <1>10. Writes(p, on, rank, on, rank)
    <2>2. KeepsDatoff(p)
      BY <1>7 DEF KeepsDatoff
    <2>3. \A x \in Place \ Own(p, on) : ptr'[x] = ptr[x]
      BY <1>8, <1>9
    <2>4. \A j \in Rec \ Own(p, on) : idx'[j] = idx[j]
      BY <1>7, <1>9
    <2> QED BY <2>2, <2>3, <2>4, <1>1, <1>3, <1>6, <1>9 DEF Writes
  <1>11. \A x \in on[c] \cup {c} : ChainPtr'[x] = ChainPtr[x]
    <2>1. ASSUME NEW x \in on[c] \cup {c} PROVE ChainPtr'[x] = ChainPtr[x]
      <3>1. x \in Own(p, on) \cap Place
        BY <1>2, <1>3, Writer DEF Own
      <3>2. /\ ChainPtr[x] = ptr[x]
            /\ ChainPtr'[x] = IF x \in Rec' /\ i = x THEN h[p].save ELSE ptr'[x]
        BY <3>1, <1>2, <1>3, <1>6, OwnPtr
      <3> QED BY <3>1, <3>2, <1>4, <1>5, <1>7, <1>8
    <2> QED BY <2>1
  <1>12. OwnStructure(p, on, on, rank)
    <2>1. InHand(p)' = {} /\ InHand(p) = {}
      BY <1>1 DEF InHand, At
    <2>2. IsList(ChainPtr', c, on[c], rank[c])
      BY <1>3, <1>11, ListSame DEF Structure
    <2>3. \A x \in on[FREE_OFF] \cup {FREE_OFF} : ptr'[x] = ptr[x]
      BY <1>2, <1>3, <1>4, <1>8, <1>9, Writer
    <2>4. IsList(ptr', FREE_OFF, on[FREE_OFF], rank[FREE_OFF])
      BY <2>3, <1>3, ListSame DEF Structure
    <2>5. on[c] \cap on[FREE_OFF] = {}
      BY <1>1, <1>2, OwnDeleting
    <2>6. on[c] \cup on[FREE_OFF] = Own(p, on) \cap Rec'
      BY <2>1, <1>2, <1>7, OwnRecords
    <2> QED BY <2>1, <2>2, <2>4, <2>5, <2>6, <1>2 DEF OwnStructure
  <1>13. OwnKeys(p, on)
    <2>1. ASSUME NEW j \in on[c] PROVE IF idx'[j].key = Blank THEN Deleting(j)' # {} ELSE Hash[idx'[j].key] = c
      <3>1. CASE j = i
        BY <3>1, <1>2, <1>6, <1>7, <1>4, OwnDeleting
      <3>2. CASE j # i
        <4>1. Deleting(j) = {} /\ idx'[j] = idx[j]
          BY <3>2, <1>2, <1>3, <1>7, OwnDeleting
        <4> QED BY <4>1, <1>3 DEF Keys
      <3> QED BY <3>1, <3>2
    <2>2. ASSUME NEW j \in on[c], NEW k \in on[c], idx'[j].key = idx'[k].key, idx'[j].key # Blank
          PROVE  j = k
      <3>1. idx'[j] = idx[j] /\ idx'[k] = idx[k]
        BY <2>2, <1>3, <1>7
      <3> QED BY <3>1, <2>2, <1>3 DEF Keys
    <2>3. \A j \in on[FREE_OFF] : idx'[j].key = Blank /\ dat'[idx'[j].datoff] = Blank
      BY <1>1, <1>3, <1>7, <1>9 DEF Keys
    <2> QED BY <2>1, <2>2, <2>3 DEF OwnKeys
  <1>14. OwnLengths(p, on)
    <2>1. ASSUME NEW j \in Rec', dat'[idx'[j].datoff] # Blank
          PROVE  DatLen[dat'[idx'[j].datoff]] = idx'[j].datlen
      <3>1. idx'[j].datoff = idx[j].datoff /\ idx'[j].datlen = idx[j].datlen /\ j \in Rec
        BY <1>7
      <3> QED BY <3>1, <2>1, <1>1, <1>3 DEF Lengths
    <2>2. ASSUME NEW j \in Own(p, on) \cap Rec', idx'[j].key # Blank, dat'[idx'[j].datoff] = Blank
          PROVE  FALSE
      <3>1. j # i /\ idx'[j] = idx[j] /\ j \in Rec
        BY <2>2, <1>7
      <3>2. PICK q \in Proc : pc[q] \in {"dl_free", "dl_idx"} /\ h[q].idxoff = j
        BY <3>1, <2>2, <1>1, <1>3 DEF Lengths
      <3>3. q # p /\ pc[q] \in FreeLabel
        BY <3>1, <3>2 DEF DeleteLabel, FreeLabel, Blanking
      <3> QED BY <3>3, <1>2, FreeApart DEF Sound
    <2>3. ~Appends(p)'
      BY <1>1 DEF Appends, At
    <2> QED BY <2>1, <2>2, <2>3 DEF OwnLengths
  <1>15. Knows(p, on, rank)'
    <2>1. Behind(p, on)'
      BY <1>3, <1>5, <1>6, <1>11 DEF Behind
    <2>2. Absent(p, on)'
      <3>1. \A j \in on[c] : j # i => idx[j].key # req[p].key
        BY <1>3, <1>4 DEF Keys
      <3> QED BY <3>1, <1>1, <1>3, <1>7 DEF Absent
    <2>3. ptr'[i] = ptr'[FREE_OFF] /\ dat'[idx'[i].datoff] = Blank
      BY <1>1, <1>2, <1>3, <1>4, <1>5, <1>7, <1>8, Writer
    <2> QED BY <2>1, <2>2, <2>3, <1>1, <1>3, <1>4, <1>6, <1>7
            DEF Knows, At, Blanking, Linking, FindFree, StoreLabel, Appends
  <1> QED BY <1>10, <1>12, <1>13, <1>14, <1>15, WrittenIsPlaced

\* There are lists on which every record is placed.
PlacedSomehow ==
  \E on \in [Lock -> SUBSET (1 .. MaxRec)], rank \in [Lock -> [1 .. MaxRec -> Nat]] :
    Placed(on, rank)

\* The record is the head of the free list, and on its chain still.
LEMMA DeleteWriteFreeStep ==
  ASSUME NEW on, NEW rank, Sound(on, rank), NEW p \in Proc, Step(p), DeleteWriteFree(p)
  PROVE  PlacedSomehow'
  <1> DEFINE c == chain(p)
             i == h[p].idxoff
  <1>1. /\ pc[p] = "dl_ptr" /\ pc'[p] = "dl_unlink" /\ UNCHANGED <<idx, dat, req, h>>
        /\ ptr' = [ptr EXCEPT ![FREE_OFF] = i]
    BY QuietMoves DEF DeleteWriteFree, At, Goto
  <1>2. /\ pc[p] \in DeleteLabel \cup StoreLabel /\ pc[p] \in Linking /\ pc'[p] \in Linking
        /\ pc[p] \in FreeLabel
    BY <1>1 DEF DeleteLabel, FreeLabel, Blanking, Linking
  <1>3. /\ Knows(p, on, rank) /\ c \in Chain /\ c \in Lock /\ FREE_OFF \in Lock
        /\ on[c] \subseteq Rec /\ on[FREE_OFF] \subseteq Rec
        /\ pc[p] \in ChainLabel /\ req[p].op # "fetch" /\ h[p] \in Handles
        /\ c \notin Nat /\ FREE_OFF \notin Nat /\ c # FREE_OFF
        /\ Rec \subseteq Nat /\ Rec \subseteq 1 .. MaxRec /\ Rec \subseteq Place /\ Lock \subseteq Place
        /\ on[FREE_OFF] \in SUBSET (1 .. MaxRec) /\ rank[FREE_OFF] \in [1 .. MaxRec -> Nat]
    BY <1>2, Writer
  <1>4. Structure(on, rank) /\ Keys(on) /\ Lengths /\ Rec' = Rec /\ chain(p)' = c
    BY <1>1 DEF Sound, Placed, Rec, chain
  <1>5. /\ i \in on[c] /\ idx[i].key = Blank /\ dat[idx[i].datoff] = Blank
        /\ ptr[i] = ptr[FREE_OFF] /\ i \in Rec /\ Behind(p, on) /\ Absent(p, on)
    BY <1>1, <1>2, <1>3 DEF Knows, At, Linking
  <1>6. \A x \in Place : ptr'[x] = IF x = FREE_OFF THEN i ELSE ptr[x]
    BY <1>1 DEF Sound, TypeInv, FilesType
  <1>7. /\ i \in (1 .. MaxRec) \ on[FREE_OFF]
    BY <1>1, <1>2, <1>3, <1>5, OwnDeleting
  <1>a. PICK r2 : r2 = Front(rank[FREE_OFF], ptr, FREE_OFF, i)
    OBVIOUS
  <1>b. PICK on2 : on2 = [on EXCEPT ![FREE_OFF] = on[FREE_OFF] \cup {i}]
    OBVIOUS
  <1>c. PICK rank2 : rank2 = [rank EXCEPT ![FREE_OFF] = r2]
    OBVIOUS
  <1>8. /\ on2 \in [Lock -> SUBSET (1 .. MaxRec)]
        /\ \A l \in Lock \ {FREE_OFF} : on2[l] = on[l] /\ rank2[l] = rank[l]
        /\ on2[FREE_OFF] = on[FREE_OFF] \cup {i} /\ rank2[FREE_OFF] = r2
    BY <1>3, <1>7, <1>b, <1>c DEF Sound
  <1>9. r2 \in [1 .. MaxRec -> Nat] /\ IsList(ptr', FREE_OFF, on[FREE_OFF] \cup {i}, r2)
    <2>1. ptr'[FREE_OFF] = i /\ ptr'[i] = ptr[FREE_OFF] /\ \A j \in on[FREE_OFF] : ptr'[j] = ptr[j]
      BY <1>3, <1>5, <1>6
    <2>2. IsList(ptr, FREE_OFF, on[FREE_OFF], rank[FREE_OFF]) /\ FREE_OFF \notin 1 .. MaxRec
      BY <1>3, <1>4 DEF Structure
    <2>3. /\ on[FREE_OFF] \in SUBSET (1 .. MaxRec) /\ rank[FREE_OFF] \in [1 .. MaxRec -> Nat]
          /\ i \in (1 .. MaxRec) \ on[FREE_OFF]
      BY <1>3, <1>7
    <2>4. MaxRec \in Nat
      OBVIOUS
    <2> HIDE DEF i, c
    <2> QED BY <1>a, <2>1, <2>2, <2>3, <2>4, ListFront, Zenon
  <1>10. rank2 \in [Lock -> [1 .. MaxRec -> Nat]]
    BY <1>9, <1>c DEF Sound
  <1>11. Writes(p, on, rank, on2, rank2)
    <2>1. FREE_OFF \in Own(p, on) /\ i \in Own(p, on)
      BY <1>2, <1>5 DEF Own
    <2>2. KeepsDatoff(p)
      BY <1>1, <1>4 DEF KeepsDatoff
    <2>3. \A x \in Place \ Own(p, on) : ptr'[x] = ptr[x]
      BY <1>6, <2>1
    <2> QED BY <2>1, <2>2, <2>3, <1>1, <1>2, <1>3, <1>8 DEF Writes
  <1>12. \A x \in on[c] \cup {c} : ChainPtr'[x] = ChainPtr[x]
    <2>1. ASSUME NEW x \in on[c] \cup {c} PROVE ChainPtr'[x] = ChainPtr[x]
      <3>1. x \in Own(p, on) \cap Place /\ x # FREE_OFF
        BY <1>3 DEF Own
      <3>2. /\ ChainPtr[x] = IF x \in Rec /\ i = x THEN h[p].save ELSE ptr[x]
            /\ ChainPtr'[x] = IF x \in Rec' /\ i = x THEN h[p].save ELSE ptr'[x]
        BY <3>1, <1>1, <1>2, <1>3, OwnPtr
      <3> QED BY <3>1, <3>2, <1>4, <1>6
    <2> QED BY <2>1
  <1>13. OwnStructure(p, on, on2, rank2)
    <2>1. InHand(p)' = {} /\ InHand(p) = {}
      BY <1>1 DEF InHand, At
    <2>2. IsList(ChainPtr', c, on2[c], rank2[c])
      BY <1>3, <1>4, <1>8, <1>12, ListSame DEF Structure
    <2>3. on[c] \cap on[FREE_OFF] = {}
      BY <1>1, <1>2, OwnDeleting
    <2>4. \A j \in {i} : Unlinking(j)'
      BY <1>1 DEF Unlinking, At
    <2>5. on2[c] \cup on2[FREE_OFF] = Own(p, on) \cap Rec'
      <3>1. Own(p, on) \cap Rec = on[c] \cup on[FREE_OFF]
        BY <2>1, <1>2, OwnRecords
      <3>2. on2[c] = on[c] /\ on2[FREE_OFF] = on[FREE_OFF] \cup {i} /\ i \in on[c] /\ Rec' = Rec
        BY <1>3, <1>4, <1>5, <1>8
      <3> QED BY <3>1, <3>2
    <2>6. IsList(ptr', FREE_OFF, on2[FREE_OFF], rank2[FREE_OFF])
      BY <1>8, <1>9
    <2>10. on2[c] \cup InHand(p)' \cup (IF pc[p] \in FreeLabel THEN on2[FREE_OFF] ELSE {})
             = Own(p, on) \cap Rec'
      BY <2>1, <2>5, <1>2
    <2>8. InHand(p)' \cap on2[c] = {} /\ InHand(p)' \cap on2[FREE_OFF] = {}
      BY <2>1
    <2>9. pc[p] \in FreeLabel
      BY <1>2
    <2>7. \A j \in on2[c] \cap on2[FREE_OFF] : Unlinking(j)'
      <3>1. on2[c] \cap on2[FREE_OFF] \subseteq {i}
        <4>1. on2[c] = on[c] /\ on2[FREE_OFF] = on[FREE_OFF] \cup {i}
          BY <1>3, <1>8
        <4> QED BY <4>1, <2>3
      <3> QED BY <3>1, <2>4
    <2> QED BY <2>2, <2>6, <2>7, <2>8, <2>9, <2>10 DEF OwnStructure
  <1>14. OwnKeys(p, on2)
    <2>1. \A j \in on[c] : Deleting(j)' = Deleting(j)
      BY <1>1, <1>2, OwnDeleting
    <2>2. \A j \in on2[FREE_OFF] : idx'[j].key = Blank /\ dat'[idx'[j].datoff] = Blank
      BY <1>1, <1>4, <1>5, <1>8 DEF Keys
    <2>3. on2[c] = on[c]
      BY <1>3, <1>8
    <2> QED BY <2>1, <2>2, <2>3, <1>1, <1>3, <1>4 DEF Keys, OwnKeys
  <1>15. OwnLengths(p, on)
    <2>2. ASSUME NEW j \in Own(p, on) \cap Rec', idx'[j].key # Blank, dat'[idx'[j].datoff] = Blank
          PROVE  FALSE
      <3>2. PICK q \in Proc : pc[q] \in {"dl_free", "dl_idx"} /\ h[q].idxoff = j
        BY <2>2, <1>1, <1>4 DEF Lengths
      <3>3. q # p /\ pc[q] \in FreeLabel
        BY <3>2, <1>1 DEF DeleteLabel, FreeLabel, Blanking
      <3> QED BY <3>3, <1>2, FreeApart DEF Sound
    <2>3. ~Appends(p)'
      BY <1>1 DEF Appends, At
    <2> QED BY <2>2, <2>3, <1>1, <1>4 DEF OwnLengths, Lengths
  <1>16. Knows(p, on2, rank2)'
    <2>1. on2[c] = on[c] /\ i \in on2[FREE_OFF]
      BY <1>3, <1>8
    <2>2. Behind(p, on2)' /\ Absent(p, on2)'
      BY <2>1, <1>1, <1>4, <1>5, <1>12 DEF Behind, Absent
    <2> QED BY <2>1, <2>2, <1>1, <1>4, <1>5
            DEF Knows, At, Blanking, Linking, FindFree, StoreLabel, Appends
  <1>17. Placed(on2, rank2)'
    BY <1>11, <1>13, <1>14, <1>15, <1>16, WrittenIsPlaced
  <1> QED BY <1>8, <1>10, <1>17 DEF PlacedSomehow

\* The record leaves its chain.
LEMMA DeleteUnlinkStep ==
  ASSUME NEW on, NEW rank, Sound(on, rank), NEW p \in Proc, Step(p), DeleteUnlink(p)
  PROVE  PlacedSomehow'
  <1> DEFINE c == chain(p)
             i == h[p].idxoff
             x == h[p].ptroff
  <1>1. /\ pc[p] = "dl_unlink" /\ pc'[p] = "dl_unlock" /\ UNCHANGED <<idx, dat, req, h>>
        /\ ptr' = [ptr EXCEPT ![x] = h[p].save]
    BY QuietMoves DEF DeleteUnlink, At, Goto
  <1>2. /\ pc[p] \in DeleteLabel \cup StoreLabel /\ pc[p] \in Linking /\ pc'[p] \notin Linking
        /\ pc[p] \in FreeLabel
    BY <1>1 DEF DeleteLabel, FreeLabel, Blanking, Linking
  <1>3. /\ Knows(p, on, rank) /\ c \in Chain /\ c \in Lock /\ FREE_OFF \in Lock
        /\ on[c] \subseteq Rec /\ on[FREE_OFF] \subseteq Rec
        /\ pc[p] \in ChainLabel /\ req[p].op # "fetch" /\ h[p] \in Handles
        /\ c \notin Nat /\ FREE_OFF \notin Nat /\ c # FREE_OFF
        /\ Rec \subseteq Nat /\ Rec \subseteq 1 .. MaxRec /\ Rec \subseteq Place /\ Lock \subseteq Place
        /\ on[c] \in SUBSET (1 .. MaxRec) /\ rank[c] \in [1 .. MaxRec -> Nat]
    BY <1>2, Writer
  <1>4. Structure(on, rank) /\ Keys(on) /\ Lengths /\ Rec' = Rec /\ chain(p)' = c
    BY <1>1 DEF Sound, Placed, Rec, chain
  <1>5. /\ i \in on[c] /\ i \in on[FREE_OFF] /\ i \in Rec /\ Absent(p, on)
        /\ x \in on[c] \cup {c} /\ ChainPtr[x] = i
    BY <1>1, <1>2, <1>3 DEF Knows, Behind, At, Linking
  <1>6. IsList(ChainPtr, c, on[c], rank[c])
    BY <1>3, <1>4 DEF Structure
  <1>7. on[c] \cup {c} \subseteq Own(p, on) \cap Place
    BY <1>3 DEF Own
  <1>8. /\ \A y \in on[c] \cup {c} : ChainPtr[y] = IF i = y THEN h[p].save ELSE ptr[y]
        /\ \A y \in on[c] \cup {c} : ChainPtr'[y] = ptr'[y]
    <2>1. ASSUME NEW y \in on[c] \cup {c}
          PROVE  /\ ChainPtr[y] = IF i = y THEN h[p].save ELSE ptr[y]
                 /\ ChainPtr'[y] = ptr'[y]
      <3>1. /\ ChainPtr[y] = IF y \in Rec /\ i = y THEN h[p].save ELSE ptr[y]
            /\ ChainPtr'[y] = ptr'[y]
        BY <1>2, <1>3, <1>7, OwnPtr
      <3> QED BY <3>1, <1>5
    <2> QED BY <2>1
  <1>9. x # i
    <2>1. SUFFICES ASSUME x = i PROVE FALSE
      OBVIOUS
    <2>2. i # 0 /\ i # c /\ ChainPtr[i] = i
      BY <2>1, <1>3, <1>5 DEF Rec
    <2>3. i \in After(on[c], rank[c], c, i)
      BY <2>2, <1>5, <1>6 DEF IsList
    <2> QED BY <2>2, <2>3, <1>3, <1>5 DEF After
  <1>10. \A y \in Place : ptr'[y] = IF y = x THEN h[p].save ELSE ptr[y]
    BY <1>1, <1>5, <1>7 DEF Sound, TypeInv, FilesType
  \* Only the record being unlinked is on two lists.
  <1>11. \A d \in Chain : \A j \in on[d] \cap on[FREE_OFF] : j = i
    <2>1. ASSUME NEW d \in Chain, NEW j \in on[d] \cap on[FREE_OFF] PROVE j = i
      <3>1. PICK r \in Proc : pc[r] \in FreeLabel /\ h[r].idxoff = j
        BY <2>1, Overlap
      <3>2. r = p
        BY <3>1, <1>2, FreeApart DEF Sound
      <3> QED BY <3>1, <3>2
    <2> QED BY <2>1
  <1>12. x \notin on[FREE_OFF] \cup {FREE_OFF}
    BY <1>3, <1>5, <1>9, <1>11
  <1>b. PICK on2 : on2 = [on EXCEPT ![c] = on[c] \ {i}]
    OBVIOUS
  <1>13. /\ on2 \in [Lock -> SUBSET (1 .. MaxRec)]
         /\ \A l \in Lock \ {c} : on2[l] = on[l]
         /\ on2[c] = on[c] \ {i} /\ on2[FREE_OFF] = on[FREE_OFF]
    BY <1>3, <1>b DEF Sound
  <1>14. IsList(ChainPtr', c, on[c] \ {i}, rank[c])
    <2>1. ChainPtr'[x] = ChainPtr[i]
      BY <1>5, <1>7, <1>8, <1>10
    <2>2. \A k \in (on[c] \cup {c}) \ {i, x} : ChainPtr'[k] = ChainPtr[k]
      BY <1>7, <1>8, <1>10
    <2>3. c \notin 1 .. MaxRec /\ MaxRec \in Nat
      BY <1>3
    <2>4. on[c] \in SUBSET (1 .. MaxRec) /\ rank[c] \in [1 .. MaxRec -> Nat]
      BY <1>3
    <2>5. i \in on[c] /\ x \in on[c] \cup {c} /\ ChainPtr[x] = i /\ IsList(ChainPtr, c, on[c], rank[c])
      BY <1>5, <1>6
    <2> HIDE DEF i, c, x
    <2> QED BY <2>1, <2>2, <2>3, <2>4, <2>5, ListWithout, Zenon
  <1>15. Writes(p, on, rank, on2, rank)
    <2>1. x \in Own(p, on)
      BY <1>5, <1>7
    <2>2. KeepsDatoff(p)
      BY <1>1, <1>4 DEF KeepsDatoff
    <2>3. \A y \in Place \ Own(p, on) : ptr'[y] = ptr[y]
      BY <1>10, <2>1
    <2> QED BY <2>1, <2>2, <2>3, <1>1, <1>2, <1>3, <1>13 DEF Writes
  <1>16. OwnStructure(p, on, on2, rank)
    <2>1. InHand(p)' = {} /\ InHand(p) = {}
      BY <1>1 DEF InHand, At
    <2>2. IsList(ChainPtr', c, on2[c], rank[c])
      BY <1>13, <1>14
    <2>3. \A y \in on[FREE_OFF] \cup {FREE_OFF} : ptr'[y] = ptr[y]
      BY <1>3, <1>10, <1>12
    <2>4. IsList(ptr', FREE_OFF, on2[FREE_OFF], rank[FREE_OFF])
      BY <2>3, <1>4, <1>13, ListSame DEF Structure
    <2>5. on2[c] \cap on2[FREE_OFF] = {}
      BY <1>3, <1>11, <1>13
    <2>6. Own(p, on) \cap Rec' = on[c] \cup on[FREE_OFF]
      BY <2>1, <1>2, <1>4, OwnRecords
    <2>7. on2[c] \cup InHand(p)' \cup (IF pc[p] \in FreeLabel THEN on2[FREE_OFF] ELSE {})
            = Own(p, on) \cap Rec'
      BY <2>1, <2>6, <1>2, <1>5, <1>13
    <2> QED BY <2>1, <2>2, <2>4, <2>5, <2>7, <1>2 DEF OwnStructure
  <1>17. OwnKeys(p, on2)
    <2>1. \A j \in on2[c] : j \in on[c] /\ Deleting(j) = {} /\ Deleting(j)' = {}
      BY <1>2, <1>13, OwnDeleting
    <2> QED BY <2>1, <1>1, <1>3, <1>4, <1>13 DEF Keys, OwnKeys
  <1>18. OwnLengths(p, on)
    <2>1. ASSUME NEW j \in Own(p, on) \cap Rec', idx'[j].key # Blank, dat'[idx'[j].datoff] = Blank
          PROVE  FALSE
      <3>1. PICK q \in Proc : pc[q] \in {"dl_free", "dl_idx"} /\ h[q].idxoff = j
        BY <2>1, <1>1, <1>4 DEF Lengths
      <3>2. q # p /\ pc[q] \in FreeLabel
        BY <3>1, <1>1 DEF DeleteLabel, FreeLabel, Blanking
      <3> QED BY <3>2, <1>2, FreeApart DEF Sound
    <2>2. ~Appends(p)'
      BY <1>1 DEF Appends, At
    <2> QED BY <2>1, <2>2, <1>1, <1>4 DEF OwnLengths, Lengths
  <1>19. Knows(p, on2, rank)'
    <2>1. Absent(p, on2)'
      BY <1>1, <1>4, <1>5, <1>13 DEF Absent
    <2> QED BY <2>1, <1>1 DEF Knows, At, Blanking, Linking, FindFree, StoreLabel, Appends
  <1>20. Placed(on2, rank)'
    BY <1>15, <1>16, <1>17, <1>18, <1>19, WrittenIsPlaced
  <1> QED BY <1>13, <1>20 DEF PlacedSomehow, Sound

\* The record found leaves the free list for the hands of p.
LEMMA FreeUnlinkStep ==
  ASSUME NEW on, NEW rank, Sound(on, rank), NEW p \in Proc, Step(p), FreeUnlink(p)
  PROVE  PlacedSomehow'
  <1> DEFINE c == chain(p)
             i == h[p].idxoff
             x == h[p].ptroff
  <1>1. /\ pc[p] = "ff_unlink" /\ pc'[p] = "ff_unlock" /\ UNCHANGED <<idx, dat, req, h>>
        /\ ptr' = [ptr EXCEPT ![x] = h[p].ptrval]
    BY QuietMoves DEF FreeUnlink, SaveOffset, At, Goto
  <1>2. /\ pc[p] \in DeleteLabel \cup StoreLabel /\ pc[p] \notin Linking /\ pc'[p] \notin Linking
        /\ pc[p] \in FreeLabel
    BY <1>1 DEF StoreLabel, FindFree, FreeLabel, Linking
  <1>3. /\ Knows(p, on, rank) /\ c \in Chain /\ c \in Lock /\ FREE_OFF \in Lock
        /\ on[c] \subseteq Rec /\ on[FREE_OFF] \subseteq Rec
        /\ pc[p] \in ChainLabel /\ req[p].op # "fetch" /\ h[p] \in Handles
        /\ c \notin Nat /\ FREE_OFF \notin Nat /\ c # FREE_OFF
        /\ Rec \subseteq Nat /\ Rec \subseteq 1 .. MaxRec /\ Rec \subseteq Place /\ Lock \subseteq Place
        /\ on[FREE_OFF] \in SUBSET (1 .. MaxRec) /\ rank[FREE_OFF] \in [1 .. MaxRec -> Nat]
    BY <1>2, Writer
  <1>4. Structure(on, rank) /\ Keys(on) /\ Lengths /\ Rec' = Rec /\ chain(p)' = c
    BY <1>1 DEF Sound, Placed, Rec, chain
  <1>5. /\ i = h[p].offset /\ i \in on[FREE_OFF] /\ i \in Rec /\ i # 0 /\ h[p].ptrval = ptr[i]
        /\ x \in on[FREE_OFF] \cup {FREE_OFF} /\ ptr[x] = i
        /\ Absent(p, on) /\ h[p].save = ptr[c] /\ Reusing(p)
    <2>1. /\ i = h[p].offset /\ h[p].ptrval = ptr[i] /\ WalkingFree(p, on) /\ Absent(p, on)
          /\ h[p].save = ptr[c] /\ (h[p].offset # 0 => Reusing(p))
      BY <1>1, <1>3 DEF Knows, At, StoreLabel, FindFree
    <2>2. i \in on[FREE_OFF] /\ x \in on[FREE_OFF] \cup {FREE_OFF} /\ ptr[x] = i
      BY <2>1 DEF WalkingFree
    <2>3. i \in Rec /\ i # 0
      BY <2>2, <1>3 DEF Rec
    <2> QED BY <2>1, <2>2, <2>3
  <1>6. IsList(ptr, FREE_OFF, on[FREE_OFF], rank[FREE_OFF])
    BY <1>4 DEF Structure
  <1>7. \A y \in Place : ptr'[y] = IF y = x THEN ptr[i] ELSE ptr[y]
    BY <1>1, <1>3, <1>5 DEF Sound, TypeInv, FilesType
  <1>8. x # i
    <2>1. SUFFICES ASSUME x = i PROVE FALSE
      OBVIOUS
    <2>2. i # FREE_OFF /\ ptr[i] = i
      BY <2>1, <1>3, <1>5
    <2>3. i \in After(on[FREE_OFF], rank[FREE_OFF], FREE_OFF, i)
      BY <2>2, <1>5, <1>6 DEF IsList
    <2> QED BY <2>2, <2>3, <1>3, <1>5 DEF After
  <1>9. \A d \in Chain : on[d] \cap on[FREE_OFF] = {}
    <2>1. ASSUME NEW d \in Chain, NEW j \in on[d] \cap on[FREE_OFF] PROVE FALSE
      <3>1. PICK r \in Proc : pc[r] \in FreeLabel /\ pc[r] = "dl_unlink"
        BY <2>1, Overlap
      <3>2. r = p
        BY <3>1, <1>2, FreeApart DEF Sound
      <3> QED BY <3>1, <3>2, <1>1
    <2> QED BY <2>1
  <1>b. PICK on2 : on2 = [on EXCEPT ![FREE_OFF] = on[FREE_OFF] \ {i}]
    OBVIOUS
  <1>10. /\ on2 \in [Lock -> SUBSET (1 .. MaxRec)]
         /\ \A l \in Lock \ {FREE_OFF} : on2[l] = on[l]
         /\ on2[c] = on[c] /\ on2[FREE_OFF] = on[FREE_OFF] \ {i}
    BY <1>3, <1>b DEF Sound
  <1>11. IsList(ptr', FREE_OFF, on[FREE_OFF] \ {i}, rank[FREE_OFF])
    <2>1. ptr'[x] = ptr[i]
      BY <1>3, <1>5, <1>7
    <2>2. \A k \in (on[FREE_OFF] \cup {FREE_OFF}) \ {i, x} : ptr'[k] = ptr[k]
      BY <1>3, <1>7
    <2>3. FREE_OFF \notin 1 .. MaxRec /\ MaxRec \in Nat
      BY <1>3
    <2> QED BY <2>1, <2>2, <2>3, <1>3, <1>5, <1>6, ListWithout
  <1>12. Writes(p, on, rank, on2, rank)
    <2>1. x \in Own(p, on)
      BY <1>2, <1>5 DEF Own
    <2>2. KeepsDatoff(p)
      BY <1>1, <1>4 DEF KeepsDatoff
    <2>3. \A y \in Place \ Own(p, on) : ptr'[y] = ptr[y]
      BY <1>7, <2>1
    <2> QED BY <2>1, <2>2, <2>3, <1>1, <1>2, <1>3, <1>10 DEF Writes
  <1>13. InHand(p)' = {i} /\ InHand(p) = {}
    BY <1>1, <1>5 DEF InHand, At
  <1>14. OwnStructure(p, on, on2, rank)
    <2>1. \A y \in on[c] \cup {c} : ChainPtr[y] = ptr[y] /\ ChainPtr'[y] = ptr[y]
      <3>1. on[c] \cup {c} \subseteq Own(p, on) \cap Place /\ x \notin on[c] \cup {c}
        BY <1>3, <1>5, <1>9 DEF Own
      <3> QED BY <3>1, <1>2, <1>3, <1>7, OwnPtr
    <2>2. IsList(ChainPtr', c, on2[c], rank[c])
      <3>1. IsList(ChainPtr, c, on[c], rank[c])
        BY <1>3, <1>4 DEF Structure
      <3>2. \A y \in on[c] \cup {c} : ChainPtr'[y] = ChainPtr[y]
        BY <2>1
      <3> QED BY <3>1, <3>2, <1>10, ListSame
    <2>4. IsList(ptr', FREE_OFF, on2[FREE_OFF], rank[FREE_OFF])
      BY <1>10, <1>11
    <2>5. on2[c] \cap on2[FREE_OFF] = {}
      BY <1>3, <1>9, <1>10
    <2>6. Own(p, on) \cap Rec' = on[c] \cup on[FREE_OFF]
      BY <1>2, <1>4, <1>13, OwnRecords
    <2>7. on2[c] \cup InHand(p)' \cup (IF pc[p] \in FreeLabel THEN on2[FREE_OFF] ELSE {})
            = Own(p, on) \cap Rec'
      <3>1. on[FREE_OFF] = {i} \cup on2[FREE_OFF]
        BY <1>5, <1>10
      <3> QED BY <3>1, <2>6, <1>2, <1>10, <1>13
    <2>8. InHand(p)' \cap on2[c] = {} /\ InHand(p)' \cap on2[FREE_OFF] = {}
      <3>1. i \notin on[c]
        BY <1>3, <1>5, <1>9
      <3> QED BY <3>1, <1>10, <1>13
    <2> QED BY <2>2, <2>4, <2>5, <2>7, <2>8, <1>2 DEF OwnStructure
  <1>15. OwnKeys(p, on2)
    <2>1. \A j \in on[c] : Deleting(j)' = {} /\ Deleting(j) = {}
      BY <1>2, OwnDeleting
    <2> QED BY <2>1, <1>1, <1>3, <1>4, <1>10 DEF Keys, OwnKeys
  <1>16. OwnLengths(p, on)
    <2>1. ASSUME NEW j \in Own(p, on) \cap Rec', idx'[j].key # Blank, dat'[idx'[j].datoff] = Blank
          PROVE  FALSE
      <3>1. PICK q \in Proc : pc[q] \in {"dl_free", "dl_idx"} /\ h[q].idxoff = j
        BY <2>1, <1>1, <1>4 DEF Lengths
      <3>2. q # p /\ pc[q] \in FreeLabel
        BY <3>1, <1>1 DEF DeleteLabel, FreeLabel, Blanking
      <3> QED BY <3>2, <1>2, FreeApart DEF Sound
    <2>2. ~Appends(p)'
      BY <1>1 DEF Appends, At
    <2> QED BY <2>1, <2>2, <1>1, <1>4 DEF OwnLengths, Lengths
  <1>17. Knows(p, on2, rank)'
    <2>1. Absent(p, on2)' /\ Reusing(p)'
      BY <1>1, <1>4, <1>5, <1>10 DEF Absent, Reusing, Fits
    <2>2. h'[p].save = ptr'[chain(p)']
      BY <1>1, <1>3, <1>4, <1>5, <1>7
    <2> QED BY <2>1, <2>2, <1>1 DEF Knows, At, Blanking, Linking, FindFree, StoreLabel, Appends
  <1>18. Placed(on2, rank)'
    BY <1>12, <1>14, <1>15, <1>16, <1>17, WrittenIsPlaced
  <1> QED BY <1>10, <1>18 DEF PlacedSomehow, Sound

\* Of its own records p alone leaves one with a key and without data.
LEMMA OwnIntact ==
  ASSUME NEW on, NEW rank, Sound(on, rank), NEW p \in Proc, pc[p] \in DeleteLabel \cup StoreLabel,
         pc[p] \notin {"dl_free", "dl_idx"}, NEW j \in Own(p, on) \cap Rec, idx[j].key # Blank
  PROVE  dat[idx[j].datoff] # Blank
  <1>1. SUFFICES ASSUME dat[idx[j].datoff] = Blank PROVE FALSE
    OBVIOUS
  <1>2. PICK q \in Proc : pc[q] \in {"dl_free", "dl_idx"} /\ h[q].idxoff = j
    BY <1>1 DEF Sound, Placed, Lengths
  <1>3. q # p /\ Knows(q, on, rank) /\ pc[q] \in DeleteLabel \cup StoreLabel
    BY <1>2 DEF DeleteLabel, Blanking, Sound, Placed
  <1>4. j \in on[chain(q)]
    BY <1>2, <1>3 DEF Knows, AtKey, Blanking
  <1>5. /\ chain(q) \in Chain /\ pc[q] \in ChainLabel /\ req[q].op # "fetch"
        /\ pc[p] \in ChainLabel /\ req[p].op # "fetch"
    BY <1>3, Writer
  <1>6. chain(q) # chain(p)
    BY <1>3, <1>5, Apart DEF Sound
  <1> QED BY <1>4, <1>5, <1>6, NotOwn

\* The data are written, at the end or in the place of the record found.
LEMMA StoreWriteDatStep ==
  ASSUME NEW on, NEW rank, Sound(on, rank), NEW p \in Proc, Step(p), StoreWriteDat(p)
  PROVE  Placed(on, rank)'
  <1> DEFINE c == chain(p)
             i == h[p].idxoff
             d == h'[p].datoff
  <1>1. /\ pc[p] = "st_dat" /\ pc'[p] = "st_idx" /\ UNCHANGED <<ptr, idx, req>>
        /\ \/ /\ h[p].offset = 0 /\ dat' = Append(dat, req[p].data)
              /\ h'[p] = [h[p] EXCEPT !.datoff = Len(dat) + 1]
           \/ /\ h[p].offset # 0 /\ dat' = [dat EXCEPT ![h[p].datoff] = req[p].data] /\ h' = h
    BY QuietMoves DEF StoreWriteDat, At, Goto, Handle
  <1>2. /\ pc[p] \in DeleteLabel \cup StoreLabel /\ pc[p] \notin Linking /\ pc'[p] \notin Linking
        /\ pc[p] \notin FreeLabel
    BY <1>1 DEF StoreLabel, FindFree, FreeLabel, Linking, Blanking, DeleteLabel
  <1>3. /\ Knows(p, on, rank) /\ c \in Chain /\ on[c] \subseteq Rec /\ h[p] \in Handles
        /\ pc[p] \in ChainLabel /\ req[p].op # "fetch"
    BY <1>2, Writer
  <1>4. Lengths /\ Rec' = Rec /\ chain(p)' = c
    BY <1>1 DEF Sound, Placed, Rec, chain
  <1>5. Absent(p, on) /\ h[p].save = ptr[c] /\ (h[p].offset # 0 => Reusing(p))
    BY <1>1, <1>3 DEF Knows, StoreLabel
  <1>6. req[p].data \in Data /\ req[p].data # Blank
    BY <1>1 DEF Sound, Asked, ChainLabel, StoreLabel
  <1>7. /\ dat \in Seq(Data \cup {Blank}) /\ Len(dat) \in Nat
        /\ \A j \in Rec : idx[j].datoff \in 1 .. Len(dat)
    BY DEF Sound, TypeInv, FilesType
  <1>8. /\ h'[p].offset = h[p].offset /\ h'[p].idxoff = i /\ h'[p].save = h[p].save
        /\ d = IF h[p].offset = 0 THEN Len(dat) + 1 ELSE h[p].datoff
    BY <1>1, <1>3 DEF Handles, HandlesOf
  <1>9. InHand(p)' = InHand(p) /\ (h[p].offset # 0 => i \in InHand(p))
    BY <1>1, <1>8 DEF InHand, At
  <1>10. h[p].offset # 0 => /\ i \in Rec /\ idx[i].key = Blank /\ idx[i].datlen = DatLen[req[p].data]
                            /\ d = idx[i].datoff
    BY <1>5, <1>8 DEF Reusing, Fits
  <1>11. d \in 1 .. Len(dat') /\ dat'[d] = req[p].data
         /\ \A e \in 1 .. Len(dat) : e # d => dat'[e] = dat[e]
    <2>1. CASE h[p].offset = 0
      <3>1. dat' = Append(dat, req[p].data) /\ d = Len(dat) + 1
        BY <2>1, <1>1, <1>8
      <3>2. Len(dat') = Len(dat) + 1 /\ dat'[Len(dat) + 1] = req[p].data
            /\ \A e \in 1 .. Len(dat) : dat'[e] = dat[e]
        BY <3>1, <1>6, <1>7
      <3> QED BY <3>1, <3>2, <1>7
    <2>2. CASE h[p].offset # 0
      <3>1. dat' = [dat EXCEPT ![d] = req[p].data] /\ d \in 1 .. Len(dat)
        BY <2>2, <1>1, <1>7, <1>8, <1>10
      <3> QED BY <3>1, <1>7
    <2> QED BY <2>1, <2>2
  <1>12. \A j \in Rec : ~(h[p].offset # 0 /\ j = i) => idx[j].datoff # d
    BY <1>4, <1>7, <1>8, <1>10 DEF Lengths
  <1>13. Writes(p, on, rank, on, rank)
    <2>1. KeepsDatoff(p)
      BY <1>1, <1>4 DEF KeepsDatoff
    <2>2. \A e \in 1 .. Len(dat) : dat'[e] = dat[e] \/ \E j \in Rec \cap Own(p, on) : idx[j].datoff = e
      <3>1. ASSUME NEW e \in 1 .. Len(dat), dat'[e] # dat[e]
            PROVE  \E j \in Rec \cap Own(p, on) : idx[j].datoff = e
        <4>1. e = d /\ h[p].offset # 0
          BY <3>1, <1>7, <1>8, <1>11
        <4> QED BY <4>1, <1>9, <1>10 DEF Own
      <3> QED BY <3>1
    <2>3. UNCHANGED <<ptr, idx>>
      BY <1>1
    <2> QED BY <2>1, <2>2, <2>3, <1>2, <1>3 DEF Writes
  <1>14. OwnStructure(p, on, on, rank)
    BY <1>1, <1>2, <1>9, SameStructure
  <1>15. OwnKeys(p, on)
    BY <1>1, <1>2, SameKeys
  <1>16. OwnLengths(p, on)
    <2>1. ASSUME NEW j \in Own(p, on) \cap Rec'
          PROVE  /\ dat'[idx'[j].datoff] # Blank => DatLen[dat'[idx'[j].datoff]] = idx'[j].datlen
                 /\ ~(idx'[j].key # Blank /\ dat'[idx'[j].datoff] = Blank)
      <3>1. CASE h[p].offset # 0 /\ j = i
        BY <3>1, <1>1, <1>6, <1>10, <1>11
      <3>2. CASE ~(h[p].offset # 0 /\ j = i)
        <4>1. j \in Rec /\ idx'[j] = idx[j] /\ dat'[idx[j].datoff] = dat[idx[j].datoff]
          BY <3>2, <1>1, <1>4, <1>7, <1>11, <1>12
        <4>2. idx[j].key # Blank => dat[idx[j].datoff] # Blank
          BY <4>1, <1>1, <1>2, OwnIntact
        <4> QED BY <4>1, <4>2, <1>4 DEF Lengths
      <3> QED BY <3>1, <3>2
    <2>2. ASSUME Appends(p)', NEW q \in Proc \ {p}, Appends(q) PROVE h[q].datoff # h'[p].datoff
      <3>1. d = Len(dat) + 1
        BY <2>2, <1>8 DEF Appends
      <3>2. h[q].datoff \in 1 .. Len(dat)
        BY <2>2 DEF Sound, Placed, Knows
      <3> QED BY <3>1, <3>2, <1>7
    <2> QED BY <2>1, <2>2 DEF OwnLengths
  <1>17. Knows(p, on, rank)'
    <2>1. Absent(p, on)' /\ (h'[p].offset # 0 => Reusing(p)')
      BY <1>1, <1>4, <1>5, <1>8, <1>10 DEF Absent, Reusing, Fits
    <2>2. h'[p].save = ptr'[chain(p)']
      BY <1>1, <1>4, <1>5, <1>8
    <2>3. h'[p].datoff # 0 /\ dat'[h'[p].datoff] = req'[p].data
      BY <1>1, <1>11
    <2>4. Appends(p)' => h'[p].datoff \in 1 .. Len(dat') /\ \A j \in Rec' : idx'[j].datoff # h'[p].datoff
      BY <1>1, <1>4, <1>8, <1>11, <1>12 DEF Appends
    <2> QED BY <2>1, <2>2, <2>3, <2>4, <1>1 DEF Knows, At, Blanking, Linking, FindFree, StoreLabel
  <1> QED BY <1>13, <1>14, <1>15, <1>16, <1>17, WrittenIsPlaced

\* The index record is written, and its pointer to the head of the chain.
LEMMA StoreWriteIdxStep ==
  ASSUME NEW on, NEW rank, Sound(on, rank), NEW p \in Proc, Step(p), StoreWriteIdx(p)
  PROVE  Placed(on, rank)'
  <1> DEFINE c == chain(p)
  <1>a. PICK i : i = IF h[p].offset = 0 THEN Len(idx) + 1 ELSE h[p].idxoff
    OBVIOUS
  <1>b. PICK r : r = NewRecord(req[p], h[p].datoff)
    OBVIOUS
  <1>1. /\ pc[p] = "st_idx" /\ pc'[p] = "st_ptr" /\ UNCHANGED <<dat, req>>
        /\ idx' = IF h[p].offset = 0 THEN Append(idx, r) ELSE [idx EXCEPT ![i] = r]
        /\ ptr' = [ptr EXCEPT ![i] = h[p].save] /\ h'[p] = [h[p] EXCEPT !.idxoff = i]
    BY <1>a, <1>b, QuietMoves DEF StoreWriteIdx, At, Goto, Handle
  <1>2. /\ pc[p] \in DeleteLabel \cup StoreLabel /\ pc[p] \notin Linking /\ pc'[p] \notin Linking
        /\ pc[p] \notin FreeLabel
    BY <1>1 DEF StoreLabel, FindFree, FreeLabel, Linking, Blanking, DeleteLabel
  <1>3. /\ Knows(p, on, rank) /\ c \in Chain /\ on[c] \subseteq Rec /\ h[p] \in Handles
        /\ pc[p] \in ChainLabel /\ req[p].op # "fetch" /\ c \in Lock /\ c \notin Nat
        /\ Rec \subseteq Nat /\ Rec \subseteq Place /\ Lock \subseteq Place /\ req[p].key # Blank
    BY <1>2, Writer
  <1>4. /\ Lengths /\ Structure(on, rank) /\ chain(p)' = c
    BY <1>1 DEF Sound, Placed, chain
  <1>5. /\ Absent(p, on) /\ h[p].save = ptr[c] /\ (h[p].offset # 0 => Reusing(p))
        /\ dat[h[p].datoff] = req[p].data
    BY <1>1, <1>3 DEF Knows, StoreLabel, At
  <1>6. req[p].data \in Data /\ req[p].data # Blank
    BY <1>1 DEF Sound, Asked, ChainLabel, StoreLabel
  <1>7. /\ r.key = req[p].key /\ r.datoff = h[p].datoff /\ r.datlen = DatLen[req[p].data]
    BY <1>b DEF NewRecord
  <1>8. /\ idx \in Seq(IndexRecord) /\ Len(idx) \in Nat /\ ptr \in [Place -> 0 .. Len(idx)]
    BY DEF Sound, TypeInv, FilesType
  <1>9. /\ h'[p].idxoff = i /\ InHand(p)' = {i}
        /\ InHand(p) = IF h[p].offset = 0 THEN {} ELSE {i}
    BY <1>1, <1>3, <1>a DEF Handles, HandlesOf, InHand, At
  <1>10. i \in Own(p, on) /\ i \notin on[c]
    <2>1. CASE h[p].offset = 0
      BY <2>1, <1>3, <1>a, <1>2, OwnRecords DEF Own
    <2>2. CASE h[p].offset # 0
      <3>1. i \in InHand(p) /\ InHand(p) \cap on[c] = {}
        BY <2>2, <1>3, <1>4, <1>9 DEF Structure
      <3> QED BY <3>1 DEF Own
    <2> QED BY <2>1, <2>2
  <1>11. /\ Rec' = Rec \cup {i} /\ idx'[i] = r /\ \A j \in Rec \ {i} : idx'[j] = idx[j]
         /\ (i \notin Rec => Appends(p) /\ i = Len(idx) + 1)
         /\ (i \in Rec => r.datoff = idx[i].datoff)
    <2>1. CASE h[p].offset = 0
      <3>1. idx' = Append(idx, r) /\ i = Len(idx) + 1
        BY <2>1, <1>1, <1>a
      <3>2. /\ Len(idx') = Len(idx) + 1 /\ idx'[Len(idx) + 1] = r
            /\ \A j \in 1 .. Len(idx) : idx'[j] = idx[j]
        BY <3>1, <1>8
      <3>3. Appends(p) /\ i \notin Rec
        BY <2>1, <3>1, <1>1, <1>8 DEF Appends, At, Rec
      <3> QED BY <3>1, <3>2, <3>3, <1>8 DEF Rec
    <2>2. CASE h[p].offset # 0
      <3>1. i \in Rec /\ r.datoff = idx[i].datoff /\ idx' = [idx EXCEPT ![i] = r]
        BY <2>2, <1>1, <1>5, <1>7, <1>a DEF Reusing
      <3>2. Len(idx') = Len(idx) /\ idx'[i] = r /\ \A j \in Rec \ {i} : idx'[j] = idx[j]
        BY <3>1, <1>8 DEF Rec
      <3> QED BY <3>1, <3>2 DEF Rec
    <2> QED BY <2>1, <2>2
  <1>12. i \in Place
    <2>1. Len(idx') \in Nat /\ Len(idx') <= MaxRec
      BY Located, FilesStep DEF Sound, Placed, FilesType
    <2>2. i \in 1 .. Len(idx')
      BY <1>11 DEF Rec
    <2> QED BY <2>1, <2>2 DEF Place
  <1>13. \A y \in Place : ptr'[y] = IF y = i THEN ptr[c] ELSE ptr[y]
    BY <1>1, <1>5, <1>8
  <1>14. Writes(p, on, rank, on, rank)
    <2>1. KeepsDatoff(p)
      BY <1>7, <1>11 DEF KeepsDatoff
    <2>2. \A y \in Place \ Own(p, on) : ptr'[y] = ptr[y]
      BY <1>10, <1>13
    <2>3. \A j \in Rec \ Own(p, on) : idx'[j] = idx[j]
      BY <1>10, <1>11
    <2>4. dat' = dat
      BY <1>1
    <2> QED BY <2>1, <2>2, <2>3, <2>4, <1>2, <1>3 DEF Writes
  <1>15. OwnStructure(p, on, on, rank)
    <2>1. \A y \in on[c] \cup {c} : ChainPtr'[y] = ChainPtr[y]
      <3>1. on[c] \cup {c} \subseteq Own(p, on) \cap Place
        BY <1>3 DEF Own
      <3>2. i # c
        BY <1>3, <1>8, <1>11 DEF Rec
      <3>3. \A y \in on[c] \cup {c} : ptr'[y] = ptr[y]
        BY <3>1, <3>2, <1>10, <1>13
      <3> QED BY <3>1, <3>3, <1>2, <1>3, OwnPtr
    <2>2. IsList(ChainPtr, c, on[c], rank[c])
      BY <1>3, <1>4 DEF Structure
    <2>3. IsList(ChainPtr', c, on[c], rank[c])
      BY <2>1, <2>2, ListSame
    <2>4. Own(p, on) \cap Rec' = on[c] \cup {i}
      <3>1. Own(p, on) \cap Rec = on[c] \cup InHand(p)
        BY <1>2, OwnRecords
      <3>2. Own(p, on) \cap Rec' = (Own(p, on) \cap Rec) \cup {i}
        BY <1>10, <1>11
      <3> QED BY <3>1, <3>2, <1>9
    <2> QED BY <2>3, <2>4, <1>2, <1>9, <1>10 DEF OwnStructure
  <1>16. OwnKeys(p, on)
    <2>1. \A j \in on[c] : idx'[j] = idx[j]
      BY <1>3, <1>10, <1>11
    <2> QED BY <2>1, <1>2, SameKeys
  <1>17. OwnLengths(p, on)
    <2>1. ASSUME NEW j \in Own(p, on) \cap Rec'
          PROVE  /\ dat'[idx'[j].datoff] # Blank => DatLen[dat'[idx'[j].datoff]] = idx'[j].datlen
                 /\ ~(idx'[j].key # Blank /\ dat'[idx'[j].datoff] = Blank)
      <3>1. CASE j = i
        <4>1. idx'[j] = r /\ dat' = dat
          BY <3>1, <1>1, <1>11
        <4>2. dat'[idx'[j].datoff] = req[p].data
          BY <4>1, <1>5, <1>7
        <4> QED BY <4>1, <4>2, <1>6, <1>7
      <3>2. CASE j # i
        <4>1. j \in Rec /\ idx'[j] = idx[j] /\ dat' = dat
          BY <3>2, <1>1, <1>11
        <4>2. idx[j].key # Blank => dat[idx[j].datoff] # Blank
          BY <4>1, <1>1, <1>2, OwnIntact
        <4> QED BY <4>1, <4>2, <1>4 DEF Lengths
      <3> QED BY <3>1, <3>2
    <2>2. ~Appends(p)'
      BY <1>1 DEF Appends, At
    <2> QED BY <2>1, <2>2 DEF OwnLengths
  <1>18. Knows(p, on, rank)'
    <2>1. Absent(p, on)'
      BY <1>1, <1>3, <1>4, <1>5, <1>10, <1>11 DEF Absent
    <2>2. ptr'[i] = ptr'[c]
      BY <1>3, <1>8, <1>11, <1>12, <1>13 DEF Rec
    <2>3. i \in Rec' /\ idx'[i].key = req'[p].key
      BY <1>1, <1>7, <1>11
    <2> QED BY <2>1, <2>2, <2>3, <1>1, <1>4, <1>9
            DEF Knows, At, Blanking, Linking, FindFree, StoreLabel, Appends
  <1> QED BY <1>14, <1>15, <1>16, <1>17, <1>18, WrittenIsPlaced

\* The record becomes the first of its chain.
LEMMA StoreWritePtrStep ==
  ASSUME NEW on, NEW rank, Sound(on, rank), NEW p \in Proc, Step(p), StoreWritePtr(p)
  PROVE  PlacedSomehow'
  <1> DEFINE c == chain(p)
             i == h[p].idxoff
  <1>1. /\ pc[p] = "st_ptr" /\ pc'[p] = "unlock" /\ UNCHANGED <<idx, dat, req, h>>
        /\ ptr' = [ptr EXCEPT ![c] = i]
    BY QuietMoves DEF StoreWritePtr, At, Goto
  <1>2. /\ pc[p] \in DeleteLabel \cup StoreLabel /\ pc[p] \notin Linking /\ pc'[p] \notin Linking
        /\ pc[p] \notin FreeLabel
    BY <1>1 DEF StoreLabel, FindFree, FreeLabel, Linking, Blanking, DeleteLabel
  <1>3. /\ Knows(p, on, rank) /\ c \in Chain /\ on[c] \subseteq Rec /\ h[p] \in Handles
        /\ pc[p] \in ChainLabel /\ req[p].op # "fetch" /\ c \in Lock /\ c \notin Nat
        /\ FREE_OFF \in Lock /\ c # FREE_OFF /\ req[p].key \in Key /\ req[p].key # Blank
        /\ Rec \subseteq Nat /\ Rec \subseteq Place /\ Lock \subseteq Place /\ Rec \subseteq 1 .. MaxRec
        /\ on[c] \in SUBSET (1 .. MaxRec) /\ rank[c] \in [1 .. MaxRec -> Nat]
    BY <1>2, Writer
  <1>4. /\ Keys(on) /\ Lengths /\ Structure(on, rank) /\ chain(p)' = c /\ Rec' = Rec
    BY <1>1 DEF Sound, Placed, chain, Rec
  <1>5. /\ Absent(p, on) /\ i \in Rec /\ idx[i].key = req[p].key /\ ptr[i] = ptr[c]
    BY <1>1, <1>3 DEF Knows, StoreLabel, At
  <1>6. InHand(p) = {i} /\ InHand(p)' = {}
    BY <1>1 DEF InHand, At
  <1>7. i \in Own(p, on) /\ i \notin on[c] /\ i # c
    BY <1>3, <1>4, <1>5, <1>6 DEF Own, Structure
  <1>8. \A y \in Place : ptr'[y] = IF y = c THEN i ELSE ptr[y]
    BY <1>1 DEF Sound, TypeInv, FilesType
  <1>9. /\ on[c] \cup {c, i} \subseteq Own(p, on) \cap Place
        /\ \A y \in on[c] \cup {c, i} : ChainPtr[y] = ptr[y] /\ ChainPtr'[y] = ptr'[y]
    <2>1. on[c] \cup {c, i} \subseteq Own(p, on) \cap Place
      BY <1>3, <1>5, <1>7 DEF Own
    <2> QED BY <2>1, <1>2, <1>3, OwnPtr
  <1>a. PICK r2 : r2 = Front(rank[c], ChainPtr, c, i)
    OBVIOUS
  <1>b. PICK on2 : on2 = [on EXCEPT ![c] = on[c] \cup {i}]
    OBVIOUS
  <1>c. PICK rank2 : rank2 = [rank EXCEPT ![c] = r2]
    OBVIOUS
  <1>10. r2 \in [1 .. MaxRec -> Nat] /\ IsList(ChainPtr', c, on[c] \cup {i}, r2)
    <2>1. ChainPtr'[c] = i /\ ChainPtr'[i] = ChainPtr[c]
      BY <1>3, <1>5, <1>7, <1>8, <1>9
    <2>2. \A j \in on[c] : ChainPtr'[j] = ChainPtr[j]
      BY <1>3, <1>8, <1>9
    <2>3. IsList(ChainPtr, c, on[c], rank[c])
      BY <1>3, <1>4 DEF Structure
    <2>4. c \notin 1 .. MaxRec
      BY <1>3
    <2>5. i \in (1 .. MaxRec) \ on[c]
      BY <1>3, <1>5, <1>7
    <2>6. on[c] \in SUBSET (1 .. MaxRec) /\ rank[c] \in [1 .. MaxRec -> Nat] /\ MaxRec \in Nat
      BY <1>3
    <2> HIDE DEF i, c
    <2> QED BY <2>1, <2>2, <2>3, <2>4, <2>5, <2>6, <1>a, ListFront, Zenon
  <1>11. /\ on2 \in [Lock -> SUBSET (1 .. MaxRec)] /\ rank2 \in [Lock -> [1 .. MaxRec -> Nat]]
         /\ \A l \in Lock \ {c} : on2[l] = on[l] /\ rank2[l] = rank[l]
         /\ on2[c] = on[c] \cup {i} /\ rank2[c] = r2
    <2>1. on[c] \cup {i} \in SUBSET (1 .. MaxRec)
      BY <1>3, <1>5
    <2> QED BY <2>1, <1>3, <1>10, <1>b, <1>c DEF Sound
  <1>12. Writes(p, on, rank, on2, rank2)
    <2>1. KeepsDatoff(p)
      BY <1>1, <1>4 DEF KeepsDatoff
    <2>2. \A y \in Place \ Own(p, on) : ptr'[y] = ptr[y]
      BY <1>8, <1>9
    <2> QED BY <2>1, <2>2, <1>1, <1>2, <1>3, <1>11 DEF Writes
  <1>13. OwnStructure(p, on, on2, rank2)
    <2>1. IsList(ChainPtr', c, on2[c], rank2[c])
      BY <1>10, <1>11
    <2>2. Own(p, on) \cap Rec' = on[c] \cup {i}
      BY <1>2, <1>4, <1>6, OwnRecords
    <2> QED BY <2>1, <2>2, <1>2, <1>6, <1>11 DEF OwnStructure
  <1>14. OwnKeys(p, on2)
    <2>1. ASSUME NEW j \in on2[c]
          PROVE  IF idx'[j].key = Blank THEN Deleting(j)' # {} ELSE Hash[idx'[j].key] = c
      <3>1. CASE j = i
        BY <3>1, <1>1, <1>3, <1>5 DEF chain
      <3>2. CASE j # i
        <4>1. j \in on[c] /\ Deleting(j) = {}
          BY <3>2, <1>2, <1>11, OwnDeleting
        <4> QED BY <4>1, <1>1, <1>3, <1>4 DEF Keys
      <3> QED BY <3>1, <3>2
    <2>2. ASSUME NEW j \in on2[c], NEW k \in on2[c], idx'[j].key = idx'[k].key, idx'[j].key # Blank
          PROVE  j = k
      <3>1. j \in on[c] \cup {i} /\ k \in on[c] \cup {i} /\ idx' = idx
        BY <1>1, <1>11
      <3>2. \A y \in on[c] : idx[y].key # idx[i].key
        BY <1>5 DEF Absent
      <3>3. j \in on[c] /\ k \in on[c] => j = k
        BY <3>1, <2>2, <1>3, <1>4 DEF Keys
      <3> QED BY <3>1, <3>2, <3>3, <2>2
    <2> QED BY <2>1, <2>2, <1>2 DEF OwnKeys
  <1>15. OwnLengths(p, on)
    <2>1. ASSUME NEW j \in Own(p, on) \cap Rec', idx'[j].key # Blank PROVE dat'[idx'[j].datoff] # Blank
      BY <2>1, <1>1, <1>2, <1>4, OwnIntact
    <2>2. ~Appends(p)'
      BY <1>1 DEF Appends, At
    <2> QED BY <2>1, <2>2, <1>1, <1>4 DEF OwnLengths, Lengths
  <1>16. Knows(p, on2, rank2)'
    BY <1>1, Forgets DEF KnowLabel, DeleteLabel, StoreLabel, Blanking, Linking, FindFree
  <1>17. Placed(on2, rank2)'
    BY <1>12, <1>13, <1>14, <1>15, <1>16, WrittenIsPlaced
  <1> QED BY <1>11, <1>17 DEF PlacedSomehow

-----------------------------------------------------------------------------
(* The invariant                                                             *)

\* The inductive invariant: Placed needs the locks, or a chain would have two writers; the
\* lists exist, and no variable says which they are.
DbInv ==
  /\ TypeInv /\ RoomInv /\ LockInv
  /\ \A p \in Proc : Asked(p)
  /\ PlacedSomehow

\* No record, no list.
LEMMA DbInvInit == Init => DbInv
  <1> SUFFICES ASSUME Init PROVE DbInv
    OBVIOUS
  <1>1. /\ idx = <<>> /\ dat = <<>> /\ Len(idx) = 0 /\ Len(dat) = 0 /\ Rec = {}
        /\ ptr = [l \in Place |-> 0] /\ pc = [p \in Proc |-> "closed"]
        /\ req = [p \in Proc |-> NoReq] /\ h = [p \in Proc |-> NoHandle]
    BY DEF Init, Rec
  <1>2. NoHandle \in Handles
    BY <1>1 DEF NoHandle, Handles, HandlesOf
  <1>3. TypeInv
    <2>1. FilesType
      BY <1>1 DEF FilesType, Init
    <2>2. LocksType
      BY DEF LocksType, Init
    <2>3. scan \in [Proc -> 0 .. MaxRec + 1]
      BY DEF Init
    <2>4. pc \in [Proc -> Label] /\ h \in [Proc -> Handles]
      BY <1>1, <1>2 DEF Label
    <2> QED BY <1>1, <2>1, <2>2, <2>3, <2>4 DEF TypeInv
  <1>4. RoomInv
    <2>1. Appending = {}
      BY <1>1 DEF Appending, NoReq
    <2> QED BY <1>1, <2>1, FS_EmptySet DEF RoomInv
  <1>5. \A p \in Proc : pc[p] = "closed"
    BY <1>1
  <1>6. "closed" \notin ChainLabel \cup ScanLabel
    BY DEF ChainLabel, ScanLabel, DeleteLabel, StoreLabel, Blanking, Linking, FindFree
  <1>7. LockInv
    <2>1. LocksExclude
      BY DEF Init, LocksExclude
    <2>2. FreeLabel \subseteq ChainLabel
      BY DEF FreeLabel, ChainLabel, StoreLabel
    <2> QED BY <1>5, <1>6, <2>1, <2>2 DEF LockInv, HoldsLocks
  <1>8. \A p \in Proc : Asked(p)
    BY <1>5, <1>6 DEF Asked, ChainLabel, At
  <1> DEFINE on == [l \in Lock |-> {}]
             rank == [l \in Lock |-> [i \in 1 .. MaxRec |-> 0]]
  <1>9. on \in [Lock -> SUBSET (1 .. MaxRec)] /\ rank \in [Lock -> [1 .. MaxRec -> Nat]]
    OBVIOUS
  <1>10. \A p \in Proc : InHand(p) = {}
    BY <1>5 DEF InHand, At
  <1>11. \A l \in Lock : l \in Place /\ ptr[l] = 0 /\ ChainPtr[l] = 0
    BY <1>1 DEF Place, ChainPtr
  <1>12. Structure(on, rank)
    <2>1. \A l \in Lock : on[l] = {}
      OBVIOUS
    <2>2. FREE_OFF \in Lock /\ Chain \subseteq Lock
      BY DEF Lock
    <2> HIDE DEF on, rank
    <2>3. ASSUME NEW l \in Lock, NEW next, next[l] = 0 PROVE IsList(next, l, on[l], rank[l])
      BY <2>1, <2>3 DEF IsList, After
    <2> QED BY <1>1, <1>10, <1>11, <2>1, <2>2, <2>3 DEF Structure
  <1>13. Keys(on) /\ Lengths
    BY <1>1, <1>5 DEF Keys, Lengths, Lock, Appends, At
  <1>14. \A p \in Proc : Knows(p, on, rank)
    <2> HIDE DEF on, rank
    <2> QED BY <1>5 DEF Knows, StoreLabel, Blanking, Linking, FindFree, At, Appends
  <1>15. PlacedSomehow
    <2>1. Placed(on, rank)
      BY <1>12, <1>13, <1>14 DEF Placed
    <2> HIDE DEF on, rank
    <2> QED BY <1>9, <2>1 DEF PlacedSomehow
  <1> QED BY <1>3, <1>4, <1>7, <1>8, <1>15 DEF DbInv

\* Every step leaves every record placed.
LEMMA PlacedStep ==
  ASSUME NEW on, NEW rank, Sound(on, rank), NEW p \in Proc, Step(p)
  PROVE  PlacedSomehow'
  <1>1. Placed(on, rank)' => PlacedSomehow'
    BY DEF Sound, PlacedSomehow
  <1>2. CASE \/ Create(p) \/ Initialize(p) \/ Open(p) \/ db_close(p) \/ db_rewind(p) \/ Dump(p)
             \/ ReadDat(p) \/ Unlock(p)
             \/ db_nextrec(p) \/ NextrecReadIdx(p) \/ NextrecReadDat(p) \/ NextrecUnlock(p)
    BY <1>1, <1>2, ForgetStep
  <1>3. CASE db_fetch(p) \/ db_delete(p) \/ db_store(p)
    BY <1>1, <1>3, FindAndLockStep
  <1>4. CASE ReadHead(p) \/ Walk(p)
    BY <1>1, <1>4, ReadHeadStep, WalkStep
  <1>5. CASE DeleteLock(p) \/ DeleteBlank(p) \/ DeleteReadFree(p) \/ DeleteWriteIdx(p)
    BY <1>1, <1>5, DeleteLockStep, DeleteBlankStep, DeleteReadFreeStep, DeleteWriteIdxStep
  <1>6. CASE DeleteWriteFree(p) \/ DeleteUnlink(p) \/ DeleteUnlock(p)
    BY <1>1, <1>6, DeleteWriteFreeStep, DeleteUnlinkStep, DeleteUnlockStep
  <1>7. CASE FreeLock(p) \/ FreeHead(p) \/ FreeWalk(p)
    BY <1>1, <1>7, FreeLockStep, FreeHeadStep, FreeWalkStep
  <1>8. CASE FreeUnlink(p) \/ FreeUnlock(p)
    BY <1>1, <1>8, FreeUnlinkStep, FreeUnlockStep
  <1>9. CASE StoreReadHead(p) \/ StoreWriteDat(p)
    BY <1>1, <1>9, StoreReadHeadStep, StoreWriteDatStep
  <1>10. CASE StoreWriteIdx(p) \/ StoreWritePtr(p) \/ Overwrite(p)
    BY <1>1, <1>10, StoreWriteIdxStep, StoreWritePtrStep, OverwriteStep
  <1> QED BY <1>2, <1>3, <1>4, <1>5, <1>6, <1>7, <1>8, <1>9, <1>10 DEF Step

\* What a step of p leaves of the knowledge that every process has of itself.
LEMMA OthersStep ==
  ASSUME NEW on, NEW rank, Sound(on, rank), NEW p \in Proc, Step(p), NEW q \in Proc \ {p}
  PROVE  Asked(q)' /\ HoldsLocks(q)'
  <1>1. pc'[q] = pc[q] /\ h'[q] = h[q] /\ req'[q] = req[q]
    BY QuietMoves
  <1>2. Asked(q) /\ HoldsLocks(q) /\ LocksType /\ LocksExclude
    BY DEF Sound, LockInv, TypeInv
  <1>3. Asked(q)'
    BY <1>1, <1>2 DEF Asked, At
  <1>4. OthersHold(p)
    BY <1>2, LocksStep DEF Sound
  <1>5. (pc[q] \in ChainLabel => chain(q) \in Lock) /\ FREE_OFF \in Lock /\ chain(q)' = chain(q)
    BY <1>1, <1>2 DEF Asked, chain, Lock
  <1>6. HoldsLocks(q)'
    BY <1>1, <1>2, <1>4, <1>5 DEF HoldsLocks, OthersHold
  <1> QED BY <1>3, <1>6

\* Every step keeps the invariant.
LEMMA DbInvStep ==
  ASSUME DbInv, NEW p \in Proc, Step(p)
  PROVE  DbInv'
  <1>1. PICK on \in [Lock -> SUBSET (1 .. MaxRec)], rank \in [Lock -> [1 .. MaxRec -> Nat]] :
          Placed(on, rank)
    BY DEF DbInv, PlacedSomehow
  <1>2. Sound(on, rank)
    BY <1>1 DEF Sound, DbInv
  <1>3. /\ TypeInv /\ RoomInv /\ LocksType /\ LocksExclude /\ Asked(p) /\ HoldsLocks(p)
    BY DEF DbInv, LockInv, TypeInv
  <1>4. Whereabouts(p)
    BY <1>1, <1>3, Located DEF Placed
  <1>5. TypeInv' /\ RoomInv' /\ LocksExclude'
    BY <1>3, <1>4, TypeStep, RoomStep, LocksStep
  <1>6. Asked(p)' /\ HoldsLocks(p)'
    BY <1>3, AskedStep, HoldsStep
  <1>7. \A q \in Proc : Asked(q)' /\ HoldsLocks(q)'
    BY <1>2, <1>6, OthersStep
  <1>8. PlacedSomehow'
    BY <1>2, PlacedStep
  <1> QED BY <1>5, <1>7, <1>8 DEF DbInv, LockInv

\* So does a step of anything else.
LEMMA DbInvStutter ==
  ASSUME DbInv, UNCHANGED vars
  PROVE  DbInv'
  <1> USE DEF vars
  <1>1. Rec' = Rec /\ Handles' = Handles /\ Appending' = Appending
    BY DEF Rec, Handles, HandlesOf, Appending
  <1>2. TypeInv' /\ RoomInv'
    <2>1. FilesType' /\ LocksType'
      BY <1>1 DEF DbInv, TypeInv, FilesType, LocksType
    <2>2. TypeInv'
      BY <1>1, <2>1 DEF DbInv, TypeInv
    <2> QED BY <1>1, <2>2 DEF DbInv, RoomInv
  <1>3. \A p \in Proc : HoldsLocks(p)' = HoldsLocks(p) /\ Asked(p)' = Asked(p) /\ InHand(p)' = InHand(p)
    BY DEF HoldsLocks, Asked, At, chain, InHand
  <1>4. LockInv'
    BY <1>3 DEF DbInv, LockInv, LocksExclude
  <1>5. ChainPtr' = ChainPtr /\ \A i : Deleting(i)' = Deleting(i) /\ Unlinking(i)' = Unlinking(i)
    BY <1>1 DEF ChainPtr, Deleting, Deleter, Unlinking, At
  <1>6. ASSUME NEW on, NEW rank, Placed(on, rank) PROVE Placed(on, rank)'
    <2>1. Structure(on, rank)'
      BY <1>1, <1>3, <1>5, <1>6 DEF Placed, Structure
    <2>2. Keys(on)' /\ Lengths'
      BY <1>1, <1>5, <1>6 DEF Placed, Keys, Lengths, Appends, At
    <2>3. ASSUME NEW p \in Proc PROVE Knows(p, on, rank)'
      <3>1. Knows(p, on, rank)
        BY <1>6 DEF Placed
      <3>2. /\ Walking(p, on, rank)' = Walking(p, on, rank) /\ AtKey(p, on)' = AtKey(p, on)
            /\ Behind(p, on)' = Behind(p, on) /\ Absent(p, on)' = Absent(p, on)
            /\ WalkingFree(p, on)' = WalkingFree(p, on) /\ Reusing(p)' = Reusing(p)
        BY <1>1, <1>5 DEF Walking, AtKey, Behind, Absent, WalkingFree, Reusing, Fits, chain
      <3> QED BY <1>1, <3>1, <3>2 DEF Knows, Appends, At, chain
    <2> QED BY <2>1, <2>2, <2>3 DEF Placed
  <1>7. PlacedSomehow'
    BY <1>6 DEF DbInv, PlacedSomehow
  <1> QED BY <1>2, <1>3, <1>4, <1>7 DEF DbInv

\* Whatever db_store, db_delete, db_fetch and db_nextrec do to the files in whatever order, the
\* lists account for every index record.
THEOREM DbInvariant == Spec => []DbInv
  <1>1. DbInv /\ [Next]_vars => DbInv'
    BY DbInvStep, DbInvStutter DEF Next
  <1> QED BY <1>1, DbInvInit, PTL DEF Spec

-----------------------------------------------------------------------------
(* The properties                                                            *)

\* The invariant implies TypeOK.
LEMMA TypesFollow == DbInv => TypeOK
  <1> SUFFICES ASSUME DbInv PROVE TypeOK
    OBVIOUS
  <1>1. TypeInv /\ FilesType /\ LocksType
    BY DEF DbInv, TypeInv
  <1>2. idx \in Seq(IndexRecord) /\ dat \in Seq(Data \cup {Blank})
    BY <1>1 DEF FilesType
  <1>3. \A i \in Rec : idx[i] \in IndexRecord
    BY <1>2 DEF Rec
  <1>4. \A j \in 1 .. Len(dat) : dat[j] \in Data \cup {Blank}
    BY <1>2
  <1>5. \A p \in Proc : h[p] \in Handles
    BY <1>1 DEF TypeInv
  <1>6. \A p \in Proc : /\ h[p].offset \in 0 .. Len(idx) /\ h[p].idxoff \in 0 .. Len(idx)
                        /\ h[p].ptroff \in Place \cup {None} /\ h[p].datoff \in 0 .. Len(dat)
                        /\ h[p].ptrval \in 0 .. Len(idx) /\ h[p].save \in 0 .. Len(idx)
    BY <1>5 DEF Handles, HandlesOf
  <1>7. \A i \in Rec : idx[i].key \in Key \cup {Blank} /\ idx[i].datoff \in 1 .. Len(dat)
    BY <1>1, <1>3 DEF FilesType, IndexRecord
  <1> QED BY <1>1, <1>4, <1>6, <1>7 DEF TypeOK, FilesType, LocksType, TypeInv

\* What the walks meet are the records of the lists, and the end.
LEMMA ListsAre ==
  ASSUME NEW on, NEW rank, Sound(on, rank)
  PROVE  /\ \A l \in Chain : \A i : <<l, i>> \in OnChain <=> i \in on[l] \cup {0}
         /\ Free = on[FREE_OFF] \cup {0}
         /\ Rec \subseteq Nat \ {0}
         /\ \A l \in Chain : l \in Lock
         /\ FREE_OFF \in Lock
  <1>1. /\ \A l \in Lock : /\ l \notin 1 .. MaxRec /\ l # 0 /\ on[l] \in SUBSET (1 .. MaxRec)
                           /\ rank[l] \in [1 .. MaxRec -> Nat]
        /\ FREE_OFF \in Lock /\ \A c \in Chain : c \in Lock
    <2>1. \A l \in Lock : l \notin Nat
      BY DEF Lock
    <2> QED BY <2>1 DEF Sound, Lock
  <1>2. Structure(on, rank)
    BY DEF Sound, Placed
  <1>3. \A c \in Chain : Met(c, ChainPtr) = on[c] \cup {0}
    <2>1. ASSUME NEW c \in Chain PROVE Met(c, ChainPtr) = on[c] \cup {0}
      <3>1. IsList(ChainPtr, c, on[c], rank[c])
        BY <1>2 DEF Structure
      <3> QED BY <3>1, <1>1, MetIsList
    <2> QED BY <2>1
  <1>4. Free = on[FREE_OFF] \cup {0}
    <2>1. IsList(ptr, FREE_OFF, on[FREE_OFF], rank[FREE_OFF])
      BY <1>2 DEF Structure
    <2> QED BY <2>1, <1>1, MetIsList DEF Free
  <1>5. \A l \in Chain : \A i : <<l, i>> \in OnChain <=> i \in Met(l, ChainPtr)
    BY DEF OnChain
  <1>6. Rec \subseteq Nat \ {0}
    BY DEF Rec, Sound, TypeInv, FilesType
  <1> QED BY <1>1, <1>3, <1>4, <1>5, <1>6

\* A set with at most one member.
LEMMA OneOrNone ==
  ASSUME NEW S, NEW x, \A y \in S : y = x
  PROVE  Cardinality(S) = IF x \in S THEN 1 ELSE 0
  <1>1. S = {} \/ S = {x}
    BY Zenon
  <1>2. Cardinality({x}) = 1
    BY FS_Singleton
  <1> QED BY <1>1, <1>2, FS_EmptySet

\* The invariant implies RecordsPlaced: the lists are those the pointers describe.
LEMMA PlacesFollow == DbInv => RecordsPlaced
  <1> SUFFICES ASSUME DbInv PROVE RecordsPlaced
    OBVIOUS
  <1>1. PICK on \in [Lock -> SUBSET (1 .. MaxRec)], rank \in [Lock -> [1 .. MaxRec -> Nat]] :
          Placed(on, rank)
    BY DEF DbInv, PlacedSomehow
  <1>2. Sound(on, rank) /\ LockInv /\ \A p \in Proc : Asked(p)
    BY <1>1 DEF Sound, DbInv
  <1>3. Structure(on, rank) /\ \A p \in Proc : Knows(p, on, rank)
    BY <1>1 DEF Placed
  <1> DEFINE held == [p \in Proc |-> InHand(p)]
             U(i) == {p \in Deleting(i) : At(p, "dl_unlink")}
             C(i) == {l \in Chain : <<l, i>> \in OnChain}
             H(i) == {p \in Proc : i \in held[p]}
  <1>4. \A i \in Rec : /\ C(i) = {l \in Chain : i \in on[l]}
                       /\ H(i) = {p \in Proc : i \in InHand(p)}
                       /\ i \in Free <=> i \in on[FREE_OFF]
                       /\ U(i) = {p \in Proc : At(p, "dl_unlink") /\ h[p].idxoff = i}
    BY <1>2, ListsAre DEF Deleting, At
  \* a record that is being unlinked is on a chain and on the free list, and one process unlinks
  <1>5. ASSUME NEW i \in Rec, NEW p \in Proc, At(p, "dl_unlink"), h[p].idxoff = i
        PROVE  /\ \E l \in Chain : i \in on[l]
               /\ i \in on[FREE_OFF]
               /\ \A q \in U(i) : q = p
    <2>1. /\ pc[p] \in Linking /\ pc[p] \in ChainLabel /\ pc[p] \in FreeLabel
      BY <1>5 DEF At, Linking, ChainLabel, FreeLabel, DeleteLabel
    <2>2. chain(p) \in Chain
      BY <2>1, <1>2 DEF Asked, chain
    <2>3. i \in on[chain(p)] /\ i \in on[FREE_OFF]
      BY <2>1, <1>3, <1>5 DEF Knows
    <2>4. ASSUME NEW q \in U(i) PROVE q = p
      <3>1. q \in Proc /\ pc[q] \in FreeLabel
        BY DEF Deleting, At, FreeLabel, DeleteLabel, Linking
      <3> QED BY <3>1, <2>1, <1>2, FreeApart
    <2> QED BY <2>2, <2>3, <2>4
  <1>6. ASSUME NEW i \in Rec
        PROVE  Cardinality(C(i)) + (IF i \in Free THEN 1 ELSE 0) + Cardinality(H(i))
                 = 1 + Cardinality(U(i))
    <2>h. \A p, q \in Proc : i \in InHand(p) /\ i \in InHand(q) => p = q
      BY <1>3 DEF Structure
    <2>l. FREE_OFF \in Lock /\ \A l \in Chain : l \in Lock
      BY DEF Lock
    <2>1. CASE \E c \in Chain : i \in on[c]
      <3>1. PICK c \in Chain : i \in on[c]
        BY <2>1
      <3>2. ASSUME NEW d \in C(i) PROVE d = c
        <4>1. d \in Chain /\ i \in on[d] \cap on[c]
          BY <1>4, <3>1
        <4>2. \A a, b \in Chain : a # b => on[a] \cap on[b] = {}
          BY <1>3 DEF Structure
        <4> QED BY <3>1, <4>1, <4>2
      <3>3. Cardinality(C(i)) = 1
        <4>1. c \in C(i)
          BY <1>4, <3>1
        <4> HIDE DEF C
        <4> QED BY <4>1, <3>2, OneOrNone
      <3>4. H(i) = {}
        BY <1>3, <1>4, <2>l, <3>1 DEF Structure
      <3>5. Cardinality(H(i)) = 0
        BY <3>4, FS_EmptySet
      <3>6. CASE i \in on[FREE_OFF]
        <4>1. Unlinking(i)
          BY <1>3, <3>1, <3>6 DEF Structure
        <4>2. PICK p \in Proc : At(p, "dl_unlink") /\ h[p].idxoff = i
          BY <4>1 DEF Unlinking
        <4>3. p \in U(i) /\ \A q \in U(i) : q = p
          BY <1>4, <1>5, <4>2
        <4>4. Cardinality(U(i)) = 1
          <5> HIDE DEF U
          <5> QED BY <4>3, OneOrNone
        <4> HIDE DEF C, U, H
        <4> QED BY <1>4, <3>3, <3>5, <3>6, <4>4
      <3>7. CASE i \notin on[FREE_OFF]
        <4>1. U(i) = {}
          BY <1>4, <1>5, <3>7
        <4>2. Cardinality(U(i)) = 0
          BY <4>1, FS_EmptySet
        <4> HIDE DEF C, U, H
        <4> QED BY <1>4, <3>3, <3>5, <3>7, <4>2
      <3> QED BY <3>6, <3>7
    <2>2. CASE ~\E c \in Chain : i \in on[c]
      <3>1. C(i) = {} /\ U(i) = {}
        BY <1>4, <1>5, <2>2
      <3>2. Cardinality(C(i)) = 0 /\ Cardinality(U(i)) = 0
        BY <3>1, FS_EmptySet
      <3>3. CASE i \in on[FREE_OFF]
        <4>1. H(i) = {}
          BY <1>3, <1>4, <2>l, <3>3 DEF Structure
        <4>2. Cardinality(H(i)) = 0
          BY <4>1, FS_EmptySet
        <4> HIDE DEF C, U, H
        <4> QED BY <1>4, <3>2, <3>3, <4>2
      <3>4. CASE i \notin on[FREE_OFF]
        <4>1. PICK p \in Proc : i \in InHand(p)
          BY <1>3, <2>2, <3>4 DEF Structure, Lock
        <4>2. p \in H(i) /\ \A q \in H(i) : q = p
          BY <1>4, <2>h, <4>1
        <4>3. Cardinality(H(i)) = 1
          <5> HIDE DEF H
          <5> QED BY <4>2, OneOrNone
        <4> HIDE DEF C, U, H
        <4> QED BY <1>4, <3>2, <3>4, <4>3
      <3> QED BY <3>3, <3>4
    <2> QED BY <2>1, <2>2
  <1>7. (\A l \in Chain : <<l, 0>> \in OnChain) /\ 0 \in Free
    BY <1>2, ListsAre
  <1> QED BY <1>6, <1>7 DEF RecordsPlaced

\* A process that is about to link its record has the chain to itself.
LEMMA StoreLinks ==
  ASSUME NEW on, NEW rank, Sound(on, rank), NEW p \in Proc, At(p, "st_ptr")
  PROVE  /\ pc[p] \in ChainLabel /\ req[p].op # "fetch" /\ chain(p) \in Chain
         /\ chain(p) = Hash[req[p].key] /\ Absent(p, on)
  <1>1. pc[p] \in ChainLabel /\ pc[p] \in StoreLabel \ {"overwrite"}
    BY DEF At, ChainLabel, StoreLabel
  <1>2. Asked(p) /\ Knows(p, on, rank)
    BY DEF Sound, Placed
  <1>3. req[p].op = "store" /\ req[p].key \in Key
    BY <1>1, <1>2 DEF Asked
  <1> QED BY <1>1, <1>2, <1>3 DEF Knows, chain

\* A record with a key is on its chain, or its db_store is about to link it.
LEMMA KeyedRecord ==
  ASSUME NEW on, NEW rank, Sound(on, rank), NEW i \in Rec, idx[i].key # Blank
  PROVE  \/ \E l \in Chain : i \in on[l] /\ Hash[idx[i].key] = l
         \/ \E p \in Proc : At(p, "st_ptr") /\ i = h[p].idxoff /\ idx[i].key = req[p].key
  <1>1. Structure(on, rank) /\ Keys(on) /\ \A p \in Proc : Knows(p, on, rank)
    BY DEF Sound, Placed
  <1>2. CASE \E l \in Lock : i \in on[l]
    BY <1>1, <1>2 DEF Keys, Lock
  <1>3. CASE \E p \in Proc : i \in InHand(p)
    <2>1. PICK p \in Proc : i \in InHand(p)
      BY <1>3
    <2>2. i = h[p].idxoff /\ Knows(p, on, rank)
      BY <1>1, <2>1 DEF InHand
    <2>3. At(p, "st_ptr") \/ (pc[p] \in {"ff_unlock", "st_dat", "st_idx"} /\ h[p].offset # 0)
      BY <2>1 DEF InHand, At
    <2>4. CASE At(p, "st_ptr")
      <3>1. idx[h[p].idxoff].key = req[p].key
        BY <2>2, <2>4 DEF Knows
      <3> QED BY <2>2, <2>4, <3>1
    <2>5. CASE pc[p] \in {"ff_unlock", "st_dat", "st_idx"} /\ h[p].offset # 0
      BY <2>2, <2>5 DEF Knows, Reusing
    <2> QED BY <2>3, <2>4, <2>5
  <1> QED BY <1>1, <1>2, <1>3 DEF Structure

\* The invariant implies KeysOnTheirChain.
LEMMA KeysFollow == DbInv => KeysOnTheirChain
  <1> SUFFICES ASSUME DbInv PROVE KeysOnTheirChain
    OBVIOUS
  <1>1. PICK on \in [Lock -> SUBSET (1 .. MaxRec)], rank \in [Lock -> [1 .. MaxRec -> Nat]] :
          Placed(on, rank)
    BY DEF DbInv, PlacedSomehow
  <1>2. Sound(on, rank) /\ LockInv /\ \A p \in Proc : Asked(p)
    BY <1>1 DEF Sound, DbInv
  <1>3. Structure(on, rank) /\ Keys(on) /\ \A p \in Proc : Knows(p, on, rank)
    BY <1>1 DEF Placed
  <1>4. \A l \in Chain, i \in Rec :
          <<l, i>> \in OnChain => IF idx[i].key = Blank THEN Deleting(i) # {} ELSE Hash[idx[i].key] = l
    BY <1>2, <1>3, ListsAre DEF Keys
  <1>5. \A i \in Free \ {0} : idx[i].key = Blank /\ dat[idx[i].datoff] = Blank
    BY <1>2, <1>3, ListsAre DEF Keys
  <1>6. \A i \in Rec : idx[i].key # Blank =>
           \/ \E l \in Chain : i \in on[l] /\ Hash[idx[i].key] = l
           \/ \E p \in Proc : At(p, "st_ptr") /\ i = h[p].idxoff /\ idx[i].key = req[p].key
    BY <1>2, KeyedRecord
  <1>7. \A p \in Proc : At(p, "st_ptr") =>
          /\ pc[p] \in ChainLabel /\ req[p].op # "fetch" /\ chain(p) \in Chain
          /\ chain(p) = Hash[req[p].key] /\ Absent(p, on)
    BY <1>2, StoreLinks
  <1>8. ASSUME NEW i \in Rec, NEW j \in Rec, idx[i].key = idx[j].key, idx[i].key # Blank
        PROVE  i = j
    <2>1. CASE /\ \E l \in Chain : i \in on[l] /\ Hash[idx[i].key] = l
               /\ \E l \in Chain : j \in on[l] /\ Hash[idx[j].key] = l
      BY <1>3, <1>8, <2>1 DEF Keys
    <2>2. CASE \E p \in Proc : At(p, "st_ptr") /\ i = h[p].idxoff /\ idx[i].key = req[p].key
      <3>1. PICK p \in Proc : At(p, "st_ptr") /\ i = h[p].idxoff /\ idx[i].key = req[p].key
        BY <2>2
      <3>2. CASE \E l \in Chain : j \in on[l] /\ Hash[idx[j].key] = l
        <4>1. j \in on[chain(p)] /\ idx[j].key = req[p].key
          BY <1>7, <1>8, <3>1, <3>2
        <4> QED BY <1>7, <3>1, <4>1 DEF Absent
      <3>3. CASE \E q \in Proc : At(q, "st_ptr") /\ j = h[q].idxoff /\ idx[j].key = req[q].key
        <4>1. PICK q \in Proc : At(q, "st_ptr") /\ j = h[q].idxoff /\ idx[j].key = req[q].key
          BY <3>3
        <4>2. chain(p) = chain(q)
          BY <1>7, <1>8, <3>1, <4>1
        <4>3. p = q
          BY <1>2, <1>7, <3>1, <4>1, <4>2, Apart
        <4> QED BY <3>1, <4>1, <4>3
      <3> QED BY <1>6, <1>8, <3>2, <3>3
    <2>3. CASE \E q \in Proc : At(q, "st_ptr") /\ j = h[q].idxoff /\ idx[j].key = req[q].key
      <3>1. PICK q \in Proc : At(q, "st_ptr") /\ j = h[q].idxoff /\ idx[j].key = req[q].key
        BY <2>3
      <3>2. CASE \E l \in Chain : i \in on[l] /\ Hash[idx[i].key] = l
        <4>1. i \in on[chain(q)] /\ idx[i].key = req[q].key
          BY <1>7, <1>8, <3>1, <3>2
        <4> QED BY <1>7, <3>1, <4>1 DEF Absent
      <3> QED BY <1>6, <1>8, <2>2, <3>2
    <2> QED BY <1>6, <1>8, <2>1, <2>2, <2>3
  <1> QED BY <1>4, <1>5, <1>8 DEF KeysOnTheirChain

\* The types: no pointer in the index file and no offset in a DB structure leads beyond the
\* records that db_store has written.
THEOREM TypeCorrect == Spec => []TypeOK
  BY DbInvariant, TypesFollow, PTL

\* Between any two writes of db_store and db_delete every index record is on exactly one chain,
\* on the free list or in the hands of one db_store, and no list is a cycle: _db_dodelete and
\* _db_findfree never lose a record and never share one.
THEOREM EveryRecordPlaced == Spec => []RecordsPlaced
  BY DbInvariant, PlacesFollow, PTL

\* A record is on the chain its key hashes to, no key is stored twice by two db_store that
\* race, and what _db_findfree may reuse holds nothing any more.
THEOREM KeysPlaced == Spec => []KeysOnTheirChain
  BY DbInvariant, KeysFollow, PTL

\* Only _db_writeidx writes an index record.
LEMMA IdxWritten ==
  ASSUME NEW p \in Proc, Step(p), ~DeleteWriteIdx(p), ~StoreWriteIdx(p)
  PROVE  idx' = idx
  <1> USE DEF files
  <1>1. CASE \/ Create(p) \/ Initialize(p) \/ Open(p) \/ db_close(p) \/ db_rewind(p) \/ Dump(p)
             \/ ReadHead(p) \/ Walk(p) \/ ReadDat(p) \/ Unlock(p)
    BY <1>1 DEF Create, Initialize, Open, db_close, db_rewind, Dump, ReadHead, Walk, ReadDat, Unlock
  <1>2. CASE db_fetch(p) \/ db_delete(p) \/ db_store(p)
    <2>1. PICK r : FindAndLock(p, r)
      BY <1>2, Calls
    <2> QED BY <2>1 DEF FindAndLock
  <1>3. CASE \/ DeleteLock(p) \/ DeleteBlank(p) \/ DeleteReadFree(p)
             \/ DeleteWriteFree(p) \/ DeleteUnlink(p) \/ DeleteUnlock(p)
    BY <1>3 DEF DeleteLock, DeleteBlank, DeleteReadFree, DeleteWriteFree, DeleteUnlink, DeleteUnlock
  <1>4. CASE FreeLock(p) \/ FreeHead(p) \/ FreeWalk(p) \/ FreeUnlink(p) \/ FreeUnlock(p)
    BY <1>4 DEF FreeLock, FreeHead, FreeWalk, FreeUnlink, FreeUnlock
  <1>5. CASE StoreReadHead(p) \/ StoreWriteDat(p) \/ StoreWritePtr(p) \/ Overwrite(p)
    BY <1>5 DEF StoreReadHead, StoreWriteDat, StoreWritePtr, Overwrite
  <1>6. CASE db_nextrec(p) \/ NextrecReadIdx(p) \/ NextrecReadDat(p) \/ NextrecUnlock(p)
    BY <1>6 DEF db_nextrec, NextrecReadIdx, NextrecReadDat, NextrecUnlock
  <1> QED BY <1>1, <1>2, <1>3, <1>4, <1>5, <1>6 DEF Step

\* Every record keeps its place and its lengths.
SameLayout == \A i \in Rec : /\ i \in Rec' /\ idx'[i].keylen = idx[i].keylen
                             /\ idx'[i].datoff = idx[i].datoff /\ idx'[i].datlen = idx[i].datlen

\* _db_writeidx over a record that _db_findfree found, or _db_dodelete blanks, keeps its layout.
LEMMA LayoutStep ==
  ASSUME NEW on, NEW rank, Sound(on, rank), NEW p \in Proc, Step(p)
  PROVE  SameLayout
  <1>1. idx \in Seq(IndexRecord) /\ h[p] \in Handles
    BY DEF Sound, TypeInv, FilesType
  <1>2. CASE DeleteWriteIdx(p)
    <2>0. PICK k, r : k = h[p].idxoff /\ r = [idx[k] EXCEPT !.key = Blank]
      OBVIOUS
    <2>1. idx' = [idx EXCEPT ![k] = r]
      BY <1>2, <2>0 DEF DeleteWriteIdx
    <2>2. Rec' = Rec
      BY <1>1, <2>1 DEF Rec
    <2>3. \A i \in Rec : idx[i] \in IndexRecord
      BY <1>1 DEF Rec
    <2>4. \A i \in Rec : idx'[i] = IF i = k THEN r ELSE idx[i]
      BY <1>1, <2>1 DEF Rec
    <2>5. k \in Rec => r.keylen = idx[k].keylen /\ r.datoff = idx[k].datoff /\ r.datlen = idx[k].datlen
      BY <2>0, <2>3 DEF IndexRecord
    <2> QED BY <2>2, <2>4, <2>5 DEF SameLayout
  <1>3. CASE StoreWriteIdx(p)
    <2>1. pc[p] = "st_idx"
      BY <1>3 DEF StoreWriteIdx, At
    <2>2. Knows(p, on, rank)
      BY DEF Sound, Placed
    <2>3. PICK r : r = NewRecord(req[p], h[p].datoff)
      OBVIOUS
    <2>4. CASE h[p].offset = 0
      <3>1. idx' = Append(idx, r)
        BY <1>3, <2>3, <2>4 DEF StoreWriteIdx
      <3> QED BY <1>1, <3>1 DEF SameLayout, Rec
    <2>5. CASE h[p].offset # 0
      <3>1. idx' = [idx EXCEPT ![h[p].idxoff] = r]
        BY <1>3, <2>3, <2>5 DEF StoreWriteIdx
      <3>2. Reusing(p)
        BY <2>1, <2>2, <2>5 DEF Knows
      <3>3. /\ r.keylen = idx[h[p].idxoff].keylen /\ r.datoff = idx[h[p].idxoff].datoff
            /\ r.datlen = idx[h[p].idxoff].datlen
        BY <2>3, <3>2 DEF Reusing, Fits, NewRecord
      <3>4. Len(idx') = Len(idx) /\ \A i \in Rec : idx'[i] = IF i = h[p].idxoff THEN r ELSE idx[i]
        BY <1>1, <3>1 DEF Rec
      <3> QED BY <3>3, <3>4 DEF SameLayout, Rec
    <2> QED BY <2>4, <2>5
  <1>4. CASE ~DeleteWriteIdx(p) /\ ~StoreWriteIdx(p)
    <2>1. idx' = idx
      BY <1>4, IdxWritten
    <2> QED BY <2>1 DEF SameLayout, Rec
  <1> QED BY <1>2, <1>3, <1>4

\* So the data written fit the record.
LEMMA NeighboursStep ==
  ASSUME DbInv, DbInv', NEW p \in Proc, Step(p), NEW i \in Rec
  PROVE  /\ <<idx'[i].keylen, idx'[i].datoff, idx'[i].datlen>> = <<idx[i].keylen, idx[i].datoff, idx[i].datlen>>
         /\ dat'[idx[i].datoff] # Blank => DatLen[dat'[idx[i].datoff]] = idx[i].datlen
  <1>1. SameLayout
    <2>1. PICK on \in [Lock -> SUBSET (1 .. MaxRec)], rank \in [Lock -> [1 .. MaxRec -> Nat]] :
            Placed(on, rank)
      BY DEF DbInv, PlacedSomehow
    <2> QED BY <2>1, LayoutStep DEF Sound, DbInv
  <1>2. Lengths'
    BY DEF DbInv, PlacedSomehow, Placed
  <1>3. i \in Rec' /\ (dat'[idx'[i].datoff] # Blank => DatLen[dat'[idx'[i].datoff]] = idx'[i].datlen)
    BY <1>1, <1>2 DEF Lengths, SameLayout
  <1> QED BY <1>1, <1>3 DEF SameLayout

\* No write of db_store or db_delete over an old record is longer or shorter than the record:
\* it cannot run into the one behind it in either file.
THEOREM NeighboursKept == Spec => NeighboursIntact
  <1> DEFINE A == \A i \in Rec :
       LET old == idx[i]
           new == idx'[i]
       IN /\ <<new.keylen, new.datoff, new.datlen>> = <<old.keylen, old.datoff, old.datlen>>
          /\ dat'[old.datoff] # Blank => DatLen[dat'[old.datoff]] = old.datlen
  <1>1. DbInv /\ DbInv' /\ [Next]_vars => [A]_<<idx, dat>>
    <2> SUFFICES ASSUME DbInv, DbInv', [Next]_vars PROVE [A]_<<idx, dat>>
      OBVIOUS
    <2>1. CASE UNCHANGED vars
      BY <2>1 DEF vars
    <2>2. CASE Next
      BY <2>2, NeighboursStep DEF Next
    <2> QED BY <2>1, <2>2
  <1> QED BY <1>1, DbInvariant, PTL DEF Spec, NeighboursIntact

-----------------------------------------------------------------------------
(* The dictionary: when a call has its result                                *)

\* Labels at which a call has no result yet, ...
Silent == {"closed", "creating", "idle", "dumped", "head", "walk", "readdat", "overwrite",
           "dl_lock", "dl_blank", "st_head", "nr_idx", "nr_dat"} \cup FindFree
\* ... and those of _db_dodelete at which the data are blank.
Blanked == {"dl_free", "dl_idx", "dl_ptr", "dl_unlink", "dl_unlock"}

\* The result of a call is fixed when it takes effect, and not again.
OutIs(p) ==
  /\ pc[p] \in Silent => out[p] = Pending
  /\ pc[p] \in Blanked => out[p] = <<req[p].op, 0>>
  /\ At(p, "st_rehead") => out[p] = <<"store", 0>>
  /\ pc[p] \in {"st_dat", "st_idx"} => out[p] \in {Pending, <<"store", 0>>}

\* db_nextrec has read a record that is still there.
Scanned(p) ==
  At(p, "nr_dat") => \E i \in Rec : /\ idx[i].key = req[p].key /\ req[p].key \in Key
                                    /\ h[p].datoff = idx[i].datoff

\* What a pointer read from a chain does to the result, ...
LEMMA WalksReplies ==
  ASSUME NEW p \in Proc, NEW o, Walks(p, o)
  PROVE  \/ UNCHANGED out /\ (Goto(p, "walk") \/ Goto(p, "st_head"))
         \/ /\ o = 0 /\ Goto(p, "unlock")
            /\ Result(p, IF req[p].op = "fetch" THEN <<"fetch", None>> ELSE <<req[p].op, -1>>)
  BY DEF Walks, NotFound

\* ... and what the record with the key does.
LEMMA FoundReplies ==
  ASSUME NEW p \in Proc, NEW i, Found(p, i), req[p].op \in {"fetch", "delete", "store"}
  PROVE  \/ UNCHANGED out /\ (Goto(p, "readdat") \/ Goto(p, "dl_lock") \/ Goto(p, "overwrite"))
         \/ req[p].op = "store" /\ Goto(p, "unlock") /\ Result(p, <<"store", 1>>)
  <1>1. CASE req[p].op = "fetch"
    BY <1>1 DEF Found
  <1>2. CASE req[p].op = "delete"
    BY <1>2 DEF Found
  <1>3. CASE req[p].op = "store" /\ req[p].flag = "DB_INSERT"
    BY <1>3 DEF Found
  <1>4. CASE req[p].op = "store" /\ req[p].flag # "DB_INSERT"
    <2>1. UNCHANGED out /\ Goto(p, IF DatLen[req[p].data] # idx[i].datlen THEN "dl_lock" ELSE "overwrite")
      BY <1>4 DEF Found
    <2> QED BY <2>1
  <1> QED BY <1>1, <1>2, <1>3, <1>4

\* A step fixes the result of its own call at most, where its label says so.
LEMMA OutStep ==
  ASSUME TypeInv, out = [q \in Proc |-> out[q]], NEW p \in Proc, Asked(p), OutIs(p), Step(p)
  PROVE  OutIs(p)' /\ out' = [out EXCEPT ![p] = out'[p]]
  <1> USE DEF OutIs, At, Goto, Result, Silent, Blanked, FindFree
  <1>p. pc \in [Proc -> Label] /\ req = [q \in Proc |-> req[q]]
    BY DEF TypeInv
  <1>a. pc[p] \in ChainLabel => req[p].op \in {"fetch", "delete", "store"}
    BY DEF Asked
  <1>1. CASE db_fetch(p) \/ db_delete(p) \/ db_store(p)
    <2>1. PICK r : FindAndLock(p, r)
      BY <1>1, Calls
    <2> QED BY <2>1, <1>p DEF FindAndLock
  <1>2. CASE ReadHead(p)
    <2>1. Walks(p, ptr[chain(p)]) /\ req' = req /\ pc[p] = "head"
      BY <1>2 DEF ReadHead
    <2> QED BY <2>1, <1>p, WalksReplies
  <1>3. CASE Walk(p)
    <2>1. (Found(p, h[p].offset) \/ Walks(p, ptr[h[p].offset])) /\ req' = req /\ pc[p] = "walk"
      BY <1>3 DEF Walk
    <2>2. CASE Found(p, h[p].offset)
      BY <2>1, <2>2, <1>p, <1>a, FoundReplies DEF ChainLabel
    <2>3. CASE Walks(p, ptr[h[p].offset])
      BY <2>1, <2>3, <1>p, WalksReplies
    <2> QED BY <2>1, <2>2, <2>3
  <1>4. CASE Create(p)
    BY <1>p, <1>4 DEF Create
  <1>5. CASE Initialize(p)
    BY <1>p, <1>5 DEF Initialize
  <1>6. CASE Open(p)
    BY <1>p, <1>6 DEF Open
  <1>7. CASE db_close(p)
    BY <1>p, <1>7 DEF db_close
  <1>8. CASE db_rewind(p)
    BY <1>p, <1>8 DEF db_rewind
  <1>9. CASE Dump(p)
    BY <1>p, <1>9 DEF Dump
  <1>10. CASE ReadDat(p)
    BY <1>p, <1>10 DEF ReadDat
  <1>11. CASE Unlock(p)
    BY <1>p, <1>11 DEF Unlock
  <1>12. CASE DeleteLock(p)
    BY <1>p, <1>12 DEF DeleteLock
  <1>13. CASE DeleteBlank(p)
    BY <1>p, <1>13 DEF DeleteBlank
  <1>14. CASE DeleteReadFree(p)
    BY <1>p, <1>14 DEF DeleteReadFree
  <1>15. CASE DeleteWriteIdx(p)
    BY <1>p, <1>15 DEF DeleteWriteIdx
  <1>16. CASE DeleteWriteFree(p)
    BY <1>p, <1>16 DEF DeleteWriteFree
  <1>17. CASE DeleteUnlink(p)
    BY <1>p, <1>17 DEF DeleteUnlink
  <1>18. CASE DeleteUnlock(p)
    BY <1>p, <1>18 DEF DeleteUnlock
  <1>19. CASE FreeLock(p)
    BY <1>p, <1>19 DEF FreeLock
  <1>20. CASE FreeHead(p)
    BY <1>p, <1>20 DEF FreeHead, WalksFree
  <1>21. CASE FreeWalk(p)
    BY <1>p, <1>21 DEF FreeWalk, WalksFree
  <1>22. CASE FreeUnlink(p)
    BY <1>p, <1>22 DEF FreeUnlink
  <1>23. CASE FreeUnlock(p)
    BY <1>p, <1>23 DEF FreeUnlock
  <1>24. CASE StoreReadHead(p)
    BY <1>p, <1>24 DEF StoreReadHead
  <1>25. CASE StoreWriteDat(p)
    BY <1>p, <1>25 DEF StoreWriteDat
  <1>26. CASE StoreWriteIdx(p)
    BY <1>p, <1>26 DEF StoreWriteIdx
  <1>27. CASE StoreWritePtr(p)
    BY <1>p, <1>27 DEF StoreWritePtr
  <1>28. CASE Overwrite(p)
    BY <1>p, <1>28 DEF Overwrite
  <1>29. CASE db_nextrec(p)
    BY <1>p, <1>29 DEF db_nextrec
  <1>30. CASE NextrecReadIdx(p)
    BY <1>p, <1>30 DEF NextrecReadIdx
  <1>31. CASE NextrecReadDat(p)
    BY <1>p, <1>31 DEF NextrecReadDat
  <1>32. CASE NextrecUnlock(p)
    BY <1>p, <1>32 DEF NextrecUnlock
  <1> QED BY <1>1, <1>2, <1>3, <1>4, <1>5, <1>6, <1>7, <1>8, <1>9, <1>10, <1>11, <1>12, <1>13, <1>14, <1>15, <1>16, <1>17, <1>18, <1>19, <1>20, <1>21, <1>22, <1>23, <1>24, <1>25, <1>26, <1>27, <1>28, <1>29, <1>30, <1>31, <1>32 DEF Step

\* The only writes of index records, and what they leave.
LEMMA IdxKeeps ==
  ASSUME NEW on, NEW rank, Sound(on, rank), NEW p \in Proc, Step(p), NEW i \in Rec
  PROVE  /\ i \in Rec' /\ idx'[i].datoff = idx[i].datoff
         /\ \/ idx'[i] = idx[i]
            \/ DeleteWriteIdx(p) /\ i = h[p].idxoff
            \/ StoreWriteIdx(p) /\ i = h[p].idxoff /\ h[p].offset # 0
  <1>1. i \in Rec' /\ idx'[i].datoff = idx[i].datoff
    BY LayoutStep DEF SameLayout
  <1>2. idx \in Seq(IndexRecord) /\ i \in 1 .. Len(idx)
    BY DEF Sound, TypeInv, FilesType, Rec
  <1>3. CASE DeleteWriteIdx(p)
    <2>1. PICK k, r : k = h[p].idxoff /\ r = [idx[k] EXCEPT !.key = Blank]
      OBVIOUS
    <2>2. idx' = [idx EXCEPT ![k] = r]
      BY <1>3, <2>1 DEF DeleteWriteIdx
    <2>3. i # k => idx'[i] = idx[i]
      BY <1>2, <2>2
    <2> QED BY <1>1, <1>3, <2>1, <2>3
  <1>4. CASE StoreWriteIdx(p)
    <2>1. PICK k, r : k = h[p].idxoff /\ r = NewRecord(req[p], h[p].datoff)
      OBVIOUS
    <2>2. idx' = IF h[p].offset = 0 THEN Append(idx, r) ELSE [idx EXCEPT ![k] = r]
      BY <1>4, <2>1 DEF StoreWriteIdx
    <2>3. h[p].offset = 0 \/ i # k => idx'[i] = idx[i]
      BY <1>2, <2>2
    <2> QED BY <1>1, <1>4, <2>1, <2>3
  <1>5. CASE ~DeleteWriteIdx(p) /\ ~StoreWriteIdx(p)
    BY <1>1, <1>5, IdxWritten
  <1> QED BY <1>3, <1>4, <1>5

\* Where a scan has found a record.
LEMMA OnlyScans ==
  ASSUME TypeInv, NEW p \in Proc, Asked(p), Step(p), pc'[p] = "nr_dat", pc[p] # "nr_dat"
  PROVE  NextrecReadIdx(p)
  <1> USE DEF Goto, At
  <1>p. p \in DOMAIN pc
    BY DEF TypeInv
  <1>a. pc[p] \in {"walk"} => req[p].op \in {"fetch", "delete", "store"}
    BY DEF Asked, ChainLabel
  <1>1. ~(db_fetch(p) \/ db_delete(p) \/ db_store(p))
    <2>1. SUFFICES ASSUME db_fetch(p) \/ db_delete(p) \/ db_store(p) PROVE FALSE
      OBVIOUS
    <2>2. PICK r : FindAndLock(p, r)
      BY <2>1, Calls
    <2> QED BY <1>p, <2>2 DEF FindAndLock
  <1>2. ~ReadHead(p)
    BY <1>p, WalksGoes DEF ReadHead
  <1>3. ~Walk(p)
    <2>1. SUFFICES ASSUME Walk(p) PROVE FALSE
      OBVIOUS
    <2>2. (Found(p, h[p].offset) \/ Walks(p, ptr[h[p].offset])) /\ pc[p] = "walk"
      BY <2>1 DEF Walk
    <2> QED BY <1>p, <1>a, <2>2, FoundGoes, WalksGoes
  <1>4. ~(Create(p) \/ Initialize(p) \/ Open(p) \/ db_close(p) \/ db_rewind(p) \/ Dump(p))
    BY <1>p DEF Create, Initialize, Open, db_close, db_rewind, Dump
  <1>5. ~(ReadDat(p) \/ Unlock(p) \/ DeleteLock(p) \/ DeleteBlank(p) \/ DeleteReadFree(p))
    BY <1>p DEF ReadDat, Unlock, DeleteLock, DeleteBlank, DeleteReadFree
  <1>6. ~(DeleteWriteIdx(p) \/ DeleteWriteFree(p) \/ DeleteUnlink(p) \/ DeleteUnlock(p))
    BY <1>p DEF DeleteWriteIdx, DeleteWriteFree, DeleteUnlink, DeleteUnlock
  <1>7. ~(FreeLock(p) \/ FreeHead(p) \/ FreeWalk(p) \/ FreeUnlink(p) \/ FreeUnlock(p))
    BY <1>p DEF FreeLock, FreeHead, FreeWalk, FreeUnlink, FreeUnlock, WalksFree
  <1>8. ~(StoreReadHead(p) \/ StoreWriteDat(p) \/ StoreWriteIdx(p) \/ StoreWritePtr(p) \/ Overwrite(p))
    BY <1>p DEF StoreReadHead, StoreWriteDat, StoreWriteIdx, StoreWritePtr, Overwrite
  <1>9. ~(db_nextrec(p) \/ NextrecReadDat(p) \/ NextrecUnlock(p))
    BY <1>p DEF db_nextrec, NextrecReadDat, NextrecUnlock
  <1> QED BY <1>1, <1>2, <1>3, <1>4, <1>5, <1>6, <1>7, <1>8, <1>9 DEF Step

\* While a scan holds the free list, the record it has read is not deleted.
LEMMA ScannedStep ==
  ASSUME NEW on, NEW rank, Sound(on, rank), NEW p \in Proc, Step(p), NEW q \in Proc, Scanned(q)
  PROVE  Scanned(q)'
  <1> SUFFICES ASSUME pc'[q] = "nr_dat"
               PROVE  \E i \in Rec' : /\ idx'[i].key = req'[q].key /\ req'[q].key \in Key
                                      /\ h'[q].datoff = idx'[i].datoff
    BY DEF Scanned, At
  <1>1. CASE pc[q] = "nr_dat"
    <2>1. q # p \/ NextrecReadDat(p)
      <3>1. SUFFICES ASSUME q = p PROVE NextrecReadDat(p)
        OBVIOUS
      <3>2. pc[p] = "nr_dat"
        BY <1>1, <3>1
      <3>3. ~(db_fetch(p) \/ db_delete(p) \/ db_store(p))
        BY <3>2, Calls DEF FindAndLock, At
      <3> QED BY <3>2, <3>3 DEF Step, At, Create, Initialize, Open, db_close, db_rewind, Dump, ReadHead, Walk,
            ReadDat, Unlock, DeleteLock, DeleteBlank, DeleteReadFree, DeleteWriteIdx, DeleteWriteFree,
            DeleteUnlink, DeleteUnlock, FreeLock, FreeHead, FreeWalk, FreeUnlink, FreeUnlock,
            StoreReadHead, StoreWriteDat, StoreWriteIdx, StoreWritePtr, Overwrite,
            db_nextrec, NextrecReadIdx, NextrecUnlock
    <2>2. q # p
      BY <1>1, <2>1, QuietMoves DEF NextrecReadDat, Goto
    <2>3. pc'[q] = pc[q] /\ h'[q] = h[q] /\ req'[q] = req[q]
      BY <2>2, QuietMoves
    <2>4. PICK i \in Rec : idx[i].key = req[q].key /\ req[q].key \in Key /\ h[q].datoff = idx[i].datoff
      BY <1>1 DEF Scanned, At
    <2>5. idx[i].key # Blank
      BY <2>4
    <2>6. ~DeleteWriteIdx(p)
      <3>1. SUFFICES ASSUME DeleteWriteIdx(p) PROVE FALSE
        OBVIOUS
      <3>2. pc[p] \in FreeLabel
        BY <3>1 DEF DeleteWriteIdx, At, FreeLabel, DeleteLabel, Blanking
      <3>3. pc[q] \in ScanLabel
        BY <1>1 DEF ScanLabel
      <3> QED BY <2>2, <3>2, <3>3, FreeApart DEF Sound
    <2>7. StoreWriteIdx(p) /\ h[p].offset # 0 => idx[h[p].idxoff].key = Blank
      BY DEF StoreWriteIdx, At, Sound, Placed, Knows, Reusing
    <2>8. i \in Rec' /\ idx'[i].datoff = idx[i].datoff /\ idx'[i] = idx[i]
      BY <2>5, <2>6, <2>7, IdxKeeps
    <2> QED BY <2>3, <2>4, <2>8
  <1>2. CASE pc[q] # "nr_dat"
    <2>1. q = p
      BY <1>2, QuietMoves
    <2>2. NextrecReadIdx(p)
      BY <1>2, <2>1, OnlyScans DEF Sound
    <2>3. PICK i : i = scan[p]
      OBVIOUS
    <2>4. /\ i \in Rec /\ idx[i].key # Blank /\ UNCHANGED files
          /\ req' = [req EXCEPT ![p] = [op |-> "nextrec", key |-> idx[i].key]]
          /\ h' = [h EXCEPT ![p] = [NoHandle EXCEPT !.datoff = idx[i].datoff]]
      BY <1>2, <2>1, <2>2, <2>3, QuietMoves DEF NextrecReadIdx, Goto, Handle
    <2>5. idx' = idx /\ Rec' = Rec
      BY <2>4 DEF files, Rec
    <2>6. req'[p].key = idx[i].key /\ h'[p].datoff = idx[i].datoff
      BY <2>4, QuietMoves DEF NoHandle
    <2>7. idx[i].key \in Key
      <3>1. idx[i] \in IndexRecord
        BY <2>4 DEF Sound, TypeInv, FilesType, Rec
      <3> QED BY <2>4, <3>1 DEF IndexRecord
    <2> QED BY <2>1, <2>4, <2>5, <2>6, <2>7
  <1> QED BY <1>1, <1>2

-----------------------------------------------------------------------------
(* The dictionary: what the map is at a key                                  *)

\* While p works on its key, nobody else deletes or stores it.
LEMMA Alone ==
  ASSUME NEW on, NEW rank, Sound(on, rank), NEW p \in Proc, pc[p] \in ChainLabel,
         NEW q \in Proc, q # p, pc[q] \in ChainLabel, req[q].op # "fetch"
  PROVE  req[q].key # req[p].key
  <1>1. chain(p) # chain(q)
    BY Apart DEF Sound
  <1> QED BY <1>1 DEF chain

\* Where a replacement is under way.
ReplaceLabel == Blanked \cup {"st_rehead", "st_dat", "st_idx"}

\* There is one replacement of a key at a time, by the process that has its chain.
LEMMA ReplacingIs ==
  ASSUME NEW on, NEW rank, Sound(on, rank), NEW k \in Key, NEW q \in Replacing(k)
  PROVE  /\ q \in Proc /\ pc[q] \in ReplaceLabel /\ pc[q] \in ChainLabel
         /\ req[q].op = "store" /\ req[q].op # "fetch" /\ req[q].key = k
         /\ \A r \in Replacing(k) : r = q
  <1> DEFINE What(r) == /\ r \in Proc /\ pc[r] \in ReplaceLabel /\ pc[r] \in ChainLabel
                        /\ req[r].op = "store" /\ req[r].op # "fetch" /\ req[r].key = k
  <1>1. ReplaceLabel \subseteq ChainLabel
    BY DEF ReplaceLabel, Blanked, ChainLabel, DeleteLabel, StoreLabel, Blanking, Linking
  <1>2. \A r \in Replacing(k) : What(r)
    BY <1>1 DEF Replacing, ReplaceLabel, Blanked
  <1>3. \A r \in Replacing(k) : r = q
    BY <1>2, Alone
  <1> QED BY <1>2, <1>3

\* What the map Contents is at a key.
ContentsMean ==
  /\ Contents = [k \in Key |-> Contents[k]]
  /\ \A k \in Key :
       /\ \A q \in Replacing(k) : Contents[k] = req[q].data
       /\ Replacing(k) = {} => \A i \in Holding(k) : Contents[k] = dat[idx[i].datoff]
       /\ Replacing(k) = {} /\ Holding(k) = {} => Contents[k] = None

\* The map is what the replacements and the records say: no key is there twice.
LEMMA ContentsFollow == DbInv => ContentsMean
  <1> SUFFICES ASSUME DbInv PROVE ContentsMean
    OBVIOUS
  <1>1. PICK on \in [Lock -> SUBSET (1 .. MaxRec)], rank \in [Lock -> [1 .. MaxRec -> Nat]] :
          Placed(on, rank)
    BY DEF DbInv, PlacedSomehow
  <1>2. Sound(on, rank)
    BY <1>1 DEF Sound, DbInv
  <1>3. KeysOnTheirChain
    BY KeysFollow
  <1>4. Contents = [k \in Key |-> Contents[k]]
    BY DEF Contents
  <1>5. ASSUME NEW k \in Key
        PROVE  Contents[k] = IF Replacing(k) # {} THEN req[CHOOSE q \in Replacing(k) : TRUE].data
                             ELSE IF Holding(k) # {} THEN dat[idx[CHOOSE i \in Holding(k) : TRUE].datoff]
                             ELSE None
    BY DEF Contents
  <1>6. ASSUME NEW k \in Key, NEW q \in Replacing(k) PROVE Contents[k] = req[q].data
    <2>1. (CHOOSE r \in Replacing(k) : TRUE) = q
      BY <1>2, ReplacingIs
    <2> QED BY <1>5, <2>1
  <1>7. ASSUME NEW k \in Key, Replacing(k) = {}, NEW i \in Holding(k)
        PROVE  Contents[k] = dat[idx[i].datoff]
    <2>1. \A j \in Holding(k) : j = i
      BY <1>3 DEF Holding, KeysOnTheirChain
    <2>2. (CHOOSE j \in Holding(k) : TRUE) = i
      BY <2>1
    <2> QED BY <1>5, <1>7, <2>2
  <1> QED BY <1>4, <1>5, <1>6, <1>7 DEF ContentsMean

\* A key whose records and replacement a step leaves alone keeps its data.
Kept(k) ==
  /\ Replacing(k)' = Replacing(k) /\ \A q \in Replacing(k) : req'[q] = req[q]
  /\ Holding(k)' = Holding(k) /\ \A i \in Holding(k) : dat'[idx'[i].datoff] = dat[idx[i].datoff]

\* ... it does, ...
LEMMA KeptContents ==
  ASSUME ContentsMean, ContentsMean', NEW k \in Key, Kept(k)
  PROVE  Contents'[k] = Contents[k]
  <1>1. CASE Replacing(k) # {}
    <2>1. PICK q \in Replacing(k) : TRUE
      BY <1>1
    <2>2. Contents[k] = req[q].data /\ Contents'[k] = req'[q].data
      BY <2>1 DEF ContentsMean, Kept
    <2> QED BY <2>1, <2>2 DEF Kept
  <1>2. CASE Replacing(k) = {} /\ Holding(k) # {}
    <2>1. PICK i \in Holding(k) : TRUE
      BY <1>2
    <2>2. Contents[k] = dat[idx[i].datoff] /\ Contents'[k] = dat'[idx'[i].datoff]
      BY <1>2, <2>1 DEF ContentsMean, Kept
    <2> QED BY <2>1, <2>2 DEF Kept
  <1>3. CASE Replacing(k) = {} /\ Holding(k) = {}
    BY <1>3 DEF ContentsMean, Kept
  <1> QED BY <1>1, <1>2, <1>3

\* ... and if all keys are kept, so is the map.
LEMMA SameContents ==
  ASSUME ContentsMean, ContentsMean', \A k \in Key : Kept(k)
  PROVE  Contents' = Contents
  <1>1. \A k \in Key : Contents'[k] = Contents[k]
    BY KeptContents
  <1>2. Contents = [k \in Key |-> Contents[k]] /\ Contents' = [k \in Key |-> Contents'[k]]
    BY DEF ContentsMean
  <1> HIDE DEF Contents
  <1> QED BY <1>1, <1>2

\* What is written at a key.
LEMMA OneWritten ==
  ASSUME ContentsMean, ContentsMean', NEW k \in Key, \A j \in Key \ {k} : Kept(j)
  PROVE  Contents' = [Contents EXCEPT ![k] = Contents'[k]]
  <1>1. \A j \in Key \ {k} : Contents'[j] = Contents[j]
    BY KeptContents
  <1>2. Contents = [j \in Key |-> Contents[j]] /\ Contents' = [j \in Key |-> Contents'[j]]
    BY DEF ContentsMean
  <1> QED BY <1>1, <1>2

\* How a step moves with respect to a replacement.
LEMMA ReplaceMoves ==
  ASSUME TypeInv, NEW p \in Proc, Asked(p), Step(p), ~DeleteBlank(p), ~StoreWriteIdx(p)
  PROVE  \/ pc[p] \notin ReplaceLabel /\ pc'[p] \notin ReplaceLabel
         \/ pc[p] = "ff_unlock" /\ out' = out
         \/ pc[p] \in ReplaceLabel /\ pc'[p] \in ReplaceLabel /\ UNCHANGED <<req, out>>
         \/ pc[p] \in ReplaceLabel /\ req[p].op # "store" /\ pc'[p] = "unlock"
  <1> USE DEF Goto, At, ReplaceLabel, Blanked
  <1>p. p \in DOMAIN pc
    BY DEF TypeInv
  <1>1. CASE db_fetch(p) \/ db_delete(p) \/ db_store(p)
    <2>1. PICK r : FindAndLock(p, r)
      BY <1>1, Calls
    <2> QED BY <1>p, <2>1 DEF FindAndLock
  <1>2. CASE ReadHead(p)
    BY <1>p, <1>2, WalksGoes DEF ReadHead
  <1>3. CASE Walk(p)
    <2>1. (Found(p, h[p].offset) \/ Walks(p, ptr[h[p].offset])) /\ pc[p] = "walk"
      BY <1>3 DEF Walk
    <2>2. req[p].op \in {"fetch", "delete", "store"}
      BY <2>1 DEF Asked, ChainLabel
    <2> QED BY <1>p, <2>1, <2>2, FoundGoes, WalksGoes
  <1>4. CASE Create(p) \/ Initialize(p) \/ Open(p) \/ db_close(p) \/ db_rewind(p) \/ Dump(p)
    BY <1>p, <1>4 DEF Create, Initialize, Open, db_close, db_rewind, Dump
  <1>5. CASE ReadDat(p) \/ Unlock(p) \/ DeleteLock(p)
    BY <1>p, <1>5 DEF ReadDat, Unlock, DeleteLock
  <1>6. CASE DeleteReadFree(p) \/ DeleteWriteIdx(p) \/ DeleteWriteFree(p) \/ DeleteUnlink(p)
    BY <1>p, <1>6 DEF DeleteReadFree, DeleteWriteIdx, DeleteWriteFree, DeleteUnlink
  <1>7. CASE DeleteUnlock(p)
    BY <1>p, <1>7 DEF DeleteUnlock
  <1>8. CASE FreeLock(p) \/ FreeHead(p) \/ FreeWalk(p) \/ FreeUnlink(p)
    BY <1>p, <1>8 DEF FreeLock, FreeHead, FreeWalk, FreeUnlink, WalksFree
  <1>9. CASE FreeUnlock(p)
    BY <1>9 DEF FreeUnlock
  <1>10. CASE StoreReadHead(p) \/ StoreWriteDat(p)
    BY <1>p, <1>10 DEF StoreReadHead, StoreWriteDat
  <1>11. CASE StoreWritePtr(p) \/ Overwrite(p)
    BY <1>p, <1>11 DEF StoreWritePtr, Overwrite
  <1>12. CASE db_nextrec(p) \/ NextrecReadIdx(p) \/ NextrecReadDat(p) \/ NextrecUnlock(p)
    BY <1>p, <1>12 DEF db_nextrec, NextrecReadIdx, NextrecReadDat, NextrecUnlock
  <1> QED BY <1>1, <1>2, <1>3, <1>4, <1>5, <1>6, <1>7, <1>8, <1>9, <1>10, <1>11, <1>12 DEF Step

\* Replacements begin at the blanking and end at the new index record.
LEMMA ReplacingStep ==
  ASSUME NEW on, NEW rank, Sound(on, rank), out = [q \in Proc |-> out[q]],
         NEW p \in Proc, OutIs(p), Step(p), ~DeleteBlank(p), ~StoreWriteIdx(p), NEW k \in Key
  PROVE  Replacing(k)' = Replacing(k) /\ \A q \in Replacing(k) : req'[q] = req[q]
  <1>1. TypeInv /\ Asked(p)
    BY DEF Sound
  <1>2. \A q \in Proc \ {p} : pc'[q] = pc[q] /\ req'[q] = req[q] /\ out'[q] = out[q]
    BY <1>1, QuietMoves, OutStep
  <1> DEFINE In(q) == /\ req[q].op = "store" /\ req[q].key = k /\ out[q] # Pending /\ out[q][2] = 0
                      /\ pc[q] \in ReplaceLabel
             Out(q) == /\ req'[q].op = "store" /\ req'[q].key = k /\ out'[q] # Pending /\ out'[q][2] = 0
                       /\ pc'[q] \in ReplaceLabel
  <1>3. Replacing(k) = {q \in Proc : In(q)} /\ Replacing(k)' = {q \in Proc : Out(q)}
    BY DEF Replacing, ReplaceLabel, Blanked
  <1>4. (Out(p) <=> In(p)) /\ (In(p) => req'[p] = req[p])
    <2>1. CASE pc[p] \notin ReplaceLabel /\ pc'[p] \notin ReplaceLabel
      BY <2>1
    <2>2. CASE pc[p] = "ff_unlock" /\ out' = out
      <3>1. out[p] = Pending /\ out'[p] = Pending
        BY <2>2 DEF OutIs, Silent, FindFree
      <3> QED BY <3>1
    <2>3. CASE pc[p] \in ReplaceLabel /\ pc'[p] \in ReplaceLabel /\ UNCHANGED <<req, out>>
      BY <2>3
    <2>4. CASE pc[p] \in ReplaceLabel /\ req[p].op # "store" /\ pc'[p] = "unlock"
      BY <2>4 DEF ReplaceLabel, Blanked
    <2> QED BY <1>1, <2>1, <2>2, <2>3, <2>4, ReplaceMoves
  <1>5. \A q \in Proc : (Out(q) <=> In(q)) /\ (In(q) => req'[q] = req[q])
    BY <1>2, <1>4
  <1> HIDE DEF In, Out
  <1> QED BY <1>3, <1>5

\* The only writes of data.
LEMMA DatWritten ==
  ASSUME NEW p \in Proc, Step(p), ~DeleteBlank(p), ~StoreWriteDat(p), ~Overwrite(p)
  PROVE  dat' = dat
  <1> USE DEF files
  <1>1. CASE \/ Create(p) \/ Initialize(p) \/ Open(p) \/ db_close(p) \/ db_rewind(p) \/ Dump(p)
             \/ ReadHead(p) \/ Walk(p) \/ ReadDat(p) \/ Unlock(p)
    BY <1>1 DEF Create, Initialize, Open, db_close, db_rewind, Dump, ReadHead, Walk, ReadDat, Unlock
  <1>2. CASE db_fetch(p) \/ db_delete(p) \/ db_store(p)
    <2>1. PICK r : FindAndLock(p, r)
      BY <1>2, Calls
    <2> QED BY <2>1 DEF FindAndLock
  <1>3. CASE \/ DeleteLock(p) \/ DeleteReadFree(p) \/ DeleteWriteIdx(p)
             \/ DeleteWriteFree(p) \/ DeleteUnlink(p) \/ DeleteUnlock(p)
    BY <1>3 DEF DeleteLock, DeleteReadFree, DeleteWriteIdx, DeleteWriteFree, DeleteUnlink, DeleteUnlock
  <1>4. CASE FreeLock(p) \/ FreeHead(p) \/ FreeWalk(p) \/ FreeUnlink(p) \/ FreeUnlock(p)
    BY <1>4 DEF FreeLock, FreeHead, FreeWalk, FreeUnlink, FreeUnlock
  <1>5. CASE StoreReadHead(p) \/ StoreWriteIdx(p) \/ StoreWritePtr(p)
    BY <1>5 DEF StoreReadHead, StoreWriteIdx, StoreWritePtr
  <1>6. CASE db_nextrec(p) \/ NextrecReadIdx(p) \/ NextrecReadDat(p) \/ NextrecUnlock(p)
    BY <1>6 DEF db_nextrec, NextrecReadIdx, NextrecReadDat, NextrecUnlock
  <1> QED BY <1>1, <1>2, <1>3, <1>4, <1>5, <1>6 DEF Step

\* A record that shows in Contents.
Shown(i) == idx[i].key \in Key /\ dat[idx[i].datoff] # Blank

\* The record whose data or key a step changes for all to see.
Changes(p, i) == /\ i = h[p].idxoff
                 /\ DeleteBlank(p) \/ Overwrite(p) \/ (StoreWriteIdx(p) /\ h[p].offset # 0)

\* The other writes change no record that shows, and make none show.
LEMMA ShownStep ==
  ASSUME NEW on, NEW rank, Sound(on, rank), NEW p \in Proc, Step(p), NEW i \in Rec, ~Changes(p, i)
  PROVE  /\ Shown(i)' <=> Shown(i)
         /\ Shown(i) => idx'[i].key = idx[i].key /\ dat'[idx'[i].datoff] = dat[idx[i].datoff]
  <1> USE DEF At
  <1>1. /\ idx[i].datoff \in 1 .. Len(dat) /\ idx'[i].datoff = idx[i].datoff /\ Len(dat) \in Nat
        /\ Knows(p, on, rank) /\ Lengths /\ dat \in Seq(Data \cup {Blank})
        /\ idx \in Seq(IndexRecord) /\ i \in 1 .. Len(idx)
    <2>1. idx'[i].datoff = idx[i].datoff
      BY IdxKeeps
    <2>2. FilesType /\ Knows(p, on, rank) /\ Lengths
      BY DEF Sound, TypeInv, Placed
    <2>3. idx[i].datoff \in 1 .. Len(dat) /\ dat \in Seq(Data \cup {Blank}) /\ idx \in Seq(IndexRecord)
      BY <2>2 DEF FilesType
    <2> QED BY <2>1, <2>2, <2>3 DEF Rec
  <1>2. CASE DeleteWriteIdx(p)
    <2>1. pc[p] = "dl_idx" /\ dat' = dat
      BY <1>2 DEF DeleteWriteIdx
    <2>2. CASE i = h[p].idxoff
      <3>1. dat[idx[i].datoff] = Blank
        BY <1>1, <2>1, <2>2 DEF Knows
      <3> QED BY <1>1, <2>1, <3>1 DEF Shown
    <2>3. CASE i # h[p].idxoff
      <3>1. idx'[i] = idx[i]
        BY <2>1, <2>3, IdxKeeps DEF StoreWriteIdx
      <3> QED BY <2>1, <3>1 DEF Shown
    <2> QED BY <2>2, <2>3
  <1>3. CASE StoreWriteDat(p)
    <2>1. pc[p] = "st_dat"
      BY <1>3 DEF StoreWriteDat
    <2>2. idx' = idx
      BY <1>3 DEF StoreWriteDat
    <2>3. CASE h[p].offset = 0
      <3>1. dat' = Append(dat, req[p].data)
        BY <1>3, <2>3 DEF StoreWriteDat
      <3>2. dat'[idx[i].datoff] = dat[idx[i].datoff]
        BY <1>1, <3>1
      <3> QED BY <2>2, <3>2 DEF Shown
    <2>4. CASE h[p].offset # 0 /\ i = h[p].idxoff
      <3>1. idx[i].key = Blank
        BY <1>1, <2>1, <2>4 DEF Knows, Reusing
      <3> QED BY <2>2, <3>1 DEF Shown
    <2>5. CASE h[p].offset # 0 /\ i # h[p].idxoff
      <3>1. h[p].idxoff \in Rec /\ h[p].datoff = idx[h[p].idxoff].datoff
        BY <1>1, <2>1, <2>5 DEF Knows, Reusing
      <3>2. h[p].datoff # idx[i].datoff
        BY <1>1, <2>5, <3>1 DEF Lengths
      <3>3. PICK d, e : d = h[p].datoff /\ e = req[p].data
        OBVIOUS
      <3>4. dat' = [dat EXCEPT ![d] = e]
        BY <1>3, <2>5, <3>3 DEF StoreWriteDat
      <3>5. dat'[idx[i].datoff] = dat[idx[i].datoff]
        BY <1>1, <3>2, <3>3, <3>4
      <3> QED BY <2>2, <3>5 DEF Shown
    <2> QED BY <2>3, <2>4, <2>5
  <1>4. CASE DeleteBlank(p) \/ Overwrite(p)
    <2>1. i # h[p].idxoff
      BY <1>4 DEF Changes
    <2>2. idx' = idx
      BY <1>4 DEF DeleteBlank, Overwrite
    <2>3. h[p].idxoff \in Rec /\ h[p].datoff = idx[h[p].idxoff].datoff
      <3>1. pc[p] \in {"dl_blank", "overwrite"}
        BY <1>4 DEF DeleteBlank, Overwrite
      <3>2. Whereabouts(p)
        BY Located DEF Sound, Placed
      <3> QED BY <3>1, <3>2 DEF Whereabouts, Blanking
    <2>4. h[p].datoff # idx[i].datoff
      BY <1>1, <2>1, <2>3 DEF Lengths
    <2>5. PICK d, e : d = h[p].datoff /\ dat' = [dat EXCEPT ![d] = e]
      BY <1>4 DEF DeleteBlank, Overwrite
    <2>6. dat'[idx[i].datoff] = dat[idx[i].datoff]
      BY <1>1, <2>4, <2>5
    <2> QED BY <2>2, <2>6 DEF Shown
  <1>5. CASE StoreWriteIdx(p)
    <2>1. dat' = dat
      BY <1>5 DEF StoreWriteIdx
    <2>2. idx'[i] = idx[i]
      BY <1>5, IdxKeeps DEF Changes, StoreWriteIdx, DeleteWriteIdx
    <2> QED BY <2>1, <2>2 DEF Shown
  <1>6. CASE ~DeleteWriteIdx(p) /\ ~StoreWriteDat(p) /\ ~DeleteBlank(p) /\ ~Overwrite(p) /\ ~StoreWriteIdx(p)
    <2>1. idx' = idx /\ dat' = dat
      BY <1>6, IdxWritten, DatWritten
    <2> QED BY <2>1 DEF Shown
  <1> QED BY <1>2, <1>3, <1>4, <1>5, <1>6

\* Records are appended by db_store alone.
LEMMA RecStep ==
  ASSUME NEW on, NEW rank, Sound(on, rank), NEW p \in Proc, Step(p)
  PROVE  /\ Rec \subseteq Rec'
         /\ \A i \in Rec' \ Rec : StoreWriteIdx(p) /\ idx'[i].key = req[p].key
  <1>1. idx \in Seq(IndexRecord)
    BY DEF Sound, TypeInv, FilesType
  <1>2. Rec \subseteq Rec'
    BY LayoutStep DEF SameLayout
  <1>3. CASE StoreWriteIdx(p)
    <2>1. PICK k, r : k = h[p].idxoff /\ r = NewRecord(req[p], h[p].datoff)
      OBVIOUS
    <2>2. idx' = IF h[p].offset = 0 THEN Append(idx, r) ELSE [idx EXCEPT ![k] = r]
      BY <1>3, <2>1 DEF StoreWriteIdx
    <2>3. r.key = req[p].key
      BY <2>1 DEF NewRecord
    <2>4. CASE h[p].offset = 0
      BY <1>1, <1>2, <1>3, <2>2, <2>3, <2>4 DEF Rec
    <2>5. CASE h[p].offset # 0
      BY <1>1, <1>2, <1>3, <2>2, <2>5 DEF Rec
    <2> QED BY <2>4, <2>5
  <1>4. CASE DeleteWriteIdx(p)
    <2>1. PICK k, r : k = h[p].idxoff /\ r = [idx[k] EXCEPT !.key = Blank]
      OBVIOUS
    <2>2. idx' = [idx EXCEPT ![k] = r]
      BY <1>4, <2>1 DEF DeleteWriteIdx
    <2> QED BY <1>1, <1>2, <2>2 DEF Rec
  <1>5. CASE ~DeleteWriteIdx(p) /\ ~StoreWriteIdx(p)
    BY <1>5, IdxWritten DEF Rec
  <1> QED BY <1>3, <1>4, <1>5

\* What a step leaves of the records of a key.
LEMMA HoldingStep ==
  ASSUME NEW on, NEW rank, Sound(on, rank), NEW p \in Proc, Step(p), NEW k \in Key,
         \A i \in Rec : Changes(p, i) => idx[i].key # k /\ idx'[i].key # k,
         \A i \in Rec' \ Rec : idx'[i].key # k
  PROVE  Holding(k)' = Holding(k) /\ \A i \in Holding(k) : dat'[idx'[i].datoff] = dat[idx[i].datoff]
  <1>1. Holding(k) = {i \in Rec : idx[i].key = k /\ Shown(i)}
    BY DEF Holding, Shown
  <1>2. Holding(k)' = {i \in Rec' : idx'[i].key = k /\ Shown(i)'}
    BY DEF Holding, Shown
  <1>3. Rec \subseteq Rec'
    BY RecStep
  <1>4. ASSUME NEW i \in Rec
        PROVE  /\ idx[i].key = k /\ Shown(i) <=> idx'[i].key = k /\ Shown(i)'
               /\ idx[i].key = k /\ Shown(i) => dat'[idx'[i].datoff] = dat[idx[i].datoff]
    <2>1. CASE Changes(p, i)
      BY <2>1
    <2>2. CASE ~Changes(p, i)
      BY <2>2, ShownStep
    <2> QED BY <2>1, <2>2
  <1> HIDE DEF Shown, Holding
  <1> QED BY <1>1, <1>2, <1>3, <1>4

\* The steps at which no call takes effect on the map.
LEMMA KeptStep ==
  ASSUME NEW on, NEW rank, Sound(on, rank), out = [q \in Proc |-> out[q]],
         NEW p \in Proc, OutIs(p), Step(p), ~DeleteBlank(p), ~StoreWriteIdx(p), ~Overwrite(p),
         NEW k \in Key
  PROVE  Kept(k)
  <1>1. \A i \in Rec : ~Changes(p, i)
    BY DEF Changes
  <1>2. Rec' \ Rec = {}
    BY RecStep
  <1> QED BY <1>1, <1>2, HoldingStep, ReplacingStep DEF Kept

\* Those at which one does leave the other keys alone.
LEMMA OtherKeys ==
  ASSUME NEW on, NEW rank, Sound(on, rank), out = [q \in Proc |-> out[q]],
         NEW p \in Proc, OutIs(p), Step(p), DeleteBlank(p) \/ StoreWriteIdx(p) \/ Overwrite(p),
         NEW k \in Key \ {req[p].key}
  PROVE  Kept(k)
  <1> USE DEF At
  <1>1. TypeInv /\ Asked(p) /\ Knows(p, on, rank) /\ req' = req /\ pc[p] \in {"dl_blank", "st_idx", "overwrite"}
    BY DEF Sound, Placed, DeleteBlank, StoreWriteIdx, Overwrite
  <1>2. \A q \in Proc \ {p} : pc'[q] = pc[q] /\ req'[q] = req[q] /\ out'[q] = out[q]
    BY <1>1, QuietMoves, OutStep
  <1>3. Replacing(k)' = Replacing(k) /\ \A q \in Replacing(k) : req'[q] = req[q]
    <2>1. \A q \in Replacing(k) \cup Replacing(k)' : q \in Proc /\ q # p
      BY <1>1 DEF Replacing
    <2>2. \A q \in Proc \ {p} : q \in Replacing(k)' <=> q \in Replacing(k)
      BY <1>2 DEF Replacing
    <2> QED BY <1>1, <2>1, <2>2
  <1>4. ASSUME NEW i \in Rec, Changes(p, i) PROVE idx[i].key # k /\ idx'[i].key # k
    <2>1. CASE DeleteBlank(p) \/ Overwrite(p)
      <3>1. pc[p] \in {"dl_blank", "overwrite"} /\ idx' = idx
        BY <2>1 DEF DeleteBlank, Overwrite
      <3>2. idx[i].key = req[p].key
        BY <1>1, <1>4, <3>1 DEF Knows, AtKey, Changes, Blanking
      <3> QED BY <3>1, <3>2
    <2>2. CASE StoreWriteIdx(p)
      <3>1. pc[p] = "st_idx" /\ h[p].offset # 0 /\ i = h[p].idxoff
        BY <1>4, <2>2 DEF Changes, StoreWriteIdx, DeleteBlank, Overwrite
      <3>2. idx[i].key = Blank
        BY <1>1, <3>1 DEF Knows, Reusing
      <3>3. PICK r : r = NewRecord(req[p], h[p].datoff)
        OBVIOUS
      <3>4. idx' = [idx EXCEPT ![i] = r] /\ r.key = req[p].key
        BY <2>2, <3>1, <3>3 DEF StoreWriteIdx, NewRecord
      <3>5. idx \in Seq(IndexRecord) /\ i \in 1 .. Len(idx)
        BY DEF Sound, TypeInv, FilesType, Rec
      <3>6. idx'[i] = r
        BY <3>4, <3>5
      <3> QED BY <3>2, <3>4, <3>6
    <2> QED BY <1>4, <2>1, <2>2 DEF Changes
  <1>5. \A i \in Rec' \ Rec : idx'[i].key # k
    BY RecStep
  <1>6. Holding(k)' = Holding(k) /\ \A i \in Holding(k) : dat'[idx'[i].datoff] = dat[idx[i].datoff]
    BY <1>4, <1>5, HoldingStep
  <1> QED BY <1>3, <1>6 DEF Kept

\* What a process that has locked the chain of a key knows of the key: nobody else replaces it, ...
LEMMA NotReplaced ==
  ASSUME NEW on, NEW rank, Sound(on, rank), NEW p \in Proc, pc[p] \in ChainLabel,
         req[p].key \in Key, p \notin Replacing(req[p].key)
  PROVE  Replacing(req[p].key) = {}
  <1>1. SUFFICES ASSUME NEW q \in Replacing(req[p].key) PROVE FALSE
    OBVIOUS
  <1>2. q \in Proc /\ pc[q] \in ChainLabel /\ req[q].op # "fetch" /\ req[q].key = req[p].key
    BY ReplacingIs
  <1> QED BY <1>1, <1>2, Alone

\* ... it is absent if the chain has no record of it, ...
LEMMA IsAbsent ==
  ASSUME DbInv, NEW on, NEW rank, Sound(on, rank), NEW p \in Proc, pc[p] \in ChainLabel, ~At(p, "st_ptr"),
         req[p].key \in Key, p \notin Replacing(req[p].key), Absent(p, on)
  PROVE  Contents[req[p].key] = None
  <1>1. Replacing(req[p].key) = {}
    BY NotReplaced
  <1>2. Holding(req[p].key) = {}
    <2>1. SUFFICES ASSUME NEW i \in Holding(req[p].key) PROVE FALSE
      OBVIOUS
    <2>2. i \in Rec /\ idx[i].key = req[p].key /\ idx[i].key # Blank
      BY DEF Holding
    <2>3. CASE \E l \in Chain : i \in on[l] /\ Hash[idx[i].key] = l
      BY <2>2, <2>3 DEF Absent, chain
    <2>4. CASE \E q \in Proc : At(q, "st_ptr") /\ i = h[q].idxoff /\ idx[i].key = req[q].key
      <3>1. PICK q \in Proc : At(q, "st_ptr") /\ req[q].key = req[p].key
        BY <2>2, <2>4
      <3>2. q # p /\ pc[q] \in ChainLabel /\ req[q].op # "fetch"
        BY <3>1, StoreLinks
      <3> QED BY <3>1, <3>2, Alone
    <2> QED BY <2>2, <2>3, <2>4, KeyedRecord
  <1> QED BY <1>1, <1>2, ContentsFollow DEF ContentsMean

\* ... and if it has one, it is there: its data are not blank.
LEMMA KeyIsThere ==
  ASSUME DbInv, NEW i \in Rec, idx[i].key \in Key, Replacing(idx[i].key) = {}, dat[idx[i].datoff] # Blank
  PROVE  /\ Contents[idx[i].key] = dat[idx[i].datoff]
         /\ Contents[idx[i].key] \in Data /\ Contents[idx[i].key] # None
  <1>1. i \in Holding(idx[i].key)
    BY DEF Holding
  <1>2. Contents[idx[i].key] = dat[idx[i].datoff]
    BY <1>1, ContentsFollow DEF ContentsMean
  <1>3. dat[idx[i].datoff] \in Data \cup {Blank}
    BY DEF DbInv, TypeInv, FilesType
  <1> QED BY <1>2, <1>3

\* The record of the key that a walk has found.
LEMMA IsPresent ==
  ASSUME DbInv, NEW on, NEW rank, Sound(on, rank), NEW p \in Proc,
         pc[p] \in ChainLabel \ {"dl_free", "dl_idx"},
         req[p].key \in Key, p \notin Replacing(req[p].key),
         NEW i \in on[chain(p)], idx[i].key = req[p].key
  PROVE  /\ i \in Rec /\ dat[idx[i].datoff] # Blank
         /\ Contents[req[p].key] = dat[idx[i].datoff]
         /\ Contents[req[p].key] \in Data /\ Contents[req[p].key] # None
  <1>1. i \in Rec
    <2>1. chain(p) \in Lock
      BY DEF chain, Lock
    <2> QED BY <2>1 DEF Sound, Placed, Structure
  <1>2. Replacing(req[p].key) = {}
    BY NotReplaced
  <1>3. dat[idx[i].datoff] # Blank
    <2>1. SUFFICES ASSUME dat[idx[i].datoff] = Blank PROVE FALSE
      OBVIOUS
    <2>2. PICK q \in Proc : pc[q] \in {"dl_free", "dl_idx"} /\ h[q].idxoff = i
      BY <1>1, <2>1 DEF Sound, Placed, Lengths
    <2>3. pc[q] \in DeleteLabel \cup StoreLabel
      BY <2>2 DEF DeleteLabel, Blanking
    <2>4. pc[q] \in ChainLabel /\ req[q].op # "fetch" /\ Knows(q, on, rank)
      BY <2>3, Writer
    <2>5. req[q].key = req[p].key
      BY <2>2, <2>4 DEF Knows, AtKey, Blanking
    <2> QED BY <2>2, <2>4, <2>5, Alone
  <1> QED BY <1>1, <1>2, <1>3, KeyIsThere

\* What db_nextrec has read: while it holds the free list, no record is deleted or replaced.
LEMMA IsScanned ==
  ASSUME DbInv, NEW on, NEW rank, Sound(on, rank), NEW p \in Proc, At(p, "nr_dat"), Scanned(p)
  PROVE  /\ req[p].key \in Key /\ Contents[req[p].key] = dat[h[p].datoff]
         /\ Contents[req[p].key] \in Data /\ Contents[req[p].key] # None
  <1> USE DEF At
  <1>1. PICK i \in Rec : idx[i].key = req[p].key /\ req[p].key \in Key /\ h[p].datoff = idx[i].datoff
    BY DEF Scanned
  <1>2. \A q \in Proc : pc[q] \notin FreeLabel
    <2>1. SUFFICES ASSUME NEW q \in Proc, pc[q] \in FreeLabel PROVE FALSE
      OBVIOUS
    <2>2. pc[p] \in ScanLabel /\ q # p
      BY <2>1 DEF ScanLabel, FreeLabel, DeleteLabel, FindFree, Blanking, Linking
    <2> QED BY <2>1, <2>2, FreeApart DEF Sound
  <1>3. dat[idx[i].datoff] # Blank
    <2>1. SUFFICES ASSUME dat[idx[i].datoff] = Blank PROVE FALSE
      OBVIOUS
    <2>2. PICK q \in Proc : pc[q] \in {"dl_free", "dl_idx"}
      BY <1>1, <2>1 DEF Sound, Placed, Lengths
    <2> QED BY <1>2, <2>2 DEF FreeLabel, DeleteLabel, Blanking
  <1>4. Replacing(req[p].key) = {}
    <2>1. SUFFICES ASSUME NEW q \in Replacing(req[p].key) PROVE FALSE
      OBVIOUS
    <2>2. /\ q \in Proc /\ pc[q] \in ReplaceLabel /\ pc[q] \in ChainLabel /\ req[q].op # "fetch"
          /\ req[q].key = req[p].key
      BY <1>1, ReplacingIs
    <2>3. pc[q] \in {"st_rehead", "st_dat", "st_idx"}
      BY <1>2, <2>2 DEF ReplaceLabel, Blanked, FreeLabel, DeleteLabel, Blanking, Linking
    <2>4. Absent(q, on)
      BY <2>2, <2>3 DEF Sound, Placed, Knows, StoreLabel
    <2>5. CASE \E l \in Chain : i \in on[l] /\ Hash[idx[i].key] = l
      BY <1>1, <2>2, <2>4, <2>5 DEF Absent, chain
    <2>6. CASE \E r \in Proc : At(r, "st_ptr") /\ i = h[r].idxoff /\ idx[i].key = req[r].key
      <3>1. PICK r \in Proc : At(r, "st_ptr") /\ req[r].key = req[q].key
        BY <1>1, <2>2, <2>6
      <3>2. r # q /\ pc[r] \in ChainLabel /\ req[r].op # "fetch"
        BY <2>3, <3>1, StoreLinks
      <3> QED BY <2>2, <3>1, <3>2, Alone
    <2>7. idx[i].key # Blank
      BY <1>1
    <2> QED BY <2>5, <2>6, <2>7, KeyedRecord
  <1> QED BY <1>1, <1>3, <1>4, KeyIsThere

-----------------------------------------------------------------------------
(* The dictionary: one step of it for every result                           *)

\* The invariant of the refinement: what the files are, and which calls have a result.
RefInv ==
  /\ DbInv
  /\ out = [p \in Proc |-> out[p]]
  /\ \A p \in Proc : OutIs(p) /\ Scanned(p)

\* A step that writes nothing that shows.
LEMMA Unwritten ==
  ASSUME RefInv, ContentsMean', NEW on, NEW rank, Sound(on, rank), NEW p \in Proc, Step(p),
         ~DeleteBlank(p), ~StoreWriteIdx(p), ~Overwrite(p)
  PROVE  Contents' = Contents
  BY KeptStep, SameContents, ContentsFollow DEF RefInv

\* A result is fixed once.
LEMMA Answers ==
  ASSUME RefInv, NEW p \in Proc, out[p] = Pending, NEW r, r # Pending, Result(p, r)
  PROVE  D!Replies(p, r) /\ out'[p] # out[p]
  BY DEF RefInv, D!Replies, Result

\* The results there are.
LEMMA NotPending ==
  /\ \A d \in Data \cup {None} : <<"fetch", d>> # Pending
  /\ <<"nextrec", None>> # Pending
  /\ \A k \in Key, d \in Data : <<"nextrec", k, d>> # Pending
  /\ \A n \in {-1, 0, 1} : <<"delete", n>> # Pending /\ <<"store", n>> # Pending
  BY PendingAssumption

\* The walk ends only when the chain has no record with the key.
LEMMA WalkEnds ==
  ASSUME NEW on, NEW rank, Sound(on, rank), NEW p \in Proc,
         \/ At(p, "head") /\ ptr[chain(p)] = 0
         \/ At(p, "walk") /\ idx[h[p].offset].key # req[p].key /\ ptr[h[p].offset] = 0
  PROVE  Absent(p, on)
  <1> USE DEF At
  <1>1. pc[p] \in ChainLabel \ Linking
    BY DEF ChainLabel, Linking
  <1> DEFINE c == chain(p)
  <1>2. CASE At(p, "head") /\ ptr[c] = 0
    <2>1. c \in on[c] \cup {c}
      OBVIOUS
    <2>2. ChainPtr[c] = 0 /\ IsList(ChainPtr, c, on[c], rank[c])
      BY <1>1, <1>2, <2>1, ChainPtrAt
    <2>3. After(on[c], rank[c], c, c) = {}
      BY <2>2 DEF IsList
    <2> QED BY <2>3 DEF After, Absent
  <1>3. CASE At(p, "walk") /\ idx[h[p].offset].key # req[p].key /\ ptr[h[p].offset] = 0
    <2>1. Walking(p, on, rank)
      BY <1>3 DEF Sound, Placed, Knows
    <2>2. PICK i : i = h[p].offset
      OBVIOUS
    <2>3. i \in on[c] /\ ptr[i] = 0 /\ idx[i].key # req[p].key
      BY <1>3, <2>1, <2>2 DEF Walking
    <2>4. /\ c \in Chain /\ ChainPtr[i] = 0 /\ IsList(ChainPtr, c, on[c], rank[c])
          /\ on[c] \in SUBSET (1 .. MaxRec) /\ rank[c] \in [1 .. MaxRec -> Nat]
      BY <1>1, <2>3, ChainPtrAt
    <2>5. i # c
      BY <2>3, <2>4
    <2>6. {k \in on[c] : rank[c][k] < rank[c][i]} = {}
      BY <2>3, <2>4, <2>5 DEF IsList, After
    <2>7. ASSUME NEW j \in on[c], idx[j].key = req[p].key PROVE FALSE
      <3>1. rank[c][j] <= rank[c][i]
        BY <2>1, <2>2, <2>7 DEF Walking
      <3>2. rank[c][j] \in Nat /\ rank[c][i] \in Nat
        BY <2>3, <2>4
      <3>3. rank[c][j] = rank[c][i]
        BY <2>6, <3>1, <3>2
      <3>4. j = i
        BY <2>3, <2>4, <3>3 DEF IsList
      <3> QED BY <2>3, <2>7, <3>4
    <2> QED BY <2>7 DEF Absent
  <1> QED BY <1>2, <1>3

\* A call that does not find its key.
LEMMA Misses ==
  ASSUME RefInv, Contents' = Contents, NEW on, NEW rank, Sound(on, rank), NEW p \in Proc,
         pc[p] \in {"head", "walk"}, Absent(p, on),
         Result(p, IF req[p].op = "fetch" THEN <<"fetch", None>> ELSE <<req[p].op, -1>>)
  PROVE  D!Next
  <1> DEFINE k == req[p].key
  <1>1. /\ pc[p] \in ChainLabel /\ out[p] = Pending /\ p \notin Replacing(k) /\ ~At(p, "st_ptr")
    BY DEF ChainLabel, RefInv, OutIs, Silent, Replacing, At
  <1>2. req[p].op \in {"fetch", "delete", "store"} /\ k \in Key /\ (req[p].op = "store" => req[p].data \in Data)
    BY <1>1 DEF Sound, Asked
  <1>3. Contents[k] = None
    BY <1>1, <1>2, IsAbsent DEF RefInv
  <1>4. k \notin D!Present
    BY <1>3 DEF D!Present
  <1>5. CASE req[p].op = "fetch"
    <2>1. D!Replies(p, <<"fetch", Contents[k]>>) /\ out'[p] # out[p]
      BY <1>1, <1>3, <1>5, Answers, NotPending
    <2> QED BY <1>2, <2>1 DEF D!Next, D!Fetch
  <1>6. CASE req[p].op = "delete"
    <2>1. D!Replies(p, <<"delete", -1>>) /\ out'[p] # out[p]
      BY <1>1, <1>6, Answers, NotPending
    <2>2. D!Delete(p, k)
      BY <1>4, <2>1 DEF D!Delete
    <2> QED BY <1>2, <2>1, <2>2 DEF D!Next
  <1>7. CASE req[p].op = "store"
    <2>1. D!Replies(p, <<"store", -1>>) /\ out'[p] # out[p]
      BY <1>1, <1>7, Answers, NotPending
    <2>2. D!Store(p, k, req[p].data)
      BY <1>4, <2>1 DEF D!Store
    <2> QED BY <1>2, <1>7, <2>1, <2>2 DEF D!Next
  <1> QED BY <1>2, <1>5, <1>6, <1>7

\* A db_store with DB_INSERT that finds it.
LEMMA Refused ==
  ASSUME RefInv, Contents' = Contents, NEW on, NEW rank, Sound(on, rank), NEW p \in Proc,
         At(p, "walk"), idx[h[p].offset].key = req[p].key, req[p].op = "store",
         Result(p, <<"store", 1>>)
  PROVE  D!Next
  <1> DEFINE k == req[p].key
             i == h[p].offset
  <1>1. /\ pc[p] \in ChainLabel \ {"dl_free", "dl_idx"} /\ out[p] = Pending /\ p \notin Replacing(k)
    BY DEF ChainLabel, RefInv, OutIs, Silent, Replacing, At
  <1>2. k \in Key /\ req[p].data \in Data
    BY <1>1 DEF Sound, Asked
  <1>3. i \in on[chain(p)]
    BY DEF Sound, Placed, Knows, Walking
  <1>4. Contents[k] # None
    BY <1>1, <1>2, <1>3, IsPresent DEF RefInv
  <1>5. D!Replies(p, <<"store", 1>>) /\ out'[p] # out[p]
    BY <1>1, Answers, NotPending
  <1>6. D!Store(p, k, req[p].data)
    BY <1>2, <1>4, <1>5 DEF D!Store, D!Present
  <1> QED BY <1>2, <1>5, <1>6 DEF D!Next

\* A db_fetch that finds it.
LEMMA Fetches ==
  ASSUME RefInv, Contents' = Contents, NEW on, NEW rank, Sound(on, rank), NEW p \in Proc, ReadDat(p)
  PROVE  D!Next
  <1> DEFINE k == req[p].key
             i == h[p].idxoff
  <1>1. /\ pc[p] \in ChainLabel \ {"dl_free", "dl_idx"} /\ out[p] = Pending /\ p \notin Replacing(k)
        /\ Result(p, <<"fetch", dat[h[p].datoff]>>) /\ pc[p] = "readdat"
    BY DEF ReadDat, ChainLabel, RefInv, OutIs, Silent, Replacing, At
  <1>2. k \in Key
    BY <1>1 DEF Sound, Asked
  <1>3. i \in on[chain(p)] /\ idx[i].key = k /\ h[p].datoff = idx[i].datoff
    BY <1>1 DEF Sound, Placed, Knows, AtKey
  <1>4. Contents[k] = dat[h[p].datoff] /\ Contents[k] \in Data
    BY <1>1, <1>2, <1>3, IsPresent DEF RefInv
  <1>5. D!Replies(p, <<"fetch", Contents[k]>>) /\ out'[p] # out[p]
    BY <1>1, <1>4, Answers, NotPending
  <1> QED BY <1>2, <1>5 DEF D!Next, D!Fetch

\* A db_nextrec that returns an entry, or has met the end.
LEMMA Scans ==
  ASSUME RefInv, Contents' = Contents, NEW on, NEW rank, Sound(on, rank), NEW p \in Proc,
         NextrecReadDat(p) \/ (At(p, "nr_idx") /\ Result(p, <<"nextrec", None>>))
  PROVE  D!Next
  <1>1. out[p] = Pending
    BY DEF RefInv, OutIs, Silent, At, NextrecReadDat
  <1>2. CASE NextrecReadDat(p)
    <2>1. At(p, "nr_dat") /\ Result(p, <<"nextrec", req[p].key, dat[h[p].datoff]>>)
      BY <1>2 DEF NextrecReadDat
    <2>2. /\ req[p].key \in Key /\ Contents[req[p].key] = dat[h[p].datoff]
          /\ Contents[req[p].key] \in Data /\ Contents[req[p].key] # None
      BY <2>1, IsScanned DEF RefInv
    <2>3. D!Replies(p, <<"nextrec", req[p].key, Contents[req[p].key]>>) /\ out'[p] # out[p]
      BY <1>1, <2>1, <2>2, Answers, NotPending
    <2>4. D!Nextrec(p)
      BY <2>2, <2>3 DEF D!Nextrec, D!Present
    <2> QED BY <2>3, <2>4 DEF D!Next
  <1>3. CASE At(p, "nr_idx") /\ Result(p, <<"nextrec", None>>)
    <2>1. D!Replies(p, <<"nextrec", None>>) /\ out'[p] # out[p]
      BY <1>1, <1>3, Answers, NotPending
    <2>2. D!Nextrec(p)
      BY <2>1 DEF D!Nextrec
    <2> QED BY <2>1, <2>2 DEF D!Next
  <1> QED BY <1>2, <1>3

\* The result is handed over.
LEMMA Returns ==
  ASSUME RefInv, Contents' = Contents, NEW p \in Proc, Unlock(p) \/ NextrecUnlock(p)
  PROVE  D!Next \/ UNCHANGED <<Contents, out>>
  <1>1. out' = [out EXCEPT ![p] = Pending]
    BY DEF Unlock, NextrecUnlock, Result
  <1>2. CASE out[p] = Pending
    <2>1. out' = out
      BY <1>1, <1>2 DEF RefInv
    <2> QED BY <2>1
  <1>3. CASE out[p] # Pending
    <2>1. D!Return(p) /\ out'[p] # out[p]
      BY <1>1, <1>3 DEF RefInv, D!Return
    <2> QED BY <2>1 DEF D!Next
  <1> QED BY <1>2, <1>3

\* The steps that change the data of a key.
Writing(p) == DeleteBlank(p) \/ StoreWriteIdx(p) \/ Overwrite(p)

\* Its process has the key to itself, and keeps its request.
LEMMA WriterIs ==
  ASSUME RefInv, NEW on, NEW rank, Sound(on, rank), NEW p \in Proc, Step(p), Writing(p)
  PROVE  /\ pc[p] \in {"dl_blank", "st_idx", "overwrite"} /\ pc[p] \in ChainLabel \ {"dl_free", "dl_idx"}
         /\ req[p].key \in Key /\ req' = req /\ req[p].op \in {"delete", "store"}
         /\ req[p].op = "store" => req[p].data \in Data
         /\ Knows(p, on, rank) /\ OutIs(p)
         /\ \A q \in Replacing(req[p].key) \cup Replacing(req[p].key)' : q = p
  <1>1. /\ pc[p] \in {"dl_blank", "st_idx", "overwrite"} /\ req' = req
    BY DEF Writing, DeleteBlank, StoreWriteIdx, Overwrite, At
  <1>2. pc[p] \in DeleteLabel \cup StoreLabel
    BY <1>1 DEF DeleteLabel, StoreLabel, Blanking
  <1>3. /\ pc[p] \in ChainLabel \ {"dl_free", "dl_idx"} /\ req[p].key \in Key /\ req[p].op \in {"delete", "store"}
        /\ Knows(p, on, rank)
    BY <1>1, <1>2, Writer DEF Sound, Asked
  <1>4. req[p].op = "store" => req[p].data \in Data
    BY <1>3 DEF Sound, Asked
  <1>5. TypeInv /\ Asked(p) /\ OutIs(p) /\ out = [q \in Proc |-> out[q]]
    BY DEF Sound, RefInv
  <1>6. ASSUME NEW q \in Replacing(req[p].key) PROVE q = p
    <2>1. q \in Proc /\ pc[q] \in ChainLabel /\ req[q].op # "fetch" /\ req[q].key = req[p].key
      BY <1>3, ReplacingIs
    <2> QED BY <1>3, <2>1, Alone
  <1>7. ASSUME NEW q \in Replacing(req[p].key)', q # p PROVE FALSE
    <2>1. q \in Proc
      BY DEF Replacing
    <2>2. pc'[q] = pc[q] /\ req'[q] = req[q] /\ out'[q] = out[q]
      BY <1>5, <1>7, <2>1, QuietMoves, OutStep
    <2>3. q \in Replacing(req[p].key)
      BY <1>1, <2>1, <2>2 DEF Replacing
    <2> QED BY <1>6, <1>7, <2>3
  <1> QED BY <1>1, <1>3, <1>4, <1>5, <1>6, <1>7

\* It changes that key alone.
LEMMA WritesOne ==
  ASSUME RefInv, ContentsMean', NEW on, NEW rank, Sound(on, rank), NEW p \in Proc, Step(p), Writing(p)
  PROVE  Contents' = [Contents EXCEPT ![req[p].key] = Contents'[req[p].key]]
  <1>1. req[p].key \in Key
    BY WriterIs
  <1>2. \A j \in Key \ {req[p].key} : Kept(j)
    BY OtherKeys DEF RefInv, Writing
  <1> QED BY <1>1, <1>2, OneWritten, ContentsFollow DEF RefInv

\* The data are new, and not of a replacement under way.
LEMMA WrittenIs ==
  ASSUME ContentsMean', NEW k \in Key, Replacing(k)' = {}, NEW i \in Rec', idx'[i].key = k,
         dat'[idx'[i].datoff] \in Data
  PROVE  Contents'[k] = dat'[idx'[i].datoff]
  <1>1. i \in Holding(k)'
    BY DEF Holding
  <1> QED BY <1>1 DEF ContentsMean

\* _db_dodelete: an entry is gone, or replaced although the new data are not written yet.
LEMMA Deletes ==
  ASSUME RefInv, ContentsMean', NEW on, NEW rank, Sound(on, rank), NEW p \in Proc, Step(p), DeleteBlank(p)
  PROVE  D!Next
  <1> DEFINE k == req[p].key
             i == h[p].idxoff
  <1> USE DEF At, Goto
  <1>1. Writing(p) /\ pc[p] = "dl_blank"
    BY DEF Writing, DeleteBlank
  <1>2. /\ pc[p] \in ChainLabel \ {"dl_free", "dl_idx"} /\ k \in Key /\ req' = req
        /\ req[p].op \in {"delete", "store"} /\ Knows(p, on, rank) /\ OutIs(p)
        /\ (req[p].op = "store" => req[p].data \in Data)
        /\ \A q \in Replacing(k) \cup Replacing(k)' : q = p
    BY <1>1, WriterIs
  <1>3. Contents' = [Contents EXCEPT ![k] = Contents'[k]]
    BY <1>1, WritesOne
  <1>4. i \in on[chain(p)] /\ idx[i].key = k /\ h[p].datoff = idx[i].datoff
    BY <1>1, <1>2 DEF Knows, AtKey, Blanking
  <1>5. out[p] = Pending /\ p \notin Replacing(k)
    BY <1>1, <1>2 DEF OutIs, Silent, Replacing
  <1>6. i \in Rec /\ Contents[k] # None
    BY <1>2, <1>4, <1>5, IsPresent DEF RefInv
  <1>7. D!Replies(p, <<req[p].op, 0>>) /\ out'[p] # out[p]
    <2>1. Result(p, <<req[p].op, 0>>)
      BY DEF DeleteBlank
    <2>2. <<req[p].op, 0>> # Pending
      BY <1>2, NotPending
    <2> QED BY <1>5, <2>1, <2>2, Answers
  <1>8. CASE req[p].op = "delete"
    <2>1. Replacing(k)' = {}
      BY <1>2, <1>8 DEF Replacing
    <2>2. Holding(k)' = {}
      <3>1. SUFFICES ASSUME NEW j \in Holding(k)' PROVE FALSE
        OBVIOUS
      <3>2. idx' = idx
        BY DEF DeleteBlank
      <3>3. j \in Rec /\ idx[j].key = k /\ dat'[idx[j].datoff] # Blank
        BY <1>2, <3>1, <3>2 DEF Holding, Rec
      <3>4. j = i
        BY <1>2, <1>4, <1>6, <3>3, KeysFollow DEF RefInv, KeysOnTheirChain
      <3>5. PICK d : d = h[p].datoff
        OBVIOUS
      <3>6. dat' = [dat EXCEPT ![d] = Blank] /\ d \in 1 .. Len(dat) /\ dat \in Seq(Data \cup {Blank})
        BY <1>4, <1>6, <3>5 DEF DeleteBlank, Sound, TypeInv, FilesType
      <3>7. dat'[d] = Blank
        BY <3>6
      <3> QED BY <1>4, <3>3, <3>4, <3>5, <3>7
    <2>3. Contents'[k] = None
      BY <1>2, <2>1, <2>2 DEF ContentsMean
    <2>4. D!Delete(p, k)
      BY <1>2, <1>3, <1>6, <1>7, <1>8, <2>3 DEF D!Delete, D!Sets, D!Present
    <2> QED BY <1>2, <1>7, <2>4 DEF D!Next
  <1>9. CASE req[p].op = "store"
    <2>1. p \in Replacing(k)'
      <3>1. out'[p] = <<"store", 0>> /\ pc'[p] = "dl_free"
        BY <1>9, QuietMoves DEF DeleteBlank, Result, RefInv
      <3>2. out'[p] # Pending /\ out'[p][2] = 0
        BY <3>1, NotPending
      <3>3. req'[p].op = "store"
        BY <1>2, <1>9
      <3> QED BY <3>1, <3>2, <3>3 DEF Replacing
    <2>2. Contents'[k] = req[p].data
      BY <1>2, <2>1 DEF ContentsMean
    <2>3. D!Store(p, k, req[p].data)
      BY <1>3, <1>7, <1>9, <2>2 DEF D!Store, D!Sets
    <2> QED BY <1>2, <1>7, <1>9, <2>3 DEF D!Next
  <1> QED BY <1>2, <1>8, <1>9

\* db_store over data of the same length.
LEMMA Overwrites ==
  ASSUME RefInv, ContentsMean', NEW on, NEW rank, Sound(on, rank), NEW p \in Proc, Step(p), Overwrite(p)
  PROVE  D!Next
  <1> DEFINE k == req[p].key
             i == h[p].idxoff
  <1> USE DEF At, Goto
  <1>1. Writing(p) /\ pc[p] = "overwrite" /\ pc'[p] = "unlock"
    BY QuietMoves DEF Writing, Overwrite
  <1>2. /\ pc[p] \in ChainLabel \ {"dl_free", "dl_idx"} /\ k \in Key /\ req' = req
        /\ Knows(p, on, rank) /\ OutIs(p)
        /\ \A q \in Replacing(k) \cup Replacing(k)' : q = p
    BY <1>1, WriterIs
  <1>3. Contents' = [Contents EXCEPT ![k] = Contents'[k]]
    BY <1>1, WritesOne
  <1>4. i \in on[chain(p)] /\ idx[i].key = k /\ h[p].datoff = idx[i].datoff
    BY <1>1, <1>2 DEF Knows, AtKey
  <1>5. out[p] = Pending /\ p \notin Replacing(k)
    BY <1>1, <1>2 DEF OutIs, Silent, Replacing
  <1>6. i \in Rec
    BY <1>2, <1>4, <1>5, IsPresent DEF RefInv
  <1>7. D!Replies(p, <<"store", 0>>) /\ out'[p] # out[p]
    BY <1>5, NotPending, Answers DEF Overwrite
  <1>8. req[p].data \in Data
    BY <1>1 DEF Sound, Asked, StoreLabel, ChainLabel
  <1>9. Replacing(k)' = {}
    BY <1>1, <1>2 DEF Replacing
  <1>10. Contents'[k] = req[p].data
    <2>1. idx' = idx
      BY DEF Overwrite
    <2>2. PICK d, e : d = h[p].datoff /\ e = req[p].data
      OBVIOUS
    <2>3. dat' = [dat EXCEPT ![d] = e] /\ d \in 1 .. Len(dat) /\ dat \in Seq(Data \cup {Blank})
      BY <1>4, <1>6, <2>2 DEF Overwrite, Sound, TypeInv, FilesType
    <2>4. dat'[d] = e
      BY <2>3
    <2>5. i \in Rec' /\ idx'[i].key = k /\ dat'[idx'[i].datoff] = e
      BY <1>4, <1>6, <2>1, <2>2, <2>4 DEF Rec
    <2> QED BY <1>2, <1>8, <1>9, <2>2, <2>5, WrittenIs
  <1>11. D!Store(p, k, req[p].data)
    BY <1>3, <1>7, <1>10 DEF D!Store, D!Sets
  <1> QED BY <1>2, <1>7, <1>8, <1>11 DEF D!Next

\* db_store of a new record: an insertion is done, a replacement was done before.
LEMMA Inserts ==
  ASSUME RefInv, ContentsMean', NEW on, NEW rank, Sound(on, rank), NEW p \in Proc, Step(p), StoreWriteIdx(p)
  PROVE  D!Next \/ UNCHANGED <<Contents, out>>
  <1> DEFINE k == req[p].key
  <1> USE DEF At, Goto
  <1>1. Writing(p) /\ pc[p] = "st_idx" /\ pc'[p] = "st_ptr"
    BY QuietMoves DEF Writing, StoreWriteIdx
  <1>2. /\ k \in Key /\ req' = req /\ Knows(p, on, rank) /\ OutIs(p)
        /\ \A q \in Replacing(k) \cup Replacing(k)' : q = p
    BY <1>1, WriterIs
  <1>3. Contents' = [Contents EXCEPT ![k] = Contents'[k]]
    BY <1>1, WritesOne
  <1>4. req[p].data \in Data /\ req[p].op = "store"
    BY <1>1 DEF Sound, Asked, StoreLabel, ChainLabel
  <1>5. Replacing(k)' = {}
    BY <1>1, <1>2 DEF Replacing
  <1>6. Contents'[k] = req[p].data
    <2>1. PICK i, r : i = h[p].idxoff /\ r = NewRecord(req[p], h[p].datoff)
      OBVIOUS
    <2>2. idx' = (IF h[p].offset = 0 THEN Append(idx, r) ELSE [idx EXCEPT ![i] = r]) /\ dat' = dat
      BY <2>1 DEF StoreWriteIdx
    <2>3. r.key = k /\ r.datoff = h[p].datoff
      BY <2>1 DEF NewRecord
    <2>4. dat[h[p].datoff] = req[p].data
      BY <1>1, <1>2 DEF Knows
    <2>5. idx \in Seq(IndexRecord) /\ (h[p].offset # 0 => i \in 1 .. Len(idx))
      BY <1>1, <1>2, <2>1 DEF Sound, TypeInv, FilesType, Knows, Reusing, Rec
    <2>6. \E j \in Rec' : idx'[j] = r
      <3>1. CASE h[p].offset = 0
        <4>1. Len(idx) + 1 \in 1 .. Len(idx') /\ idx'[Len(idx) + 1] = r
          BY <2>2, <2>5, <3>1
        <4> QED BY <4>1 DEF Rec
      <3>2. CASE h[p].offset # 0
        <4>1. i \in 1 .. Len(idx') /\ idx'[i] = r
          BY <2>2, <2>5, <3>2
        <4> QED BY <4>1 DEF Rec
      <3> QED BY <3>1, <3>2
    <2>7. PICK j \in Rec' : idx'[j].key = k /\ dat'[idx'[j].datoff] = req[p].data
      BY <2>2, <2>3, <2>4, <2>6
    <2> QED BY <1>2, <1>4, <1>5, <2>7, WrittenIs
  <1>7. CASE out[p] = Pending
    <2>1. Result(p, <<"store", 0>>)
      BY <1>7 DEF StoreWriteIdx
    <2>2. D!Replies(p, <<"store", 0>>) /\ out'[p] # out[p]
      BY <1>7, <2>1, NotPending, Answers
    <2>3. D!Store(p, k, req[p].data)
      BY <1>3, <1>6, <2>2 DEF D!Store, D!Sets
    <2> QED BY <1>2, <1>4, <2>2, <2>3 DEF D!Next
  <1>8. CASE out[p] # Pending
    <2>1. out' = out
      BY <1>8 DEF StoreWriteIdx, Result, RefInv
    <2>2. out[p] = <<"store", 0>>
      BY <1>1, <1>2, <1>8 DEF OutIs
    <2>3. p \in Replacing(k)
      BY <1>1, <1>4, <1>8, <2>2 DEF Replacing
    <2>4. Contents[k] = req[p].data /\ Contents = [j \in Key |-> Contents[j]]
      BY <1>2, <2>3, ContentsFollow DEF ContentsMean, RefInv
    <2>5. Contents' = Contents
      BY <1>3, <1>6, <2>4
    <2> QED BY <2>1, <2>5
  <1> QED BY <1>7, <1>8

\* A step of the dictionary, or none.
Taken == D!Next \/ UNCHANGED <<Contents, out>>

\* A pointer of a chain is followed.
LEMMA WalksTaken ==
  ASSUME RefInv, Contents' = Contents, NEW on, NEW rank, Sound(on, rank), NEW p \in Proc,
         ReadHead(p) \/ Walk(p)
  PROVE  Taken
  <1> USE DEF At, Taken
  <1>1. CASE ReadHead(p)
    <2>1. pc[p] = "head" /\ Walks(p, ptr[chain(p)])
      BY <1>1 DEF ReadHead
    <2>2. CASE UNCHANGED out
      BY <2>2
    <2>3. CASE /\ ptr[chain(p)] = 0
               /\ Result(p, IF req[p].op = "fetch" THEN <<"fetch", None>> ELSE <<req[p].op, -1>>)
      <3>1. Absent(p, on)
        BY <2>1, <2>3, WalkEnds
      <3> QED BY <2>1, <2>3, <3>1, Misses
    <2> QED BY <2>1, <2>2, <2>3, WalksReplies
  <1>2. CASE Walk(p) /\ idx[h[p].offset].key = req[p].key
    <2>1. pc[p] = "walk" /\ Found(p, h[p].offset)
      BY <1>2 DEF Walk
    <2>2. req[p].op \in {"fetch", "delete", "store"}
      BY <2>1 DEF Sound, Asked, ChainLabel
    <2> QED BY <1>2, <2>1, <2>2, FoundReplies, Refused
  <1>3. CASE Walk(p) /\ idx[h[p].offset].key # req[p].key
    <2>1. pc[p] = "walk" /\ Walks(p, ptr[h[p].offset])
      BY <1>3 DEF Walk
    <2>2. CASE UNCHANGED out
      BY <2>2
    <2>3. CASE /\ ptr[h[p].offset] = 0
               /\ Result(p, IF req[p].op = "fetch" THEN <<"fetch", None>> ELSE <<req[p].op, -1>>)
      <3>1. Absent(p, on)
        BY <1>3, <2>1, <2>3, WalkEnds
      <3> QED BY <2>1, <2>3, <3>1, Misses
    <2> QED BY <2>1, <2>2, <2>3, WalksReplies
  <1> QED BY <1>1, <1>2, <1>3

\* Every step is one of the dictionary, or none.
LEMMA StepTaken ==
  ASSUME RefInv, ContentsMean', NEW p \in Proc, Step(p)
  PROVE  Taken
  <1>1. PICK on \in [Lock -> SUBSET (1 .. MaxRec)], rank \in [Lock -> [1 .. MaxRec -> Nat]] :
          Placed(on, rank)
    BY DEF RefInv, DbInv, PlacedSomehow
  <1>2. Sound(on, rank)
    BY <1>1 DEF Sound, RefInv, DbInv
  <1>3. CASE DeleteBlank(p)
    BY <1>2, <1>3, Deletes DEF Taken
  <1>4. CASE Overwrite(p)
    BY <1>2, <1>4, Overwrites DEF Taken
  <1>5. CASE StoreWriteIdx(p)
    BY <1>2, <1>5, Inserts DEF Taken
  <1>6. CASE ~DeleteBlank(p) /\ ~Overwrite(p) /\ ~StoreWriteIdx(p)
    <2>1. Contents' = Contents
      BY <1>2, <1>6, Unwritten
    <2>2. CASE UNCHANGED out
      BY <2>1, <2>2 DEF Taken
    <2>3. CASE ReadHead(p) \/ Walk(p)
      BY <1>2, <2>1, <2>3, WalksTaken
    <2>4. CASE ReadDat(p)
      BY <1>2, <2>1, <2>4, Fetches DEF Taken
    <2>5. CASE Unlock(p) \/ NextrecUnlock(p)
      BY <2>1, <2>5, Returns DEF Taken
    <2>6. CASE NextrecReadDat(p)
      BY <1>2, <2>1, <2>6, Scans DEF Taken
    <2>7. CASE NextrecReadIdx(p)
      <3>1. UNCHANGED out \/ (At(p, "nr_idx") /\ Result(p, <<"nextrec", None>>))
        BY <2>7 DEF NextrecReadIdx
      <3> QED BY <1>2, <2>1, <2>2, <3>1, Scans DEF Taken
    <2>8. CASE db_fetch(p) \/ db_delete(p) \/ db_store(p)
      <3>1. PICK r : FindAndLock(p, r)
        BY <2>8, Calls
      <3> QED BY <2>2, <3>1 DEF FindAndLock
    <2>9. CASE \/ Create(p) \/ Initialize(p) \/ Open(p) \/ db_close(p) \/ db_rewind(p) \/ Dump(p)
               \/ db_nextrec(p)
      BY <2>2, <2>9 DEF Create, Initialize, Open, db_close, db_rewind, Dump, db_nextrec
    <2>10. CASE \/ DeleteLock(p) \/ DeleteReadFree(p) \/ DeleteWriteIdx(p)
                \/ DeleteWriteFree(p) \/ DeleteUnlink(p) \/ DeleteUnlock(p)
      BY <2>2, <2>10 DEF DeleteLock, DeleteReadFree, DeleteWriteIdx, DeleteWriteFree, DeleteUnlink,
           DeleteUnlock
    <2>11. CASE FreeLock(p) \/ FreeHead(p) \/ FreeWalk(p) \/ FreeUnlink(p) \/ FreeUnlock(p)
      BY <2>2, <2>11 DEF FreeLock, FreeHead, FreeWalk, FreeUnlink, FreeUnlock
    <2>12. CASE StoreReadHead(p) \/ StoreWriteDat(p) \/ StoreWritePtr(p)
      BY <2>2, <2>12 DEF StoreReadHead, StoreWriteDat, StoreWritePtr
    <2> QED BY <1>6, <2>3, <2>4, <2>5, <2>6, <2>7, <2>8, <2>9, <2>10, <2>11, <2>12 DEF Step
  <1> QED BY <1>3, <1>4, <1>5, <1>6

\* No record, no entry, ...
LEMMA RefInvInit == Init => RefInv /\ D!Init
  <1> SUFFICES ASSUME Init PROVE RefInv /\ D!Init
    OBVIOUS
  <1>1. DbInv
    BY DbInvInit
  <1>2. /\ out = [p \in Proc |-> Pending] /\ pc = [p \in Proc |-> "closed"] /\ idx = <<>>
    BY DEF Init
  <1>3. RefInv
    BY <1>1, <1>2 DEF RefInv, OutIs, Scanned, At, Blanked
  <1>4. Contents = [k \in Key |-> None]
    <2>1. \A k \in Key : Replacing(k) = {} /\ Holding(k) = {}
      BY <1>2 DEF Replacing, Holding, Rec
    <2>2. \A k \in Key : Contents[k] = None
      BY <1>1, <2>1, ContentsFollow DEF ContentsMean
    <2>3. Contents = [k \in Key |-> Contents[k]]
      BY <1>1, ContentsFollow DEF ContentsMean
    <2> QED BY <2>2, <2>3
  <1> QED BY <1>2, <1>3, <1>4 DEF D!Init

\* ... and every step keeps the files what they are and the results to their labels.
LEMMA RefInvStep ==
  ASSUME RefInv, [Next]_vars
  PROVE  RefInv'
  <1>1. ASSUME NEW p \in Proc, Step(p) PROVE RefInv'
    <2>1. PICK on \in [Lock -> SUBSET (1 .. MaxRec)], rank \in [Lock -> [1 .. MaxRec -> Nat]] :
            Placed(on, rank)
      BY DEF RefInv, DbInv, PlacedSomehow
    <2>2. Sound(on, rank)
      BY <2>1 DEF Sound, RefInv, DbInv
    <2>3. DbInv'
      BY <1>1, DbInvStep DEF RefInv
    <2>4. OutIs(p)' /\ out' = [out EXCEPT ![p] = out'[p]]
      BY <1>1, <2>2, OutStep DEF RefInv, Sound
    <2>5. \A q \in Proc : Scanned(q)'
      BY <1>1, <2>2, ScannedStep DEF RefInv
    <2>6. ASSUME NEW q \in Proc \ {p} PROVE OutIs(q)'
      <3>1. pc'[q] = pc[q] /\ req'[q] = req[q] /\ out'[q] = out[q]
        BY <1>1, <2>2, <2>4, QuietMoves DEF RefInv
      <3> QED BY <3>1 DEF RefInv, OutIs, At
    <2>7. out' = [q \in Proc |-> out'[q]]
      BY <2>4 DEF RefInv
    <2> QED BY <2>3, <2>4, <2>5, <2>6, <2>7 DEF RefInv
  <1>2. CASE UNCHANGED vars
    <2>1. DbInv'
      BY <1>2, DbInvStutter DEF RefInv
    <2> QED BY <1>2, <2>1 DEF RefInv, OutIs, Scanned, At, Rec, vars
  <1> QED BY <1>1, <1>2 DEF Next

(* The dictionary: every call of db_fetch, db_delete, db_store and db_nextrec *)
(* takes effect at one step, whatever the other processes read and write      *)
(* between its own reads and writes.                                          *)
THEOREM ImplementsDictionary == Spec => IsDictionary
  <1>1. RefInv => ContentsMean
    BY ContentsFollow DEF RefInv
  <1>2. RefInv /\ ContentsMean' /\ [Next]_vars => [D!Next]_(D!dvars)
    <2> SUFFICES ASSUME RefInv, ContentsMean', [Next]_vars PROVE Taken
      BY DEF Taken, D!dvars
    <2>1. CASE Next
      BY <2>1, StepTaken DEF Next
    <2>2. CASE UNCHANGED vars
      <3>1. UNCHANGED out /\ Contents' = Contents
        BY <2>2 DEF vars, Contents, Replacing, Holding, Rec
      <3> QED BY <3>1 DEF Taken
    <2> QED BY <2>1, <2>2
  <1>3. RefInv /\ [Next]_vars => RefInv'
    BY RefInvStep
  <1>4. Init => RefInv /\ D!Init
    BY RefInvInit
  <1> QED BY <1>1, <1>2, <1>3, <1>4, PTL DEF Spec, IsDictionary, D!DictionarySpec
=============================================================================
