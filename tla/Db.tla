--------------------------------- MODULE Db ---------------------------------
(***************************************************************************)
(* apue.3e/db/db.c: a database in two files that processes share without a *)
(* server.  The index file holds the free list pointer, a hash table of    *)
(* chain pointers and the index records; the data file holds the data.     *)
(* Byte-range locks of fcntl protect them: byte 1 of a chain pointer for   *)
(* its chain, byte 1 of the free list pointer for the free list.           *)
(*                                                                         *)
(* A step is one read or write of a file, or one lock.  Offsets in the     *)
(* index file are the places below, offsets in the data file positions in  *)
(* dat; an append locks, seeks, writes and unlocks in one step.            *)
(***************************************************************************)
EXTENDS Integers, Sequences, FiniteSets

CONSTANTS Proc,
          Key, Data,
          Hash,   \* [Key -> Chain]: _db_hash
          Chain,  \* the chain pointers of the hash table
          FREE_OFF,
          KeyLen, DatLen, \* lengths of keys and data: what _db_findfree compares
          Blank,  \* a key or data overwritten with SPACE
          None, Pending,
          MaxRec  \* bound: index records ever appended

ASSUME DbAssumption ==
  /\ IsFiniteSet(Proc)
  /\ Hash \in [Key -> Chain]
  /\ KeyLen \in [Key -> Nat] /\ DatLen \in [Data -> Nat]
  /\ FREE_OFF \notin Chain
  /\ Blank \notin Key \cup Data /\ None \notin Key \cup Data
  /\ MaxRec \in Nat
  /\ (Chain \cup {FREE_OFF}) \cap Nat = {}

\* No call returns what stands for no result.
ASSUME PendingAssumption ==
  Pending \notin ({"fetch", "nextrec"} \X (Data \cup {None}))
                  \cup ({"delete", "store"} \X {-1, 0, 1}) \cup ({"nextrec"} \X Key \X Data)

VARIABLES file,   \* the two files: "absent", "truncated" or "ready"
          ptr,    \* every pointer in the index file: 0 or a record
          idx,    \* the index records, their pointers apart
          dat,    \* the data records
          readers, writer, \* of every lock
          pc,
          req,    \* the arguments of the call in progress
          h,      \* the DB structure and the locals of the functions on the stack
          scan,   \* the file offset when it is one for db_nextrec: the next record, or 0
          out     \* the result of the call, once fixed

vars == <<file, ptr, idx, dat, readers, writer, pc, req, h, scan, out>>
files == <<file, ptr, idx, dat>>
locks == <<readers, writer>>

Lock == Chain \cup {FREE_OFF}
Place == Lock \cup 1 .. MaxRec \* where a pointer can be
Rec == 1 .. Len(idx)
Flag == {"DB_INSERT", "DB_REPLACE", "DB_STORE"}
Request == [op : {"fetch", "delete"}, key : Key]
             \cup [op : {"store"}, key : Key, data : Data, flag : Flag]
             \cup [op : {"open", "nextrec"}]

NoReq == [op |-> "none"]
NoHandle == [offset |-> 0, ptroff |-> None, idxoff |-> 0, datoff |-> 0, datlen |-> 0,
             ptrval |-> 0, save |-> 0]

chain(p) == Hash[req[p].key]

Init == /\ file = "absent"
        /\ ptr = [l \in Place |-> 0]
        /\ idx = <<>>
        /\ dat = <<>>
        /\ readers = [l \in Lock |-> {}]
        /\ writer = [l \in Lock |-> {}]
        /\ pc = [p \in Proc |-> "closed"]
        /\ req = [p \in Proc |-> NoReq]
        /\ h = [p \in Proc |-> NoHandle]
        /\ scan = [p \in Proc |-> 0]
        /\ out = [p \in Proc |-> Pending]

At(p, label) == pc[p] = label
Goto(p, label) == pc' = [pc EXCEPT ![p] = label]
Result(p, r) == out' = [out EXCEPT ![p] = r]
Handle(p, new) == h' = [h EXCEPT ![p] = new]

\* fcntl: a write lock excludes everybody, a read lock the writers.
readw_lock(p, l) == /\ writer[l] = {}
                    /\ readers' = [readers EXCEPT ![l] = @ \cup {p}]
                    /\ UNCHANGED writer
writew_lock(p, l) == /\ writer[l] = {} /\ readers[l] = {}
                     /\ writer' = [writer EXCEPT ![l] = {p}]
                     /\ UNCHANGED readers
un_lock(p, l) == /\ readers' = [readers EXCEPT ![l] = @ \ {p}]
                 /\ writer' = [writer EXCEPT ![l] = @ \ {p}]
-----------------------------------------------------------------------------
(* db_open, db_close, db_rewind                                              *)

\* open(2) with O_CREAT | O_TRUNC, before any lock is taken.  Bound: only a
\* database that nobody has initialized is created.
Create(p) ==
  /\ At(p, "closed")
  /\ file # "ready"
  /\ file' = "truncated"
  /\ Goto(p, "creating")
  /\ UNCHANGED <<ptr, idx, dat, locks, req, h, scan, out>>

\* The whole index file is write locked; the table is written if the file is empty.
Initialize(p) ==
  /\ At(p, "creating")
  /\ \A l \in Lock : readers[l] = {} /\ writer[l] = {}
  /\ file' = "ready"
  /\ Goto(p, "idle")
  /\ scan' = [scan EXCEPT ![p] = 1]
  /\ UNCHANGED <<ptr, idx, dat, locks, req, h, out>>

\* open(2) without O_CREAT.
Open(p) ==
  /\ At(p, "closed")
  /\ file # "absent"
  /\ Goto(p, "idle")
  /\ scan' = [scan EXCEPT ![p] = 1]
  /\ UNCHANGED <<files, locks, req, h, out>>

db_close(p) ==
  /\ At(p, "idle")
  /\ Goto(p, "closed")
  /\ scan' = [scan EXCEPT ![p] = 0]
  /\ UNCHANGED <<files, locks, req, h, out>>

db_rewind(p) ==
  /\ At(p, "idle")
  /\ scan' = [scan EXCEPT ![p] = 1]
  /\ UNCHANGED <<files, locks, pc, req, h, out>>

\* err_dump: there is no hash table to read.  The exit drops the locks.
Dump(p) ==
  /\ file # "ready"
  /\ At(p, "head")
  /\ Goto(p, "dumped")
  /\ readers' = [l \in Lock |-> readers[l] \ {p}]
  /\ writer' = [l \in Lock |-> writer[l] \ {p}]
  /\ req' = [req EXCEPT ![p] = NoReq]
  /\ h' = [h EXCEPT ![p] = NoHandle]
  /\ UNCHANGED <<files, scan, out>>
-----------------------------------------------------------------------------
(* _db_find_and_lock                                                         *)

Storing == {p \in Proc : req[p].op = "store"}

\* Bound: a record may be appended by every store in progress.
Room == Len(idx) + Cardinality(Storing) < MaxRec

\* Mutant of LocksChain: the flag writelock is lost.
LocksChainRead(p, r) == readw_lock(p, Hash[r.key])

LocksChain(p, r) ==
  IF r.op = "fetch" THEN readw_lock(p, Hash[r.key]) ELSE writew_lock(p, Hash[r.key])

\* The first byte of the chain pointer is locked; the file offset moves.
FindAndLock(p, r) ==
  /\ At(p, "idle")
  /\ req' = [req EXCEPT ![p] = r]
  /\ LocksChain(p, r)
  /\ Handle(p, [NoHandle EXCEPT !.ptroff = Hash[r.key]])
  /\ scan' = [scan EXCEPT ![p] = 0]
  /\ Goto(p, "head")
  /\ UNCHANGED <<files, out>>

db_fetch(p) == \E k \in Key : FindAndLock(p, [op |-> "fetch", key |-> k])
db_delete(p) == \E k \in Key : FindAndLock(p, [op |-> "delete", key |-> k])
db_store(p) == /\ Room
               /\ \E k \in Key, d \in Data, f \in Flag :
                    FindAndLock(p, [op |-> "store", key |-> k, data |-> d, flag |-> f])

\* The chain is at its end without the key: an error, or a record to insert.
NotFound(p) ==
  IF req[p].op = "store" /\ req[p].flag # "DB_REPLACE"
  THEN Goto(p, "st_head") /\ UNCHANGED out
  ELSE /\ Goto(p, "unlock")
       /\ Result(p, IF req[p].op = "fetch" THEN <<"fetch", None>> ELSE <<req[p].op, -1>>)

\* The key is at record i.
Found(p, i) ==
  LET r == req[p] IN
  CASE r.op = "fetch" -> Goto(p, "readdat") /\ UNCHANGED out
    [] r.op = "delete" -> Goto(p, "dl_lock") /\ UNCHANGED out
    [] r.op = "store" /\ r.flag = "DB_INSERT" -> Goto(p, "unlock") /\ Result(p, <<"store", 1>>)
    [] r.op = "store" /\ r.flag # "DB_INSERT" ->
         /\ UNCHANGED out
         /\ Goto(p, IF DatLen[r.data] # idx[i].datlen THEN "dl_lock" ELSE "overwrite")

\* On to the record at offset, if there is one.
Walks(p, offset) == IF offset = 0 THEN NotFound(p) ELSE Goto(p, "walk") /\ UNCHANGED out

ReadHead(p) ==
  /\ At(p, "head")
  /\ file = "ready"
  /\ Handle(p, [h[p] EXCEPT !.offset = ptr[chain(p)]])
  /\ Walks(p, ptr[chain(p)])
  /\ UNCHANGED <<files, locks, req, scan>>

\* _db_readidx: what it leaves in the DB structure.
Reads(hp, i) == [hp EXCEPT !.idxoff = i, !.datoff = idx[i].datoff, !.datlen = idx[i].datlen,
                           !.ptrval = ptr[i]]

Walk(p) ==
  LET i == h[p].offset IN
  /\ At(p, "walk")
  /\ \/ /\ idx[i].key = req[p].key
        /\ Handle(p, Reads(h[p], i))
        /\ Found(p, i)
     \/ /\ idx[i].key # req[p].key
        /\ Handle(p, [Reads(h[p], i) EXCEPT !.ptroff = i, !.offset = ptr[i]])
        /\ Walks(p, ptr[i])
  /\ UNCHANGED <<files, locks, req, scan>>

\* _db_readdat, for db_fetch.
ReadDat(p) ==
  /\ At(p, "readdat")
  /\ Result(p, <<"fetch", dat[h[p].datoff]>>)
  /\ Goto(p, "unlock")
  /\ UNCHANGED <<files, locks, req, h, scan>>

\* The caller unlocks the chain and returns.
Unlock(p) ==
  /\ At(p, "unlock")
  /\ un_lock(p, chain(p))
  /\ Goto(p, "idle")
  /\ req' = [req EXCEPT ![p] = NoReq]
  /\ Handle(p, NoHandle)
  /\ Result(p, Pending)
  /\ UNCHANGED <<files, scan>>
-----------------------------------------------------------------------------
(* _db_dodelete, for db_delete and for a db_store of another length          *)

\* The free list is locked.
DeleteLock(p) ==
  /\ At(p, "dl_lock")
  /\ writew_lock(p, FREE_OFF)
  /\ Goto(p, "dl_blank")
  /\ UNCHANGED <<files, req, h, scan, out>>

\* The data are overwritten with blanks.
DeleteBlank(p) ==
  /\ At(p, "dl_blank")
  /\ dat' = [dat EXCEPT ![h[p].datoff] = Blank]
  /\ Result(p, <<req[p].op, 0>>)
  /\ Goto(p, "dl_free")
  /\ UNCHANGED <<file, ptr, idx, locks, req, h, scan>>

\* Mutant of Saves: the chain pointer is not kept, _db_writeidx overwrites it.
SavesFree(hp) == [hp EXCEPT !.offset = ptr[FREE_OFF], !.save = ptr[FREE_OFF]]

\* freeptr is read and the record's own chain pointer saved: saveptr.
Saves(hp) == [hp EXCEPT !.offset = ptr[FREE_OFF], !.save = hp.ptrval]

DeleteReadFree(p) ==
  /\ At(p, "dl_free")
  /\ Handle(p, Saves(h[p]))
  /\ Goto(p, "dl_idx")
  /\ UNCHANGED <<files, locks, req, scan, out>>

\* The index record is overwritten with a blank key and freeptr ...
DeleteWriteIdx(p) ==
  LET i == h[p].idxoff IN
  /\ At(p, "dl_idx")
  /\ idx' = [idx EXCEPT ![i].key = Blank]
  /\ ptr' = [ptr EXCEPT ![i] = h[p].offset]
  /\ Handle(p, [h[p] EXCEPT !.ptrval = h[p].offset])
  /\ Goto(p, "dl_ptr")
  /\ UNCHANGED <<file, dat, locks, req, scan, out>>

\* ... becomes the head of the free list ...
DeleteWriteFree(p) ==
  /\ At(p, "dl_ptr")
  /\ ptr' = [ptr EXCEPT ![FREE_OFF] = h[p].idxoff]
  /\ Goto(p, "dl_unlink")
  /\ UNCHANGED <<file, idx, dat, locks, req, h, scan, out>>

\* ... and leaves its chain.
DeleteUnlink(p) ==
  /\ At(p, "dl_unlink")
  /\ ptr' = [ptr EXCEPT ![h[p].ptroff] = h[p].save]
  /\ Goto(p, "dl_unlock")
  /\ UNCHANGED <<file, idx, dat, locks, req, h, scan, out>>

DeleteUnlock(p) ==
  /\ At(p, "dl_unlock")
  /\ un_lock(p, FREE_OFF)
  /\ Goto(p, IF req[p].op = "store" THEN "st_rehead" ELSE "unlock")
  /\ UNCHANGED <<files, req, h, scan, out>>
-----------------------------------------------------------------------------
(* _db_findfree                                                              *)

FreeLock(p) ==
  /\ At(p, "ff_lock")
  /\ writew_lock(p, FREE_OFF)
  /\ Goto(p, "ff_head")
  /\ UNCHANGED <<files, req, h, scan, out>>

\* On to the record at offset of the free list, if there is one.
WalksFree(p, saveoffset, offset) ==
  /\ Goto(p, IF offset = 0 THEN "ff_unlock" ELSE "ff_walk")
  /\ Handle(p, [h[p] EXCEPT !.ptroff = saveoffset, !.offset = offset])

FreeHead(p) ==
  /\ At(p, "ff_head")
  /\ WalksFree(p, FREE_OFF, ptr[FREE_OFF])
  /\ UNCHANGED <<files, locks, req, scan, out>>

\* Mutant of Fits: a free record of any size will do.
FitsAny(r, i) == TRUE

Fits(r, i) == idx[i].keylen = KeyLen[r.key] /\ idx[i].datlen = DatLen[r.data]

FreeWalk(p) ==
  LET i == h[p].offset IN
  /\ At(p, "ff_walk")
  /\ \/ /\ Fits(req[p], i)
        /\ Handle(p, Reads(h[p], i))
        /\ Goto(p, "ff_unlink")
     \/ /\ ~Fits(req[p], i)
        /\ WalksFree(p, i, ptr[i])
  /\ UNCHANGED <<files, locks, req, scan, out>>

\* The pointer to the record: h.ptroff stands for saveoffset here.
SaveOffset(p) == h[p].ptroff

FreeUnlink(p) ==
  /\ At(p, "ff_unlink")
  /\ ptr' = [ptr EXCEPT ![SaveOffset(p)] = h[p].ptrval]
  /\ Goto(p, "ff_unlock")
  /\ UNCHANGED <<file, idx, dat, locks, req, h, scan, out>>

FreeUnlock(p) ==
  /\ At(p, "ff_unlock")
  /\ un_lock(p, FREE_OFF)
  /\ Goto(p, "st_dat")
  /\ UNCHANGED <<files, req, h, scan, out>>
-----------------------------------------------------------------------------
(* db_store, once the key is known to be absent or gone                      *)

\* The chain pointer is read again, "it may change with the deletion".
HeadAgain(p) == ptr[chain(p)]

\* ptrval: the present head of the chain, which will follow the new record.
StoreReadHead(p) ==
  /\ \/ /\ At(p, "st_head")
        /\ Handle(p, [h[p] EXCEPT !.save = ptr[chain(p)]])
        /\ Goto(p, "ff_lock")
     \/ /\ At(p, "st_rehead")
        /\ Handle(p, [h[p] EXCEPT !.save = HeadAgain(p), !.offset = 0])
        /\ Goto(p, "st_dat")
  /\ UNCHANGED <<files, locks, req, scan, out>>

\* _db_writedat: appended, or over the data of the free record found.
StoreWriteDat(p) ==
  /\ At(p, "st_dat")
  /\ \/ /\ h[p].offset = 0
        /\ dat' = Append(dat, req[p].data)
        /\ Handle(p, [h[p] EXCEPT !.datoff = Len(dat) + 1])
     \/ /\ h[p].offset # 0
        /\ dat' = [dat EXCEPT ![h[p].datoff] = req[p].data]
        /\ UNCHANGED h
  /\ Goto(p, "st_idx")
  /\ UNCHANGED <<file, ptr, idx, locks, req, scan, out>>

\* Mutant of NewRecord: the data offset is taken after the write.
NewRecordAfter(r, datoff) ==
  [key |-> r.key, keylen |-> KeyLen[r.key], datoff |-> datoff + 1, datlen |-> DatLen[r.data]]

NewRecord(r, datoff) ==
  [key |-> r.key, keylen |-> KeyLen[r.key], datoff |-> datoff, datlen |-> DatLen[r.data]]

\* _db_writeidx: appended, or over the free record.
StoreWriteIdx(p) ==
  LET i == IF h[p].offset = 0 THEN Len(idx) + 1 ELSE h[p].idxoff
      r == NewRecord(req[p], h[p].datoff)
  IN /\ At(p, "st_idx")
     /\ idx' = IF h[p].offset = 0 THEN Append(idx, r) ELSE [idx EXCEPT ![i] = r]
     /\ ptr' = [ptr EXCEPT ![i] = h[p].save]
     /\ Handle(p, [h[p] EXCEPT !.idxoff = i])
     /\ Result(p, IF out[p] = Pending THEN <<"store", 0>> ELSE out[p])
     /\ Goto(p, "st_ptr")
     /\ UNCHANGED <<file, dat, locks, req, scan>>

\* The record becomes the first of its chain.
StoreWritePtr(p) ==
  /\ At(p, "st_ptr")
  /\ ptr' = [ptr EXCEPT ![chain(p)] = h[p].idxoff]
  /\ Goto(p, "unlock")
  /\ UNCHANGED <<file, idx, dat, locks, req, h, scan, out>>

\* Same length: only the data are replaced.
Overwrite(p) ==
  /\ At(p, "overwrite")
  /\ dat' = [dat EXCEPT ![h[p].datoff] = req[p].data]
  /\ Result(p, <<"store", 0>>)
  /\ Goto(p, "unlock")
  /\ UNCHANGED <<file, ptr, idx, locks, req, h, scan>>
-----------------------------------------------------------------------------
(* db_nextrec, with a file offset left by db_rewind or by db_nextrec         *)

\* Mutant of NextrecLocks: the free list is not locked.
NextrecLocksNot(p) == UNCHANGED locks

NextrecLocks(p) == readw_lock(p, FREE_OFF)

db_nextrec(p) ==
  /\ At(p, "idle")
  /\ scan[p] # 0
  /\ req' = [req EXCEPT ![p] = [op |-> "nextrec"]]
  /\ NextrecLocks(p)
  /\ Goto(p, "nr_idx")
  /\ UNCHANGED <<files, h, scan, out>>

\* One index record; blank ones are skipped.
NextrecReadIdx(p) ==
  LET i == scan[p] IN
  /\ At(p, "nr_idx")
  /\ \/ /\ i > Len(idx)
        /\ Result(p, <<"nextrec", None>>)
        /\ Goto(p, "nr_unlock")
        /\ UNCHANGED <<req, h, scan>>
     \/ /\ i \in Rec
        /\ scan' = [scan EXCEPT ![p] = i + 1]
        /\ IF idx[i].key = Blank
           THEN UNCHANGED <<pc, req, h>>
           ELSE /\ req' = [req EXCEPT ![p] = [op |-> "nextrec", key |-> idx[i].key]]
                /\ Handle(p, [NoHandle EXCEPT !.datoff = idx[i].datoff])
                /\ Goto(p, "nr_dat")
        /\ UNCHANGED out
  /\ UNCHANGED <<files, locks>>

NextrecReadDat(p) ==
  /\ At(p, "nr_dat")
  /\ Result(p, <<"nextrec", req[p].key, dat[h[p].datoff]>>)
  /\ Goto(p, "nr_unlock")
  /\ UNCHANGED <<files, locks, req, h, scan>>

NextrecUnlock(p) ==
  /\ At(p, "nr_unlock")
  /\ un_lock(p, FREE_OFF)
  /\ Goto(p, "idle")
  /\ req' = [req EXCEPT ![p] = NoReq]
  /\ Handle(p, NoHandle)
  /\ Result(p, Pending)
  /\ UNCHANGED <<files, scan>>
-----------------------------------------------------------------------------
Step(p) ==
  \/ Create(p) \/ Initialize(p) \/ Open(p) \/ db_close(p) \/ db_rewind(p) \/ Dump(p)
  \/ db_fetch(p) \/ db_delete(p) \/ db_store(p)
  \/ ReadHead(p) \/ Walk(p) \/ ReadDat(p) \/ Unlock(p)
  \/ DeleteLock(p) \/ DeleteBlank(p) \/ DeleteReadFree(p) \/ DeleteWriteIdx(p)
  \/ DeleteWriteFree(p) \/ DeleteUnlink(p) \/ DeleteUnlock(p)
  \/ FreeLock(p) \/ FreeHead(p) \/ FreeWalk(p) \/ FreeUnlink(p) \/ FreeUnlock(p)
  \/ StoreReadHead(p) \/ StoreWriteDat(p) \/ StoreWriteIdx(p) \/ StoreWritePtr(p)
  \/ Overwrite(p)
  \/ db_nextrec(p) \/ NextrecReadIdx(p) \/ NextrecReadDat(p) \/ NextrecUnlock(p)

Next == \E p \in Proc : Step(p)

Spec == Init /\ [][Next]_vars
-----------------------------------------------------------------------------
TypeOK ==
  /\ file \in {"absent", "truncated", "ready"}
  /\ Len(idx) <= MaxRec
  /\ ptr \in [Place -> 0 .. Len(idx)]
  /\ \A i \in Rec : /\ idx[i].key \in Key \cup {Blank}
                     /\ idx[i].datoff \in 1 .. Len(dat)
  /\ \A j \in 1 .. Len(dat) : dat[j] \in Data \cup {Blank}
  /\ readers \in [Lock -> SUBSET Proc]
  /\ writer \in [Lock -> SUBSET Proc]
  /\ scan \in [Proc -> 0 .. MaxRec + 1]
  /\ \A p \in Proc : /\ h[p].offset \in 0 .. Len(idx) /\ h[p].idxoff \in 0 .. Len(idx)
                      /\ h[p].ptroff \in Place \cup {None}
                      /\ h[p].datoff \in 0 .. Len(dat)
                      /\ h[p].ptrval \in 0 .. Len(idx) /\ h[p].save \in 0 .. Len(idx)

\* The process that is deleting record i and has overwritten its chain pointer.
Deleting(i) == {p \in Proc : pc[p] \in {"dl_ptr", "dl_unlink"} /\ h[p].idxoff = i}

Deleter(i) == CHOOSE p \in Deleting(i) : TRUE

\* The pointers chains are followed by: that of a record being deleted is in saveptr.
ChainPtr ==
  [l \in Place |-> IF l \in Rec /\ Deleting(l) # {} THEN h[Deleter(l)].save ELSE ptr[l]]

\* The places met from l on; a list that ends meets 0.
Nth(l, next) ==
  LET nth[n \in 0 .. MaxRec + 1] ==
        IF n = 0 THEN l ELSE LET m == nth[n - 1] IN IF m = 0 THEN 0 ELSE next[m]
  IN nth

Met(l, next) == {Nth(l, next)[n] : n \in 1 .. MaxRec + 1}

OnChain == UNION {{l} \X Met(l, ChainPtr) : l \in Chain}
Free == Met(FREE_OFF, ptr)

\* The record a db_store has taken off the free list or appended, and not yet linked.
InHand(p) == IF \/ pc[p] \in {"ff_unlock", "st_dat", "st_idx"} /\ h[p].offset # 0
                \/ pc[p] = "st_ptr"
             THEN {h[p].idxoff} ELSE {}

(* Between any two writes, every index record is on exactly one chain, or on  *)
(* the free list, or in the hands of exactly one db_store; only while it is   *)
(* unlinked a deleted record is on its chain and on the free list.  No list   *)
(* is a cycle.  A lost record is lost for good, a shared one is overwritten.  *)
RecordsPlaced ==
  LET on   == OnChain
      free == Free
      held == [p \in Proc |-> InHand(p)]
  IN /\ \A l \in Chain : <<l, 0>> \in on
     /\ 0 \in free
     /\ \A i \in Rec :
          Cardinality({l \in Chain : <<l, i>> \in on})
            + (IF i \in free THEN 1 ELSE 0) + Cardinality({p \in Proc : i \in held[p]})
          = 1 + Cardinality({p \in Deleting(i) : At(p, "dl_unlink")})

(* A record with a key is on the chain the key hashes to, where db_fetch      *)
(* looks for it, and no second record has the key; a record that can be       *)
(* reused holds nothing any more.                                             *)
KeysOnTheirChain ==
  LET on == OnChain IN
  /\ \A l \in Chain, i \in Rec :
       <<l, i>> \in on => IF idx[i].key = Blank THEN Deleting(i) # {} ELSE Hash[idx[i].key] = l
  /\ \A i, j \in Rec : idx[i].key = idx[j].key /\ idx[i].key # Blank => i = j
  /\ \A i \in Free \ {0} : idx[i].key = Blank /\ dat[idx[i].datoff] = Blank

(* The records of both files lie back to back: one that is overwritten keeps  *)
(* its place and its lengths, or it would run into the next.                  *)
NeighboursIntact ==
  [][\A i \in Rec :
       LET old == idx[i]
           new == idx'[i]
       IN /\ <<new.keylen, new.datoff, new.datlen>> = <<old.keylen, old.datoff, old.datlen>>
          /\ dat'[old.datoff] # Blank => DatLen[dat'[old.datoff]] = old.datlen]_<<idx, dat>>
-----------------------------------------------------------------------------
\* A db_store of another length has blanked the old data and not written the new record.
Replacing(k) == {p \in Proc : /\ req[p].op = "store" /\ req[p].key = k
                              /\ out[p] # Pending /\ out[p][2] = 0
                              /\ pc[p] \in {"dl_free", "dl_idx", "dl_ptr", "dl_unlink",
                                            "dl_unlock", "st_rehead", "st_dat", "st_idx"}}

Holding(k) == {i \in Rec : idx[i].key = k /\ dat[idx[i].datoff] # Blank}

\* What the files stand for: a replacement counts from the blanking on.
Contents ==
  [k \in Key |-> LET by == Replacing(k)
                     at == Holding(k)
                 IN IF by # {} THEN req[CHOOSE p \in by : TRUE].data
                    ELSE IF at # {} THEN dat[idx[CHOOSE i \in at : TRUE].datoff]
                    ELSE None]

D == INSTANCE Dictionary WITH dict <- Contents, reply <- out

(* The processes share one map from keys to data: every db_fetch, db_delete   *)
(* and db_store acts on it at one instant, and db_nextrec returns an entry of *)
(* it, never a record that is half deleted or half written.                   *)
IsDictionary == D!DictionarySpec
=============================================================================
