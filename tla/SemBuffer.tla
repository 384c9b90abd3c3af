------------------------------ MODULE SemBuffer ------------------------------
(***************************************************************************)
(* 09.thread_sync/semaphone_and_mutex.c, test.c, semaphone_test.c and      *)
(* semaphone_mac.c: producers and consumers share a ring buffer.  One      *)
(* semaphore counts its empty places, one the full ones.  In the first     *)
(* program several threads of each kind take a mutex for the indices; in   *)
(* the others there is one of each, and none.                              *)
(*                                                                         *)
(* An item is its producer and its number.  A step is one access to what   *)
(* the threads share.                                                      *)
(***************************************************************************)
EXTENDS Integers, Sequences

CONSTANTS Producer, Consumer, \* numbers; the programs without a mutex have the threads 1
          BUFFER_SIZE,
          Items    \* bound: 5 or 20, how many items each thread handles

SemBufferAssumption ==
  /\ Producer = Consumer /\ Producer \subseteq Nat /\ 1 \in Producer
  /\ BUFFER_SIZE \in Nat \ {0} /\ Items \in Nat

VARIABLES locks,  \* the program with the mutex
          empty, full, mutex, \* the mutex: who holds it, or Free
          buffer, in, out, count,
          ppc, made, \* the producers: where they are, and the item at hand
          cpc, used, item,
          put, got   \* what has been put in and taken out so far, in order

vars == <<locks, empty, full, mutex, buffer, in, out, count, ppc, made, cpc, used, item, put, got>>

Free == <<"free", 0>>
Active == {t \in Producer : locks \/ t = 1}
Place == 0 .. BUFFER_SIZE - 1

Init == /\ locks \in BOOLEAN
        /\ empty = BUFFER_SIZE /\ full = 0
        /\ mutex = Free
        /\ buffer \in [Place -> {<<0, 0>>}]
        /\ in = 0 /\ out = 0 /\ count = 0
        /\ ppc = [p \in Producer |-> "wait"] /\ made = [p \in Producer |-> 1]
        /\ cpc = [c \in Consumer |-> "wait"] /\ used = [c \in Consumer |-> 0]
        /\ item = [c \in Consumer |-> <<0, 0>>]
        /\ put = <<>> /\ got = <<>>

Produces(p, from, to) == /\ p \in Active /\ ppc[p] = from
                         /\ ppc' = [ppc EXCEPT ![p] = to]
Consumes(c, from, to) == /\ c \in Active /\ cpc[c] = from
                         /\ cpc' = [cpc EXCEPT ![c] = to]

\* Mutant of Lock: it is not waited for.
LockNot(t) == mutex' = t

\* The other programs go on without.
Lock(t) == IF locks THEN mutex = Free /\ mutex' = t ELSE UNCHANGED mutex
Unlock == mutex' = Free

-----------------------------------------------------------------------------
(* producer                                                                  *)

WaitEmpty(p) ==
  /\ made[p] <= Items
  /\ Produces(p, "wait", "lock")
  /\ empty > 0 /\ empty' = empty - 1
  /\ UNCHANGED <<locks, full, mutex, buffer, in, out, count, made, cpc, used, item, put, got>>

ProducerLock(p) ==
  /\ Produces(p, "lock", "insert")
  /\ Lock(<<"producer", p>>)
  /\ UNCHANGED <<locks, empty, full, buffer, in, out, count, made, cpc, used, item, put, got>>

Insert(p) ==
  /\ Produces(p, "insert", "advance")
  /\ buffer' = [buffer EXCEPT ![in] = <<p, made[p]>>]
  /\ put' = Append(put, <<p, made[p]>>)
  /\ UNCHANGED <<locks, empty, full, mutex, in, out, count, made, cpc, used, item, got>>

\* in, count and the end of the critical section; only test.c's producer looks at in.
ProducerAdvances(p) ==
  /\ Produces(p, "advance", "post")
  /\ in' = (in + 1) % BUFFER_SIZE
  /\ count' = IF locks THEN count + 1 ELSE count
  /\ Unlock
  /\ UNCHANGED <<locks, empty, full, buffer, out, made, cpc, used, item, put, got>>

PostFull(p) ==
  /\ Produces(p, "post", "wait")
  /\ full' = full + 1
  /\ made' = [made EXCEPT ![p] = @ + 1]
  /\ UNCHANGED <<locks, empty, mutex, buffer, in, out, count, cpc, used, item, put, got>>
-----------------------------------------------------------------------------
(* consumer                                                                  *)

WaitFull(c) ==
  /\ used[c] < Items
  /\ Consumes(c, "wait", "lock")
  /\ full > 0 /\ full' = full - 1
  /\ UNCHANGED <<locks, empty, mutex, buffer, in, out, count, ppc, made, used, item, put, got>>

ConsumerLock(c) ==
  /\ Consumes(c, "lock", "remove")
  /\ Lock(<<"consumer", c>>)
  /\ UNCHANGED <<locks, empty, full, buffer, in, out, count, ppc, made, used, item, put, got>>

Remove(c) ==
  /\ Consumes(c, "remove", "advance")
  /\ item' = [item EXCEPT ![c] = buffer[out]]
  /\ UNCHANGED <<locks, empty, full, mutex, buffer, in, out, count, ppc, made, used, put, got>>

ConsumerAdvances(c) ==
  /\ Consumes(c, "advance", "post")
  /\ out' = (out + 1) % BUFFER_SIZE
  /\ count' = IF locks THEN count - 1 ELSE count
  /\ got' = Append(got, item[c])
  /\ Unlock
  /\ UNCHANGED <<locks, empty, full, buffer, in, ppc, made, used, item, put>>

PostEmpty(c) ==
  /\ Consumes(c, "post", "wait")
  /\ empty' = empty + 1
  /\ used' = [used EXCEPT ![c] = @ + 1]
  /\ UNCHANGED <<locks, full, mutex, buffer, in, out, count, ppc, made, item, put, got>>
-----------------------------------------------------------------------------
Next == \E t \in Producer :
          \/ WaitEmpty(t) \/ ProducerLock(t) \/ Insert(t) \/ ProducerAdvances(t) \/ PostFull(t)
          \/ WaitFull(t) \/ ConsumerLock(t) \/ Remove(t) \/ ConsumerAdvances(t) \/ PostEmpty(t)

Spec == Init /\ [][Next]_vars

Joined == \A t \in Active : made[t] > Items /\ used[t] = Items
-----------------------------------------------------------------------------
(* What is taken out is what was put in, in that order, each item once; no    *)
(* place is written before it has been read, and count says how many are in.  *)
FirstInFirstOut ==
  /\ got = SubSeq(put, 1, Len(got))
  /\ Len(put) - Len(got) <= BUFFER_SIZE
  /\ locks /\ mutex = Free => count = Len(put) - Len(got)
  /\ Joined => got = put
=============================================================================
