------------------------------ MODULE CondQueue ------------------------------
(***************************************************************************)
(* 09.thread_sync/cond_var.c, os/04.producer_consumer and                  *)
(* os/02.condvar/condvar.c: producers push messages on a list, consumers   *)
(* take them off and sleep on a condition while there are none.  The first *)
(* and the last wake one consumer, the second wakes all of them.           *)
(*                                                                         *)
(* A message is its producer and its number.  A step is one access to the  *)
(* list, or a call that waits or wakes.                                    *)
(***************************************************************************)
EXTENDS Naturals, FiniteSets

CONSTANTS Producer, Consumer, NULL,
          Items  \* bound: the messages of a producer, which makes them for ever


VARIABLES wakes, \* "signal" or "broadcast"
          lock,  \* who holds the mutex, or NULL
          head, next,
          ppc, num, \* the producers: where they are, and the message at hand
          cpc, mp,  \* the consumers
          consumed

vars == <<wakes, lock, head, next, ppc, num, cpc, mp, consumed>>

Msg == Producer \X (1 .. Items)

CondQueueAssumption ==
  /\ IsFiniteSet(Producer) /\ Consumer # {} /\ Items \in Nat
  /\ NULL \notin Msg \cup ({"producer"} \X Producer) \cup ({"consumer"} \X Consumer)

Init == /\ wakes \in {"signal", "broadcast"}
        /\ lock = NULL /\ head = NULL
        /\ next = [m \in Msg |-> NULL]
        /\ ppc = [p \in Producer |-> "lock"] /\ num = [p \in Producer |-> 1]
        /\ cpc = [c \in Consumer |-> "lock"] /\ mp = [c \in Consumer |-> NULL]
        /\ consumed = {}

Produces(p, from, to) == /\ ppc[p] = from /\ ppc' = [ppc EXCEPT ![p] = to]
                         /\ UNCHANGED <<wakes, mp, consumed>>
Consumes(c, from, to) == /\ cpc[c] = from /\ cpc' = [cpc EXCEPT ![c] = to]
                         /\ UNCHANGED <<wakes, next, ppc, num>>

Lock(t) == lock = NULL /\ lock' = t
Unlock == lock' = NULL
-----------------------------------------------------------------------------
(* producer                                                                  *)

ProducerLocks(p) == /\ num[p] <= Items
                    /\ Produces(p, "lock", "link")
                    /\ Lock(<<"producer", p>>)
                    /\ UNCHANGED <<head, next, num, cpc>>

Link(p) == /\ Produces(p, "link", "push")
           /\ next' = [next EXCEPT ![<<p, num[p]>>] = head]
           /\ UNCHANGED <<lock, head, num, cpc>>

Push(p) == /\ Produces(p, "push", "wake")
           /\ head' = <<p, num[p]>>
           /\ Unlock
           /\ UNCHANGED <<next, num, cpc>>

Asleep == {c \in Consumer : cpc[c] = "asleep"}

\* A signal while nobody sleeps is lost.
Wake(p) == /\ Produces(p, "wake", "lock")
           /\ num' = [num EXCEPT ![p] = @ + 1]
           /\ \E S \in SUBSET Asleep :
                /\ IF wakes = "broadcast" \/ Asleep = {} THEN S = Asleep
                                                       ELSE \E c \in Asleep : S = {c}
                /\ cpc' = [c \in Consumer |-> IF c \in S THEN "lock" ELSE cpc[c]]
           /\ UNCHANGED <<lock, head, next>>
-----------------------------------------------------------------------------
(* consumer                                                                  *)

ConsumerLocks(c) == /\ Consumes(c, "lock", "look")
                    /\ Lock(<<"consumer", c>>)
                    /\ UNCHANGED <<head, mp, consumed>>

\* pthread_cond_wait gives the mutex back and sleeps in one step.
Sleep(c) == /\ head = NULL
            /\ Consumes(c, "look", "asleep")
            /\ Unlock
            /\ UNCHANGED <<head, mp, consumed>>

\* POSIX lets it return though nobody has woken it.
WakesUp(c) == /\ Consumes(c, "asleep", "lock")
              /\ UNCHANGED <<lock, head, mp, consumed>>

Look(c) == /\ head # NULL
           /\ Consumes(c, "look", "take")
           /\ mp' = [mp EXCEPT ![c] = head]
           /\ UNCHANGED <<lock, head, consumed>>

Take(c) == /\ Consumes(c, "take", "free")
           /\ head' = next[mp[c]]
           /\ Unlock
           /\ UNCHANGED <<mp, consumed>>

Free(c) == /\ Consumes(c, "free", "lock")
           /\ consumed' = consumed \cup {mp[c]}
           /\ mp' = [mp EXCEPT ![c] = NULL]
           /\ UNCHANGED <<lock, head>>
-----------------------------------------------------------------------------
Next == \/ \E p \in Producer : ProducerLocks(p) \/ Link(p) \/ Push(p) \/ Wake(p)
        \/ \E c \in Consumer : \/ ConsumerLocks(c) \/ Sleep(c) \/ WakesUp(c)
                               \/ Look(c) \/ Take(c) \/ Free(c)

Spec == Init /\ [][Next]_vars
-----------------------------------------------------------------------------
Pushed == {m \in Msg : \/ num[m[1]] > m[2]
                       \/ num[m[1]] = m[2] /\ ppc[m[1]] = "wake"}
Taken == consumed \cup {mp[c] : c \in {d \in Consumer : cpc[d] = "free"}}

\* What is reached from head in at most n steps.
Reached[n \in Nat] == IF n = 0 THEN {head}
                      ELSE {head} \cup {next[m] : m \in Reached[n - 1] \ {NULL}}

(* Every message that has been pushed is on the list or with one consumer,    *)
(* never with two; and nobody sleeps over a message unless somebody else is    *)
(* awake to take it, or about to wake one up.                                 *)
MessagesKept ==
  /\ Reached[Cardinality(Msg)] = (Pushed \ Taken) \cup {NULL}
  /\ \A c, d \in Consumer : c # d /\ mp[c] # NULL => mp[c] # mp[d] /\ mp[c] \notin consumed
  /\ head # NULL => Asleep # Consumer \/ \E p \in Producer : ppc[p] = "wake"
=============================================================================
