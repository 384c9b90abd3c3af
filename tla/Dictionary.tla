----------------------------- MODULE Dictionary -----------------------------
(***************************************************************************)
(* What the processes that share a database of db.c may rely on: a partial *)
(* map from keys to data.  Each call takes effect at one instant, at which *)
(* its result is fixed; Return hands the result to the caller.             *)
(***************************************************************************)
EXTENDS Integers

CONSTANTS Proc, Key, Data,
          None,   \* no data: what db_fetch's NULL and an absent key stand for
          Pending \* no result yet

VARIABLES dict, \* [Key -> Data \cup {None}]
          reply \* per process: the result of its call, once it is fixed

dvars == <<dict, reply>>

Present == {k \in Key : dict[k] # None}
Replies(p, r) == reply[p] = Pending /\ reply' = [reply EXCEPT ![p] = r]
Sets(k, d) == dict' = [dict EXCEPT ![k] = d]

Init == /\ dict = [k \in Key |-> None]
        /\ reply = [p \in Proc |-> Pending]

Fetch(p, k) == Replies(p, <<"fetch", dict[k]>>) /\ UNCHANGED dict

Delete(p, k) ==
  \/ Replies(p, <<"delete", 0>>) /\ k \in Present /\ Sets(k, None)
  \/ Replies(p, <<"delete", -1>>) /\ k \notin Present /\ UNCHANGED dict

\* DB_INSERT refuses a key that is there, DB_REPLACE one that is not.
Store(p, k, d) ==
  \/ Replies(p, <<"store", 0>>) /\ Sets(k, d)
  \/ Replies(p, <<"store", 1>>) /\ k \in Present /\ UNCHANGED dict
  \/ Replies(p, <<"store", -1>>) /\ k \notin Present /\ UNCHANGED dict

\* A scan is only promised entries: which ones, and when it ends, is left open.
Nextrec(p) ==
  /\ \/ \E k \in Present : Replies(p, <<"nextrec", k, dict[k]>>)
     \/ Replies(p, <<"nextrec", None>>)
  /\ UNCHANGED dict

Return(p) == /\ reply' = [reply EXCEPT ![p] = Pending]
             /\ UNCHANGED dict

\* Whatever happens shows in the reply of the process that calls.
Next == \E p \in Proc :
          /\ reply'[p] # reply[p]
          /\ \/ \E k \in Key : Fetch(p, k) \/ Delete(p, k) \/ \E d \in Data : Store(p, k, d)
             \/ Nextrec(p)
             \/ Return(p)

DictionarySpec == Init /\ [][Next]_dvars
=============================================================================
