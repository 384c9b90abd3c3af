----------------------------- MODULE SqlHandoff -----------------------------
(***************************************************************************)
(* What the threads of the IDS server promise each other about the queue   *)
(* between them: a bounded queue of records, taken in the order they were  *)
(* put, one at a time, each exactly once.  IdsServer implements it.        *)
(***************************************************************************)
EXTENDS Naturals, Sequences

CONSTANTS Records,  \* what is handed over
          Idle,     \* no record: the consumer has none in hand
          Capacity

VARIABLES queue, inHand

handoffVars == <<queue, inHand>>

HandoffInit == queue = <<>> /\ inHand = Idle

Put == /\ Len(queue) < Capacity
       /\ queue' # <<>>
       /\ LET r == queue'[Len(queue')] IN r \in Records /\ queue' = Append(queue, r)
       /\ UNCHANGED inHand

Take == /\ inHand = Idle
        /\ queue # <<>>
        /\ inHand' = Head(queue)
        /\ queue' = Tail(queue)

Finish == inHand' = Idle /\ UNCHANGED queue

HandoffNext == Put \/ Take \/ Finish

HandoffSpec == HandoffInit /\ [][HandoffNext]_handoffVars
=============================================================================
