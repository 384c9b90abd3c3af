-------------------------------- MODULE Fifo --------------------------------
(***************************************************************************)
(* What midwares/queue/queue.h promises its callers: a first-in first-out  *)
(* queue of SQL texts that can be emptied and, at the end, disposed of.    *)
(* The linked list of SqlQueue is shown to implement it.                   *)
(***************************************************************************)
EXTENDS Sequences, Naturals

CONSTANTS Values, \* the texts that are queued
          Nothing \* what front and front_and_dequeue return on an empty queue

VARIABLES items, \* the queued texts, oldest first
          ret    \* the last value handed out

fifoVars == <<items, ret>>

FifoInit == items = <<>> /\ ret = Nothing

Put(v) == items' = Append(items, v) /\ UNCHANGED ret

Peek == /\ ret' = IF items = <<>> THEN Nothing ELSE Head(items)
        /\ UNCHANGED items

\* Remove the oldest text; a caller of dequeue does not see it.
Drop == items # <<>> /\ items' = Tail(items) /\ UNCHANGED ret

Take == \/ items # <<>> /\ ret' = Head(items) /\ items' = Tail(items)
        \/ items = <<>> /\ ret' = Nothing /\ UNCHANGED items

FifoNext == (\E v \in Values : Put(v)) \/ Peek \/ Drop \/ Take

FifoSpec == FifoInit /\ [][FifoNext]_fifoVars
=============================================================================
