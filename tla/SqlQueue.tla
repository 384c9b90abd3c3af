------------------------------ MODULE SqlQueue ------------------------------
(***************************************************************************)
(* midwares/queue/queue.c: the queue between the enqueue threads and the   *)
(* dispatch thread of the IDS server, a singly linked list with a dummy    *)
(* first node.  The heap is explicit: malloc picks a free node, free gives *)
(* it back, and a freed node keeps its stale contents, so that a dangling  *)
(* pointer would be seen.                                                  *)
(***************************************************************************)
EXTENDS Naturals, Sequences, FiniteSets

CONSTANTS Node,   \* the memory malloc can hand out, one QNode each
          Values, \* the texts that are queued
          NULL

SqlQueueAssumption == IsFiniteSet(Node) /\ NULL \notin Node /\ NULL \notin Values

VARIABLES heap,  \* contents of every node: Element and Next
          alloc, \* the nodes malloc has handed out and free has not taken back
          Front, \* Q->Front
          Rear,  \* Q->Rear
          busy,  \* the looping operation in progress, or "no"
          up,    \* FALSE once "Out of space" has made the process exit(1)
          ret    \* the last value front or front_and_dequeue returned

vars == <<heap, alloc, Front, Rear, busy, up, ret>>

Cell == [Element : Values \cup {NULL}, Next : Node \cup {NULL}]

TypeOK == /\ heap \in [Node -> Cell]
          /\ alloc \subseteq Node
          /\ Front \in Node \cup {NULL}
          /\ Rear \in Node \cup {NULL}
          /\ busy \in {"no", "make_empty", "dispose_queue"}
          /\ up \in BOOLEAN
          /\ ret \in Values \cup {NULL}

\* create_queue: the dummy node, its Next cleared.
Init == /\ heap \in [Node -> {[Element |-> NULL, Next |-> NULL]}]
        /\ \E n \in Node : alloc = {n} /\ Front = n /\ Rear = n
        /\ busy = "no"
        /\ up = TRUE
        /\ ret = NULL

is_empty == Front = Rear

Idle == up /\ busy = "no" /\ Front # NULL

\* Mutant of Link: the new text is linked behind the dummy, in front of the queue.
LinkFirst(p, X) ==
  [heap EXCEPT ![p] = [Element |-> X, Next |-> heap[Front].Next], ![Front].Next = p]

\* Q->Rear->Next = p, after p's own fields are set.
Link(p, X) == [heap EXCEPT ![p] = [Element |-> X, Next |-> NULL], ![Rear].Next = p]

enqueue(X) ==
  /\ Idle
  /\ \E p \in Node \ alloc :
       /\ alloc' = alloc \cup {p}
       /\ heap' = Link(p, X)
       /\ Rear' = p
  /\ UNCHANGED <<Front, busy, up, ret>>

\* malloc fails in enqueue: the process exits.
OutOfSpace == /\ Idle
              /\ alloc = Node
              /\ up' = FALSE
              /\ UNCHANGED <<heap, alloc, Front, Rear, busy, ret>>

\* Mutant of FirstElement: the node instead of its Element.
FirstNode == heap[Front].Next

\* Q->Front->Next->Element
FirstElement == heap[heap[Front].Next].Element

front == /\ Idle
         /\ ret' = IF is_empty THEN NULL ELSE FirstElement
         /\ UNCHANGED <<heap, alloc, Front, Rear, busy, up>>

\* if (Q->Rear == p) Q->Rear = Q->Front; and free(p).
RearWithout(p) == IF Rear = p THEN Front ELSE Rear
GivenBack(p) == alloc \ {p}

\* The body dequeue and front_and_dequeue share: unlink and free the first node.
Unlink == LET p == heap[Front].Next IN
            /\ heap' = [heap EXCEPT ![Front].Next = heap[p].Next]
            /\ Rear' = RearWithout(p)
            /\ alloc' = GivenBack(p)

dequeue == /\ Idle
           /\ ~is_empty
           /\ Unlink
           /\ UNCHANGED <<Front, busy, up, ret>>

front_and_dequeue ==
  /\ Idle
  /\ \/ ~is_empty /\ ret' = FirstElement /\ Unlink
     \/ is_empty /\ ret' = NULL /\ UNCHANGED <<heap, Rear, alloc>>
  /\ UNCHANGED <<Front, busy, up>>

\* make_empty loops over dequeue until the list is empty.
make_empty ==
  /\ up
  /\ \/ busy = "no" /\ Front # NULL /\ busy' = "make_empty" /\ UNCHANGED <<heap, Rear, alloc>>
     \/ busy = "make_empty" /\ ~is_empty /\ Unlink /\ UNCHANGED busy
     \/ busy = "make_empty" /\ is_empty /\ busy' = "no" /\ UNCHANGED <<heap, Rear, alloc>>
  /\ UNCHANGED <<Front, up, ret>>

\* dispose_queue frees every node, the dummy included, from the front.
dispose_queue ==
  /\ up
  /\ \/ /\ busy = "no" /\ Front # NULL /\ busy' = "dispose_queue"
        /\ UNCHANGED <<Rear, alloc, Front>>
     \/ /\ busy = "dispose_queue" /\ Front # NULL
        /\ Rear' = heap[Front].Next
        /\ alloc' = alloc \ {Front}
        /\ Front' = heap[Front].Next
        /\ UNCHANGED busy
     \/ /\ busy = "dispose_queue" /\ Front = NULL /\ busy' = "no"
        /\ UNCHANGED <<Rear, alloc, Front>>
  /\ UNCHANGED <<heap, up, ret>>

Next == \/ \E X \in Values : enqueue(X)
        \/ OutOfSpace
        \/ front
        \/ dequeue
        \/ front_and_dequeue
        \/ make_empty
        \/ dispose_queue

Spec == Init /\ [][Next]_vars
-----------------------------------------------------------------------------
\* The i-th node of the list, counting from Front; NULL past its end.
NodeAt[i \in Nat] == IF i = 0 THEN Front
                     ELSE IF NodeAt[i - 1] = NULL THEN NULL
                     ELSE heap[NodeAt[i - 1]].Next

Positions == {i \in 0 .. Cardinality(Node) : NodeAt[i] # NULL}
Reachable == {NodeAt[i] : i \in Positions}

\* The texts on the list, oldest first: what the list stands for.
Contents == [i \in 1 .. Cardinality(Positions) - 1 |-> heap[NodeAt[i]].Element]

(* Between operations and inside the loops of make_empty and dispose_queue,  *)
(* the allocated nodes are exactly those on the list, each once, and Rear is *)
(* the last: nothing leaks, nothing freed is still linked, and the next      *)
(* enqueue appends behind the newest text.                                   *)
ListIsHeap == /\ alloc = Reachable
              /\ Cardinality(Reachable) = Cardinality(Positions)
              /\ (busy # "dispose_queue" /\ Front # NULL)
                    => Rear = NodeAt[Cardinality(Positions) - 1]

(* An empty test (Front == Rear) tells the truth about the chain of Next     *)
(* pointers that front_and_dequeue follows.                                  *)
EmptyMeansNoNext == (up /\ Front # NULL /\ busy # "dispose_queue")
                       => (is_empty <=> heap[Front].Next = NULL)

Abstract == INSTANCE Fifo WITH items <- Contents, ret <- ret, Nothing <- NULL

(* The list is a first-in first-out queue of its texts; make_empty and the   *)
(* loop of dispose_queue only drop texts from its front.                     *)
IsFifo == Abstract!FifoSpec
=============================================================================
