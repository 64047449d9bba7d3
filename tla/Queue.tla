------------------------------- MODULE Queue --------------------------------
(***************************************************************************)
(* The intrusive queue of src/list.h, pointer by pointer.  The link is a   *)
(* field of the element, so an element is in a queue at most once and      *)
(* keeps the link it had when it is popped.  tail is the address of the    *)
(* last link: that of q->head when the queue is empty.                     *)
(***************************************************************************)
EXTENDS Naturals, Sequences

CONSTANTS
    Nodes,  \* the elements
    NULL,
    HEAD    \* the address of q->head; &n->next is the node n

ASSUME QueueAssumption == NULL \notin Nodes /\ HEAD \notin Nodes

VARIABLES
    head, tail,  \* queue_t
    next,        \* the link of each element
    popped,      \* what the last queue_pop returned
    items        \* history: the elements pushed and not popped

queueVars == <<head, tail, next, popped, items>>

\* queue_init.  The links of the elements are whatever they are.
QueueInit ==
    /\ head = NULL /\ tail = HEAD
    /\ next \in [Nodes -> Nodes \cup {NULL}]
    /\ popped = NULL /\ items = <<>>

\* The caller pushes only what is not in the queue.
queue_push(n) ==
    /\ \A k \in DOMAIN items : items[k] # n
    /\ head' = IF tail = HEAD THEN n ELSE head
    /\ next' = [m \in Nodes |-> IF m = tail THEN n ELSE IF m = n THEN NULL ELSE next[m]]
    /\ tail' = n
    /\ items' = Append(items, n)
    /\ UNCHANGED popped

\* Slip: tail is left at the last element when that is popped.
PopKeepsTail ==
    /\ popped' = head
    /\ head' = IF head = NULL THEN head ELSE next[head]
    /\ items' = IF items = <<>> THEN items ELSE Tail(items)
    /\ UNCHANGED <<next, tail>>

queue_pop ==
    /\ popped' = head
    /\ head' = IF head = NULL THEN head ELSE next[head]
    /\ tail' = IF head # NULL /\ next[head] = NULL THEN HEAD ELSE tail
    /\ items' = IF items = <<>> THEN items ELSE Tail(items)
    /\ UNCHANGED next

queue_is_empty == head = NULL

QueueNext == queue_pop \/ \E n \in Nodes : queue_push(n)

QueueSpec == QueueInit /\ [][QueueNext]_queueVars

-----------------------------------------------------------------------------
\* The pointers say what the history says: from head, through the links, exactly
\* the elements that were pushed and not popped, in that order, each once; tail at
\* the last link, which is NULL; and queue_is_empty is right.
Represents ==
    /\ \A j, k \in 1 .. Len(items) : items[j] = items[k] => j = k
    /\ head = IF items = <<>> THEN NULL ELSE items[1]
    /\ tail = IF items = <<>> THEN HEAD ELSE items[Len(items)]
    /\ \A k \in 1 .. Len(items) :
           next[items[k]] = IF k = Len(items) THEN NULL ELSE items[k + 1]
    /\ queue_is_empty <=> items = <<>>

F == INSTANCE Fifo

\* The queue is first in, first out, for any sequence of pushes and pops, emptying
\* and refilling it with elements whose links are stale included.
QueueIsFifo == F!Spec
=============================================================================
