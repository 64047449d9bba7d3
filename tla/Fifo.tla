-------------------------------- MODULE Fifo --------------------------------
(***************************************************************************)
(* What src/list.h promises of a queue: elements come out in the order in  *)
(* which they went in.                                                     *)
(***************************************************************************)
EXTENDS Sequences

CONSTANTS Nodes, NULL

VARIABLES
    items,   \* the elements, the oldest first
    popped   \* what the last queue_pop returned

Init == items = <<>> /\ popped = NULL

Push(n) ==
    /\ \A k \in DOMAIN items : items[k] # n
    /\ items' = Append(items, n)
    /\ UNCHANGED popped

Pop ==
    \/ items = <<>> /\ popped' = NULL /\ UNCHANGED items
    \/ items # <<>> /\ popped' = Head(items) /\ items' = Tail(items)

Next == Pop \/ \E n \in Nodes : Push(n)

Spec == Init /\ [][Next]_<<items, popped>>
=============================================================================
