----------------------------- MODULE MCLibrary ------------------------------
(***************************************************************************)
(* The parts of the library that share no state with anything: the key     *)
(* layout, the access check, the queue and the rotation fitting.  Each     *)
(* behaviour exercises one of them and leaves the others as they are.      *)
(***************************************************************************)
EXTENDS EntityKeys, Rebac, Queue, Align

VARIABLE part

\* Idle states: an empty claim was denied, an empty queue, a fit of the identity.
RebacIdle ==
    /\ relations = <<>> /\ action = "OBSERVE"
    /\ at = "returned" /\ index = 0 /\ best = PUBLIC /\ granted = FALSE

QueueIdle == QueueInit /\ next = [n \in Nodes |-> NULL]

AlignIdle ==
    /\ call = "kabsch" /\ pairs = <<<<>>, <<>>>> /\ h = Identity
    /\ stage = "done" /\ turn = 0 /\ mat = Identity /\ vec = Identity /\ out = Identity

LibraryInit ==
    \/ part = "keys" /\ KeysInit /\ RebacIdle /\ QueueIdle /\ AlignIdle
    \/ part = "rebac" /\ KeysInit /\ RebacInit /\ QueueIdle /\ AlignIdle
    \/ part = "queue" /\ KeysInit /\ RebacIdle /\ QueueInit /\ AlignIdle
    \/ part = "align" /\ KeysInit /\ RebacIdle /\ QueueIdle /\ AlignInit

LibraryNext ==
    /\ UNCHANGED part
    /\ \/ part = "keys" /\ KeysNext /\ UNCHANGED <<rebacVars, queueVars, alignVars>>
       \/ part = "rebac" /\ RebacNext /\ UNCHANGED <<keysVars, queueVars, alignVars>>
       \/ part = "queue" /\ QueueNext /\ UNCHANGED <<keysVars, rebacVars, alignVars>>
       \/ part = "align" /\ AlignNext /\ UNCHANGED <<keysVars, rebacVars, queueVars>>

LibrarySpec ==
    LibraryInit /\ [][LibraryNext]_<<part, keysVars, rebacVars, queueVars, alignVars>>

-----------------------------------------------------------------------------
(* Calls of sinew_align and sinew_kabsch.                                  *)

V(x, y, z) == <<x * Unit, y * Unit, z * Unit>>
M(a, b, c) == <<a, b, c>>

SourceVectors == {V(1, 0, 0), V(0, 0, 1), V(0, 1, 1), V(-1, 2, 0)}

Sources ==
    {<<>>, <<V(0, 0, 0)>>}
        \cup {<<a>> : a \in SourceVectors} \cup {<<a, b>> : a, b \in SourceVectors}
        \cup {<<a, b, c>> : a, b, c \in SourceVectors}

\* Sources, and targets that are the sources turned.
MCTurnedPairs ==
    {<<[k \in 1 .. Len(s) |-> Apply(m, s[k])], s>> : m \in AxisRotations, s \in Sources}

\* And others: three that the regularised covariance is singular for, and targets
\* that are no turned sources: mirrored, and the longest that row sums can hide.
MCAlignCalls ==
    MCTurnedPairs \cup
        {<<<<<<Unit, 0, 0>>, <<Unit \div 2, 0, 0>>, <<0, -Unit \div 4, 0>>>>,
           <<<<Unit, 0, 0>>, <<Unit \div 2, 0, 0>>, <<0, Unit \div 4, 0>>>>>>,
         <<<<V(-1, 0, 0), V(-1, 0, 0), V(0, -1, 0)>>, <<V(1, 0, 0), V(1, 0, 0), V(0, 1, 0)>>>>,
         <<<<V(1, 1, 1), V(1, 1, 1)>>, <<V(1, 0, 0), V(1, 0, 0)>>>>,
         <<<<V(1, 1, 1), V(1, -1, 1)>>, <<V(0, 1, 0), V(0, 1, 0)>>>>}

\* Turned and mirrored, with all, equal and missing singular values, and not
\* symmetric about the axes.
MCKabschCalls ==
    {sinew_mul9(m, p) : m \in AxisRotations, p \in
        {M(V(1, 0, 0), V(0, 2, 0), V(0, 0, 3)), M(V(1, 0, 0), V(0, -3, 0), V(0, 0, 2)),
         M(V(2, 0, 0), V(0, 0, 0), V(0, 0, 3)), M(V(0, 0, 0), V(0, -2, 0), V(0, 0, 2)),
         M(V(2, 1, 0), V(1, 2, 0), V(0, 0, 1)), M(V(2, 1, 0), V(1, 3, 1), V(0, 1, -2))}}
=============================================================================
