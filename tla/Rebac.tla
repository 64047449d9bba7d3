------------------------------- MODULE Rebac --------------------------------
(***************************************************************************)
(* The access check of src/gen/rebac.c: a claim is a list of relations and *)
(* an action is granted to it when the highest relation of the list ranks  *)
(* high enough.  One call of rebac_check is followed turn by turn of the   *)
(* loop of rebac_max_relation.                                             *)
(***************************************************************************)
EXTENDS Naturals, Sequences

CONSTANTS
    Actions,     \* the values the argument `action` takes
    ClaimLengths \* the lengths of claims

\* rebac_relation_t, in the order of rank.
PUBLIC == 0
INSTANCE_MEMBER == 1
FRIEND == 2
GUILD_MEMBER == 3
OWNER == 4

Relations == PUBLIC .. OWNER

ASSUME RebacAssumption == ClaimLengths \subseteq Nat

VARIABLES
    relations,  \* the arguments of the call
    action,
    at,         \* "call", "loop" or "returned"
    index, best, \* the locals i and best of rebac_max_relation
    granted     \* the result

rebacVars == <<relations, action, at, index, best, granted>>

\* An enum holds any int; one that names no action is "fail closed".
rebac_action_min_relation(a) ==
    CASE a = "OBSERVE" -> PUBLIC
      [] a = "INTERACT" -> INSTANCE_MEMBER
      [] OTHER -> OWNER

RebacInit ==
    /\ relations \in UNION {[1 .. n -> Relations] : n \in ClaimLengths}
    /\ action \in Actions
    /\ at = "call" /\ index = 0 /\ best = PUBLIC /\ granted = FALSE

\* The call: an empty claim is denied at once; otherwise best = relations[0].
rebac_check ==
    /\ at = "call"
    /\ \/ relations = <<>> /\ at' = "returned" /\ UNCHANGED <<index, best>>
       \/ relations # <<>> /\ at' = "loop" /\ index' = 1 /\ best' = relations[1]
    /\ UNCHANGED <<relations, action, granted>>

\* Slip: the turn keeps the lower relation when the later one is lower.
LastRelation ==
    /\ at = "loop" /\ index < Len(relations)
    /\ index' = index + 1
    /\ best' = relations[index + 1]
    /\ UNCHANGED <<relations, action, at, granted>>

\* One turn of the loop; the C index i (here `index') is relations[index + 1].
rebac_max_relation ==
    /\ at = "loop" /\ index < Len(relations)
    /\ index' = index + 1
    /\ best' = IF relations[index + 1] >= best THEN relations[index + 1] ELSE best
    /\ UNCHANGED <<relations, action, at, granted>>

\* The loop ends and rebac_check compares.
rebac_return ==
    /\ at = "loop" /\ index >= Len(relations)
    /\ at' = "returned"
    /\ granted' = (best >= rebac_action_min_relation(action))
    /\ UNCHANGED <<relations, action, index, best>>

RebacNext == rebac_check \/ rebac_max_relation \/ rebac_return

RebacSpec == RebacInit /\ [][RebacNext]_rebacVars

-----------------------------------------------------------------------------
\* The check does what zone.ex asks of it, whatever the order and the repetitions
\* of the claim: a claim is granted an action exactly when one of its relations
\* is enough by itself.  Modifying, and any action the code does not know, takes
\* an owner; an empty claim is granted nothing, observing included.
GrantedByOneRelation ==
    at = "returned" =>
        /\ granted <=> \E k \in 1 .. Len(relations) :
                           relations[k] >= rebac_action_min_relation(action)
        /\ granted /\ action \notin {"OBSERVE", "INTERACT"} =>
               \E k \in 1 .. Len(relations) : relations[k] = OWNER
=============================================================================
