------------------------------ MODULE ZoneStore ------------------------------
(***************************************************************************)
(* What zf_zonetick.h promises of a tick, without FoundationDB: a run      *)
(* either moves every entity of its zone, at once and once, and reports    *)
(* ok, or moves none and reports a failure.  A process that dies between   *)
(* the two may leave either outcome, and nothing in between.  ZoneTick is  *)
(* shown to implement this specification.                                  *)
(***************************************************************************)
EXTENDS ZoneData, Sequences

CONSTANTS
    Runs,        \* calls of zf_zonetick_run
    Zones,       \* zone ids
    Entities,    \* entity ids
    TickCounts,  \* values of the argument tick_count
    SeedCounts   \* numbers of entities a seeding writes

Keys == Zones \X Entities
ZoneOf(z) == {k \in Keys : k[1] = z}

VARIABLES
    store,   \* the entities present, [subset of Keys -> Stored]
    args,    \* [z_id, tick_count] of each run
    status,  \* "idle", "running", "refused", "crashed", "ok" or "failed"
    effect   \* what the run did: "none", "empty" (it saw no entity), "applied"

vars == <<store, args, status, effect>>

\* s with the entries of w put in, those of w winning.
Written(s, w) ==
    [k \in DOMAIN s \cup DOMAIN w |-> IF k \in DOMAIN w THEN w[k] ELSE s[k]]

\* s with the entities of the zone moved tick_count ticks.
TickZone(s, z, tick_count) ==
    [k \in DOMAIN s |-> IF k \in ZoneOf(z) THEN Ticked(s[k], tick_count) ELSE s[k]]

Init ==
    /\ store = [k \in {} |-> {}]
    /\ args = [r \in Runs |-> [z_id |-> CHOOSE z \in Zones : TRUE, tick_count |-> 0]]
    /\ status = [r \in Runs |-> "idle"]
    /\ effect = [r \in Runs |-> "none"]

Start(r, z, n) ==
    /\ status[r] = "idle"
    /\ args' = [args EXCEPT ![r] = [z_id |-> z, tick_count |-> n]]
    /\ status' = [status EXCEPT ![r] = "running"]
    /\ UNCHANGED <<store, effect>>

\* zf_zonetick_run returned -1, or called back with a failure before it returned.
Reject(r, z, n) ==
    /\ status[r] = "idle"
    /\ args' = [args EXCEPT ![r] = [z_id |-> z, tick_count |-> n]]
    /\ \E s \in {"refused", "failed"} : status' = [status EXCEPT ![r] = s]
    /\ UNCHANGED <<store, effect>>

\* Every entity of the zone moves in one step, from the value it has now.
Apply(r) ==
    /\ status[r] \in {"running", "crashed"}
    /\ effect[r] # "applied"
    /\ store' = TickZone(store, args[r].z_id, args[r].tick_count)
    /\ effect' = [effect EXCEPT ![r] = "applied"]
    /\ UNCHANGED <<args, status>>

FindEmpty(r) ==
    /\ status[r] = "running"
    /\ effect[r] = "none"
    /\ DOMAIN store \cap ZoneOf(args[r].z_id) = {}
    /\ effect' = [effect EXCEPT ![r] = "empty"]
    /\ UNCHANGED <<store, args, status>>

ReportOk(r) ==
    /\ status[r] = "running"
    /\ effect[r] # "none"
    /\ status' = [status EXCEPT ![r] = "ok"]
    /\ UNCHANGED <<store, args, effect>>

ReportFailure(r) ==
    /\ status[r] = "running"
    /\ effect[r] # "applied"
    /\ status' = [status EXCEPT ![r] = "failed"]
    /\ UNCHANGED <<store, args, effect>>

Crash(r) ==
    /\ status[r] = "running"
    /\ status' = [status EXCEPT ![r] = "crashed"]
    /\ UNCHANGED <<store, args, effect>>

Seed(z, n) ==
    /\ store' = Written(store, [k \in {k \in ZoneOf(z) : k[2] < n} |-> Seeded(k[2])])
    /\ UNCHANGED <<args, status, effect>>

Next ==
    \/ \E r \in Runs : \/ \E z \in Zones, n \in TickCounts : Start(r, z, n) \/ Reject(r, z, n)
                       \/ Apply(r) \/ FindEmpty(r)
                       \/ ReportOk(r) \/ ReportFailure(r) \/ Crash(r)
    \/ \E z \in Zones, n \in SeedCounts : Seed(z, n)

Spec == Init /\ [][Next]_vars
=============================================================================
