------------------------------ MODULE ZoneTick ------------------------------
(***************************************************************************)
(* The zone tick of src/zf_zonetick.c over the future wrappers of          *)
(* src/fdb_database.c: one range read and one commit per tick, driven by   *)
(* callbacks that FoundationDB's network thread runs.                      *)
(*                                                                         *)
(* A run is one call of zf_zonetick_run.  Runs overlap freely: ticks of    *)
(* different zones in different processes, and ticks of the same zone when *)
(* a process dies with a commit in flight and its successor starts over.   *)
(* The actions named Fdb... are FoundationDB's (external): they serve the  *)
(* request behind a future and make the future ready.  The others are the  *)
(* code's: a call, or the callback of a ready future.                      *)
(***************************************************************************)
EXTENDS ZfKv, ZoneData, FiniteSets

CONSTANTS
    Runs,        \* calls of zf_zonetick_run
    Zones,       \* zone ids in use
    Entities,    \* entity ids in use
    TickCounts,  \* values of the argument tick_count
    SeedCounts,  \* numbers of entities a seeding writes
    ReadLimit,   \* rows one range read returns at most before it says `more`
    Faults,      \* the kinds of failure that may happen
    MaxFaults,   \* how many failures may happen in all
    MaxSeeds     \* how many seedings may happen in all

FaultKinds == {"refuse",           \* calloc or fdb_create_transaction fails
               "submit_read",      \* submit_future fails in fdb_async_get_range
               "submit_commit",    \* submit_future fails in fdb_async_commit
               "submit_on_error",  \* submit_future fails in fdb_handle_error
               "badarray",         \* fdb_future_get_keyvalue_array fails
               "retryable",        \* a request fails, retryable, without effect
               "commit_unknown",   \* a commit takes effect, the answer is lost
               "fatal",            \* a request fails, not retryable
               "crash"}            \* the process dies

ASSUME TickAssumption ==
    /\ Zones \subseteq U32 /\ Zones # {}
    /\ Entities \subseteq U32
    /\ \A e \in Entities : e * SeedStride \in Int64
    /\ TickCounts \subseteq Nat
    /\ \A n \in SeedCounts : n \in Nat /\ 0 .. (n - 1) \subseteq Entities
    /\ ReadLimit \in Nat \ {0}
    /\ Faults \subseteq FaultKinds
    /\ MaxFaults \in Nat
    /\ MaxSeeds \in Nat

VARIABLES
    \* zonetick_ctx_t of each run
    ctx,        \* "idle", "live", "freed", "refused" or "crashed"
    args,       \* z_id and tick_count
    done,       \* the calls of done_cb so far, the values of ok
    \* its FDBTransaction and the one future it has outstanding
    fut,        \* [op, ready, err]
    kvs,        \* what the range read returned
    range,      \* the keys the read put under conflict detection
    stale,      \* some other commit has written one of them since
    writes,     \* what fdb_sync_set has buffered
    cancelled,  \* on_error was given an error that is not retryable
    \* FoundationDB and history
    store,      \* the entities present: [subset of Keys -> Stored]
    applied,    \* how many commits of each run took effect
    sawEmpty,   \* some read of the run found its zone empty
    faults,     \* failures so far
    seeds       \* seedings so far

vars == <<ctx, args, done, fut, kvs, range, stale, writes, cancelled,
          store, applied, sawEmpty, faults, seeds>>

-----------------------------------------------------------------------------
(* The database.                                                           *)

Keys == Zones \X Entities

\* The keys the zone's scan covers.  Constant, so that TLC computes it once.
ScanKeys == [z \in Zones |->
                {k \in Keys : InEntityRange(z, zf_kv_entity_key(k[1], k[2]))}]

KeyBefore(j, k) ==
    KeyLess(zf_kv_entity_key(j[1], j[2]), zf_kv_entity_key(k[1], k[2]))

\* The part of the scan one reply answers: all of it, or up to the last of
\* ReadLimit rows when there are more.  snapshot = 0 in fdb_async_get_range
\* puts exactly this part under conflict detection.
ReadRange(s, z) ==
    LET hits == ScanKeys[z] \cap DOMAIN s
    IN  IF Cardinality(hits) =< ReadLimit
        THEN ScanKeys[z]
        ELSE {k \in ScanKeys[z] : Cardinality({h \in hits : KeyBefore(h, k)}) < ReadLimit}

Rows(s, keys) == [k \in DOMAIN s \cap keys |-> s[k]]

NoRows == [k \in {} |-> {}]

Written(s, w) ==
    [k \in DOMAIN s \cup DOMAIN w |-> IF k \in DOMAIN w THEN w[k] ELSE s[k]]

\* Slip: a snapshot read (snapshot = 1), which conflicts with nothing.
InvalidateNothing(w) == UNCHANGED stale

\* A commit of the keys in w invalidates the reads that covered one of them.
Invalidate(w) ==
    stale' = [r \in Runs |-> stale[r] \/ range[r] \cap w # {}]

NoFuture == [op |-> "none", ready |-> FALSE, err |-> "ok"]
Submitted(op, err) == [op |-> op, ready |-> FALSE, err |-> err]
Ready(op, err) == [op |-> op, ready |-> TRUE, err |-> err]

Fault(f) ==
    /\ f \in Faults
    /\ faults < MaxFaults
    /\ faults' = faults + 1

NoFault == faults' = faults

Init ==
    /\ ctx = [r \in Runs |-> "idle"]
    /\ args = [r \in Runs |-> [z_id |-> CHOOSE z \in Zones : TRUE, tick_count |-> 0]]
    /\ done = [r \in Runs |-> <<>>]
    /\ fut = [r \in Runs |-> NoFuture]
    /\ kvs = [r \in Runs |-> NoRows]
    /\ range = [r \in Runs |-> {}]
    /\ stale = [r \in Runs |-> FALSE]
    /\ writes = [r \in Runs |-> NoRows]
    /\ cancelled = [r \in Runs |-> FALSE]
    /\ store = NoRows
    /\ applied = [r \in Runs |-> 0]
    /\ sawEmpty = [r \in Runs |-> FALSE]
    /\ faults = 0
    /\ seeds = 0

-----------------------------------------------------------------------------
(* src/zf_zonetick.c and the wrappers of src/fdb_database.c it calls.      *)

\* fdb_transaction_destroy, or the reset a retryable on_error performs.
ResetTr(r) ==
    /\ kvs' = [kvs EXCEPT ![r] = NoRows]
    /\ range' = [range EXCEPT ![r] = {}]
    /\ stale' = [stale EXCEPT ![r] = FALSE]
    /\ writes' = [writes EXCEPT ![r] = NoRows]

\* Slip: done_cb is forgotten.
FinishSilently(r, ok) ==
    /\ ResetTr(r)
    /\ UNCHANGED done
    /\ ctx' = [ctx EXCEPT ![r] = "freed"]

zt_finish(r, ok) ==
    /\ ResetTr(r)
    /\ done' = [done EXCEPT ![r] = Append(done[r], ok)]
    /\ ctx' = [ctx EXCEPT ![r] = "freed"]

submit_future(r, op, err) == fut' = [fut EXCEPT ![r] = Submitted(op, err)]

\* The future is destroyed: no callback will run.
DropFuture(r) == fut' = [fut EXCEPT ![r] = NoFuture]

zt_start_range_read(r) ==
    \/ /\ NoFault
       /\ submit_future(r, "range", "ok")
       /\ ctx' = [ctx EXCEPT ![r] = "live"]
       /\ UNCHANGED <<done, kvs, range, stale, writes>>
    \/ /\ Fault("submit_read")
       /\ DropFuture(r)
       /\ zt_finish(r, FALSE)

\* Both return an error when submit_future fails; no caller looks at it.
fdb_async_commit(r) ==
    \/ NoFault /\ submit_future(r, "commit", "ok")
    \/ Fault("submit_commit") /\ DropFuture(r)

fdb_handle_error(r, err) ==
    \/ NoFault /\ submit_future(r, "on_error", err)
    \/ Fault("submit_on_error") /\ DropFuture(r)

zf_zonetick_run(r, z, n) ==
    /\ ctx[r] = "idle"
    /\ args' = [args EXCEPT ![r] = [z_id |-> z, tick_count |-> n]]
    /\ \/ zt_start_range_read(r)
       \/ /\ Fault("refuse")
          /\ ctx' = [ctx EXCEPT ![r] = "refused"]
          /\ UNCHANGED <<done, fut, kvs, range, stale, writes>>
    /\ UNCHANGED <<cancelled, store, applied, sawEmpty, seeds>>

\* The network thread runs the callback of a ready future.
Callback(r, op) == ctx[r] # "crashed" /\ fut[r].op = op /\ fut[r].ready

zt_on_error_retry(r) ==
    /\ Callback(r, "on_error")
    /\ zt_start_range_read(r)          \* whatever fut[r].err says
    /\ UNCHANGED <<args, cancelled, store, applied, sawEmpty, seeds>>

\* Slip: a zone found empty is read again instead of committed.
EmptyReadsAgain(r) ==
    /\ Callback(r, "range")
    /\ \/ /\ fut[r].err # "ok"
          /\ fdb_handle_error(r, fut[r].err)
          /\ UNCHANGED <<ctx, done, kvs, range, stale, writes>>
       \/ /\ fut[r].err = "ok" /\ DOMAIN kvs[r] = {}
          /\ zt_start_range_read(r)
       \/ /\ fut[r].err = "ok" /\ DOMAIN kvs[r] # {}
          /\ writes' = [writes EXCEPT ![r] =
                [k \in DOMAIN kvs[r] |-> Ticked(kvs[r][k], args[r].tick_count)]]
          /\ fdb_async_commit(r)
          /\ UNCHANGED <<ctx, done, kvs, range, stale>>
    /\ UNCHANGED <<args, cancelled, store, applied, sawEmpty, seeds>>

zt_on_range_read(r) ==
    /\ Callback(r, "range")
    /\ \/ /\ fut[r].err # "ok"
          /\ fdb_handle_error(r, fut[r].err)
          /\ UNCHANGED <<ctx, done, kvs, range, stale, writes>>
       \/ /\ fut[r].err = "ok"
          /\ Fault("badarray")
          /\ DropFuture(r)
          /\ zt_finish(r, FALSE)
       \/ /\ fut[r].err = "ok"
          /\ writes' = [writes EXCEPT ![r] =
                [k \in DOMAIN kvs[r] |-> Ticked(kvs[r][k], args[r].tick_count)]]
          /\ fdb_async_commit(r)
          /\ UNCHANGED <<ctx, done, kvs, range, stale>>
    /\ UNCHANGED <<args, cancelled, store, applied, sawEmpty, seeds>>

\* Slips: the return after fdb_handle_error is missing; the error is not looked
\* at; a commit that succeeded is followed by another read.
CommitFallsThrough(r) ==
    /\ Callback(r, "commit")
    /\ \/ fut[r].err # "ok" /\ fdb_handle_error(r, fut[r].err)
       \/ fut[r].err = "ok" /\ NoFault /\ DropFuture(r)
    /\ zt_finish(r, TRUE)
    /\ UNCHANGED <<args, cancelled, store, applied, sawEmpty, seeds>>

CommitUnchecked(r) ==
    /\ Callback(r, "commit")
    /\ NoFault
    /\ DropFuture(r)
    /\ zt_finish(r, TRUE)
    /\ UNCHANGED <<args, cancelled, store, applied, sawEmpty, seeds>>

CommitThenReadAgain(r) ==
    /\ Callback(r, "commit")
    /\ zt_start_range_read(r)
    /\ UNCHANGED <<args, cancelled, store, applied, sawEmpty, seeds>>

zt_on_commit(r) ==
    /\ Callback(r, "commit")
    /\ \/ /\ fut[r].err # "ok"
          /\ fdb_handle_error(r, fut[r].err)
          /\ UNCHANGED <<ctx, done, kvs, range, stale, writes>>
       \/ /\ fut[r].err = "ok"
          /\ NoFault
          /\ DropFuture(r)
          /\ zt_finish(r, TRUE)
    /\ UNCHANGED <<args, cancelled, store, applied, sawEmpty, seeds>>

-----------------------------------------------------------------------------
(* FoundationDB (external).                                                *)

Answer(r, err) == fut' = [fut EXCEPT ![r] = Ready(fut[r].op, err)]

\* The read version is taken here: the rows are those of the store as it is.
FdbServeRead(r) ==
    /\ fut[r] = Submitted("range", "ok")
    /\ \/ /\ ~ cancelled[r]
          /\ NoFault
          /\ Answer(r, "ok")
          /\ LET keys == ReadRange(store, args[r].z_id)
             IN  /\ range' = [range EXCEPT ![r] = keys]
                 /\ kvs' = [kvs EXCEPT ![r] = Rows(store, keys)]
                 /\ sawEmpty' = [sawEmpty EXCEPT ![r] = @ \/ DOMAIN Rows(store, keys) = {}]
          /\ stale' = [stale EXCEPT ![r] = FALSE]
       \/ /\ ~ cancelled[r]
          /\ \E err \in {"retryable", "fatal"} : Fault(err) /\ Answer(r, err)
          /\ UNCHANGED <<kvs, range, stale, sawEmpty>>
       \/ /\ cancelled[r]
          /\ NoFault
          /\ Answer(r, "fatal")
          /\ UNCHANGED <<kvs, range, stale, sawEmpty>>
    /\ UNCHANGED <<ctx, args, done, writes, cancelled, store, applied, seeds>>

ReadOnly(r) == DOMAIN writes[r] = {}

\* Optimistic concurrency control.  A transaction without writes commits
\* unchecked; a commit already sent outlives the process that sent it.
FdbServeCommit(r) ==
    /\ fut[r] = Submitted("commit", "ok")
    /\ \/ /\ ReadOnly(r) \/ ~ stale[r]
          /\ store' = Written(store, writes[r])
          /\ Invalidate(DOMAIN writes[r])
          /\ applied' = [applied EXCEPT ![r] = @ + IF ReadOnly(r) THEN 0 ELSE 1]
          /\ \/ NoFault /\ Answer(r, "ok")
             \/ Fault("commit_unknown") /\ Answer(r, "retryable")
       \/ /\ \/ ~ ReadOnly(r) /\ stale[r] /\ NoFault /\ Answer(r, "retryable")
             \/ \E err \in {"retryable", "fatal"} : Fault(err) /\ Answer(r, err)
          /\ UNCHANGED <<store, stale, applied>>
    /\ UNCHANGED <<ctx, args, done, kvs, range, writes, cancelled, sawEmpty, seeds>>

\* A retryable error resets the transaction; any other error is handed back
\* and leaves a transaction whose every later request fails with it.
FdbServeOnError(r) ==
    /\ fut[r].op = "on_error" /\ ~ fut[r].ready
    /\ \/ /\ fut[r].err = "retryable"
          /\ ResetTr(r)
          /\ Answer(r, "ok")
          /\ UNCHANGED cancelled
       \/ /\ fut[r].err = "fatal"
          /\ cancelled' = [cancelled EXCEPT ![r] = TRUE]
          /\ Answer(r, "fatal")
          /\ UNCHANGED <<kvs, range, stale, writes>>
    /\ UNCHANGED <<ctx, args, done, store, applied, sawEmpty, faults, seeds>>

\* The process dies.  Only a commit it has sent may still be served.
Crash(r) ==
    /\ ctx[r] = "live"
    /\ Fault("crash")
    /\ ctx' = [ctx EXCEPT ![r] = "crashed"]
    /\ IF fut[r] = Submitted("commit", "ok")
       THEN UNCHANGED <<fut, kvs, range, stale, writes>>
       ELSE DropFuture(r) /\ ResetTr(r)
    /\ UNCHANGED <<args, done, cancelled, store, applied, sawEmpty, seeds>>

-----------------------------------------------------------------------------
(* tools/zonetick_throughput.c: one transaction of blind writes.           *)

\* for (e_id = 0; e_id < n; e_id++)
SeedKeys(z, n) == {k \in Keys : k[1] = z /\ k[2] < n}

seed_entities(z, n) ==
    /\ seeds < MaxSeeds
    /\ seeds' = seeds + 1
    /\ store' = Written(store, [k \in SeedKeys(z, n) |-> Seeded(k[2])])
    /\ Invalidate(SeedKeys(z, n))
    /\ UNCHANGED <<ctx, args, done, fut, kvs, range, writes, cancelled,
                   applied, sawEmpty, faults>>

-----------------------------------------------------------------------------
Network(r) ==
    \/ FdbServeRead(r) \/ FdbServeCommit(r) \/ FdbServeOnError(r)
    \/ zt_on_range_read(r) \/ zt_on_commit(r) \/ zt_on_error_retry(r)

Next ==
    \/ \E r \in Runs, z \in Zones, n \in TickCounts : zf_zonetick_run(r, z, n)
    \/ \E r \in Runs : FdbServeRead(r)
    \/ \E r \in Runs : FdbServeCommit(r)
    \/ \E r \in Runs : FdbServeOnError(r)
    \/ \E r \in Runs : zt_on_range_read(r)
    \/ \E r \in Runs : zt_on_commit(r)
    \/ \E r \in Runs : zt_on_error_retry(r)
    \/ \E r \in Runs : Crash(r)
    \/ \E z \in Zones, n \in SeedCounts : seed_entities(z, n)

Spec == Init /\ [][Next]_vars

\* A reachable cluster answers every request and the network thread runs every
\* ready callback.  Nothing makes the program start a run, seed, or die.
FairSpec == Spec /\ \A r \in Runs : WF_vars(Network(r))

-----------------------------------------------------------------------------
(* Properties.                                                             *)

\* A function from some of the keys to stored values.
IsRows(f) == DOMAIN f \subseteq Keys /\ f \in [DOMAIN f -> Stored]

Errors == {"ok", "retryable", "fatal"}

Futures == [op : {"none", "range", "commit", "on_error"}, ready : BOOLEAN, err : Errors]

\* Every variable has its type.
TypeOK ==
    /\ ctx \in [Runs -> {"idle", "live", "freed", "refused", "crashed"}]
    /\ args \in [Runs -> [z_id : Zones, tick_count : Nat]]
    /\ done \in [Runs -> Seq(BOOLEAN)]
    /\ fut \in [Runs -> Futures]
    /\ kvs = [r \in Runs |-> kvs[r]] /\ \A r \in Runs : IsRows(kvs[r])
    /\ range \in [Runs -> SUBSET Keys]
    /\ stale \in [Runs -> BOOLEAN]
    /\ writes = [r \in Runs |-> writes[r]] /\ \A r \in Runs : IsRows(writes[r])
    /\ cancelled \in [Runs -> BOOLEAN]
    /\ IsRows(store)
    /\ applied \in [Runs -> Nat]
    /\ sawEmpty \in [Runs -> BOOLEAN]
    /\ faults \in 0 .. MaxFaults
    /\ seeds \in 0 .. MaxSeeds

\* No callback can run on a context that zt_finish has freed, or that
\* zf_zonetick_run never handed over: a future is outstanding only for a run
\* whose context is alive (or whose process is gone).
CallbacksHaveContext ==
    \A r \in Runs : fut[r].op # "none" => ctx[r] \in {"live", "crashed"}

\* done_cb is called exactly once by a run that ends, whichever of the three
\* calls of zt_finish ends it, and by no run that has not ended.
DoneOnce ==
    \A r \in Runs : Len(done[r]) = IF ctx[r] = "freed" THEN 1 ELSE 0

\* ok = true is never a false report: the run's commit took effect, or the
\* zone was empty when it was read.
OkMeansApplied ==
    \A r \in Runs : TRUE \in {done[r][i] : i \in 1 .. Len(done[r])}
                        => applied[r] > 0 \/ sawEmpty[r]

\* A tick takes at most one effect however often it is retried.
AtMostOnce == \A r \in Runs : applied[r] =< 1

\* The rest that a read with `more` left out is picked up by the next tick: after
\* two ticks of a zone that was seeded once, every entity of it has moved.
RestPickedUp ==
    \A z \in Zones :
        Cardinality({r \in Runs : args[r].z_id = z /\ applied[r] > 0}) >= 2 =>
            \A k \in DOMAIN store : k[1] = z => store[k].ev # Seeded(k[2]).ev

\* The packets seed_entities' value for e_id passes through, tick by tick: after
\* 2^64 ticks the position of every axis is back where it started.
OnCourseOf(e_id, ev) ==
    \E n \in 0 .. (2 * PosHalf - 1) : ev = Move(Seeded(e_id).ev, n)

\* No sequence of seedings, overlapping ticks, retries and crashes takes an entity
\* off its course: a stored value decodes to the entity of its key, as seeded and
\* moved a whole number of ticks, the same on every axis.
OnCourse ==
    \A k \in DOMAIN store : OnCourseOf(k[2], zf_kv_decode_entity(store[k]))

\* The step moves what run r writes, from the values of this moment.
MovesCurrent(r) ==
    /\ DOMAIN store' = DOMAIN store
    /\ \A k \in DOMAIN store :
         store'[k] = IF k \in DOMAIN writes[r]
                     THEN Ticked(store[k], args[r].tick_count)
                     ELSE store[k]

\* No lost update: a commit that takes effect moves every entity it writes from
\* the value the store holds at that moment, not from the one the tick read,
\* and brings no entity into being, whatever other ticks, seedings and dead
\* processes' commits came in between.
NoLostUpdate ==
    [][\A r \in Runs : applied'[r] # applied[r] => MovesCurrent(r)]_vars

\* A tick changes no key of another zone.
ZoneIsolation ==
    [][\A r \in Runs : applied'[r] # applied[r] =>
          \A k \in DOMAIN store : k[1] # args[r].z_id => store'[k] = store[k]]_vars

\* The run has read and FoundationDB has not yet decided its commit.
HoldsRead(r) ==
    \/ fut[r].op = "range" /\ fut[r].ready /\ fut[r].err = "ok"
    \/ fut[r].op = "commit" /\ ~ fut[r].ready

\* Why no update is lost: until the commit is decided, a read that nothing has
\* invalidated is still exactly what the store holds in its range, phantoms
\* included, so no tick can commit on rows that changed after zt_on_range_read.
ReadIsCurrent ==
    \A r \in Runs : HoldsRead(r) /\ ~ stale[r] => kvs[r] = Rows(store, range[r])

\* The status of a run in the terms of ZoneStore.
Status == [r \in Runs |->
    CASE ctx[r] = "live" -> "running"
      [] ctx[r] = "freed" -> IF TRUE \in {done[r][i] : i \in 1 .. Len(done[r])}
                             THEN "ok" ELSE "failed"
      [] OTHER -> ctx[r]]

Effect == [r \in Runs |-> CASE applied[r] > 0 -> "applied"
                            [] applied[r] = 0 /\ sawEmpty[r] -> "empty"
                            [] OTHER -> "none"]

ZS == INSTANCE ZoneStore WITH status <- Status, effect <- Effect

\* The tick implements the promise of zf_zonetick.h: all of the zone's entities
\* at once and once and ok, or none and a failure.
ImplementsZoneStore == ZS!Spec

\* No callback is to come: the request of zt_on_range_read or zt_on_commit, or its
\* fdb_handle_error, could not be submitted and nobody looked at the result.
Stranded(r) == ctx[r] = "live" /\ fut[r].op = "none"

\* Every run that has started calls done_cb or dies with its process, however
\* often ticks void each other's commits, unless on_error was given an error that
\* is not retryable or a submission failed unnoticed: a tick hangs in these two
\* ways and in no other.
TickEnds ==
    \A r \in Runs :
        ctx[r] = "live" ~> \/ ctx[r] \in {"freed", "crashed"}
                           \/ cancelled[r] \/ Stranded(r)

\* What zf_zonetick.h says: every run that has started calls done_cb, unretryable
\* errors included, or its process dies.
TickFinishes ==
    \A r \in Runs : ctx[r] = "live" ~> ctx[r] \in {"freed", "crashed"}
=============================================================================
