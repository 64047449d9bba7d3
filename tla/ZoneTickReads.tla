--------------------------- MODULE ZoneTickReads ----------------------------
(***************************************************************************)
(* Every operator of the tick returns what its callers expect, and every   *)
(* step keeps TypeOK; then the inductive invariant of ZoneTick, and the    *)
(* part of it about one run at a time: its context, what it has read and   *)
(* what it will write.                                                     *)
(***************************************************************************)
EXTENDS ZoneTick, DataProofs

-----------------------------------------------------------------------------
(* Values.                                                                 *)

\* What a tick writes over a stored value is a stored value, of the same entity.
LEMMA TickedType ==
  ASSUME NEW v \in Stored, NEW n \in Nat
  PROVE  /\ Ticked(v, n) \in Stored
         /\ zf_kv_decode_entity(Ticked(v, n)).global_id = zf_kv_decode_entity(v).global_id
<1>1. zf_kv_decode_entity(v) = v.ev /\ v.ev \in EntityVal
  BY DEF Stored, zf_kv_decode_entity, XR_PACKET_SIZE, SizeofEntityVal
<1> DEFINE m == Move(v.ev, n)
<1>2. m \in EntityVal /\ m.global_id = v.ev.global_id
  BY <1>1, MoveIs
<1>3. Ticked(v, n) = [len |-> XR_PACKET_SIZE, ev |-> m]
  BY <1>1 DEF Ticked, zf_kv_encode_entity
<1> HIDE DEF m
<1> QED
  BY <1>1, <1>2, <1>3 DEF Stored, zf_kv_decode_entity, XR_PACKET_SIZE

\* What seed_entities stores is a stored value, of the entity it is stored for.
LEMMA SeededType ==
  ASSUME NEW e \in Entities
  PROVE  Seeded(e) \in Stored /\ zf_kv_decode_entity(Seeded(e)).global_id = e
<1>1. e \in Nat /\ e * SeedStride \in Int64
  BY TickAssumption DEF U32
<1>2. 0 \in Int64 /\ 0 \in Int16 /\ SeedVelX \in Int16
  BY DataAssumption DEF Int64, Int16
<1> QED
  BY <1>1, <1>2 DEF Seeded, zf_kv_encode_entity, zf_kv_decode_entity, Stored, EntityVal,
     XR_PACKET_SIZE, SizeofEntityVal

-----------------------------------------------------------------------------
(* Rows.                                                                   *)

\* No rows are rows.
LEMMA NoRowsType == IsRows(NoRows) /\ DOMAIN NoRows = {}
  BY DEF IsRows, NoRows

\* Buffered writes put into rows give rows.
LEMMA WrittenType ==
  ASSUME NEW s, NEW w, IsRows(s), IsRows(w)
  PROVE  IsRows(Written(s, w)) /\ DOMAIN Written(s, w) = DOMAIN s \cup DOMAIN w
  BY DEF IsRows, Written

\* The rows of a range of keys are rows.
LEMMA RowsType ==
  ASSUME NEW s, NEW keys, IsRows(s)
  PROVE  IsRows(Rows(s, keys)) /\ DOMAIN Rows(s, keys) = DOMAIN s \cap keys
  BY DEF IsRows, Rows

\* What the loop of zt_on_range_read buffers are rows.
LEMMA LoopType ==
  ASSUME NEW f, IsRows(f), NEW n \in Nat
  PROVE  IsRows([k \in DOMAIN f |-> Ticked(f[k], n)])
<1>1. \A k \in DOMAIN f : Ticked(f[k], n) \in Stored
  BY TickedType DEF IsRows
<1> QED
  BY <1>1 DEF IsRows

\* What a seeding writes are rows.
LEMMA SeedType ==
  ASSUME NEW z \in Zones, NEW n \in SeedCounts
  PROVE  /\ IsRows([k \in SeedKeys(z, n) |-> Seeded(k[2])])
         /\ SeedKeys(z, n) \subseteq Keys
<1>1. \A k \in SeedKeys(z, n) : k[2] \in Entities
  BY DEF SeedKeys, Keys
<1>2. \A k \in SeedKeys(z, n) : Seeded(k[2]) \in Stored
  BY <1>1, SeededType
<1> QED
  BY <1>2 DEF IsRows, SeedKeys

\* A reply covers keys of the zone's scan.
LEMMA ReadRangeType ==
  ASSUME NEW s, NEW z \in Zones
  PROVE  ReadRange(s, z) \subseteq ScanKeys[z] /\ ScanKeys[z] \subseteq Keys
  BY DEF ReadRange, ScanKeys

-----------------------------------------------------------------------------
(* Type correctness.                                                       *)

\* The initial state is well typed.
LEMMA TypeInit == Init => TypeOK
<1> SUFFICES ASSUME Init PROVE TypeOK
  OBVIOUS
<1>1. (CHOOSE z \in Zones : TRUE) \in Zones
  BY TickAssumption
<1>2. MaxFaults \in Nat /\ MaxSeeds \in Nat
  BY TickAssumption
<1> QED
  BY <1>1, <1>2, NoRowsType DEF Init, TypeOK, NoFuture, Futures, Errors

\* The transaction's part of the type is kept by a reset.
LEMMA ResetType ==
  ASSUME TypeOK, NEW r \in Runs, ResetTr(r)
  PROVE  /\ kvs' = [q \in Runs |-> kvs'[q]] /\ \A q \in Runs : IsRows(kvs'[q])
         /\ range' \in [Runs -> SUBSET Keys]
         /\ stale' \in [Runs -> BOOLEAN]
         /\ writes' = [q \in Runs |-> writes'[q]] /\ \A q \in Runs : IsRows(writes'[q])
  BY NoRowsType, Zenon DEF TypeOK, ResetTr

\* ... and the context's by zt_finish.
LEMMA FinishType ==
  ASSUME TypeOK, NEW r \in Runs, NEW ok \in BOOLEAN, zt_finish(r, ok)
  PROVE  /\ ctx' \in [Runs -> {"idle", "live", "freed", "refused", "crashed"}]
         /\ done' \in [Runs -> Seq(BOOLEAN)]
         /\ ResetTr(r)
  BY DEF TypeOK, zt_finish

\* Submitting, answering and dropping a future are well typed.
LEMMA SubmitType ==
  ASSUME TypeOK, NEW r \in Runs, NEW op \in {"range", "commit", "on_error"},
         NEW err \in Errors
  PROVE  /\ submit_future(r, op, err) => fut' \in [Runs -> Futures]
         /\ DropFuture(r) => fut' \in [Runs -> Futures]
         /\ Answer(r, err) => fut' \in [Runs -> Futures]
<1>1. /\ Submitted(op, err) \in Futures
      /\ NoFuture \in Futures
  BY DEF Submitted, NoFuture, Futures, Errors
<1>2. Ready(fut[r].op, err) \in Futures
  <2>1. fut[r].op \in {"none", "range", "commit", "on_error"}
    BY DEF TypeOK, Futures
  <2> QED
    BY <2>1 DEF Ready, Futures
<1> QED
  BY <1>1, <1>2, Zenon DEF TypeOK, submit_future, DropFuture, Answer

\* Counting a failure stays within the bound.
LEMMA FaultType ==
  ASSUME TypeOK
  PROVE  /\ \A f : Fault(f) => faults' \in 0 .. MaxFaults
         /\ NoFault => faults' \in 0 .. MaxFaults
  BY TickAssumption DEF TypeOK, Fault, NoFault

\* Starting, or starting over, the range read is well typed.
LEMMA StartReadType ==
  ASSUME TypeOK, NEW r \in Runs, zt_start_range_read(r)
  PROVE  /\ ctx' \in [Runs -> {"idle", "live", "freed", "refused", "crashed"}]
         /\ done' \in [Runs -> Seq(BOOLEAN)]
         /\ fut' \in [Runs -> Futures]
         /\ kvs' = [q \in Runs |-> kvs'[q]] /\ \A q \in Runs : IsRows(kvs'[q])
         /\ range' \in [Runs -> SUBSET Keys]
         /\ stale' \in [Runs -> BOOLEAN]
         /\ writes' = [q \in Runs |-> writes'[q]] /\ \A q \in Runs : IsRows(writes'[q])
         /\ faults' \in 0 .. MaxFaults
<1>1. CASE /\ NoFault
           /\ submit_future(r, "range", "ok")
           /\ ctx' = [ctx EXCEPT ![r] = "live"]
           /\ UNCHANGED <<done, kvs, range, stale, writes>>
  BY <1>1, SubmitType, FaultType DEF TypeOK, Errors
<1>2. CASE Fault("submit_read") /\ DropFuture(r) /\ zt_finish(r, FALSE)
  BY <1>2, SubmitType, FaultType, FinishType, ResetType, Zenon DEF Errors
<1> QED
  BY <1>1, <1>2, Zenon DEF zt_start_range_read

\* Every step keeps the types.
LEMMA TypeStep == TypeOK /\ [Next]_vars => TypeOK'
<1> SUFFICES ASSUME TypeOK, [Next]_vars PROVE TypeOK'
  OBVIOUS
<1>1. ASSUME NEW r \in Runs, NEW z \in Zones, NEW n \in TickCounts, zf_zonetick_run(r, z, n)
      PROVE  TypeOK'
  <2>1. args' \in [Runs -> [z_id : Zones, tick_count : Nat]]
    BY <1>1, TickAssumption DEF TypeOK, zf_zonetick_run
  <2>2. UNCHANGED <<cancelled, store, applied, sawEmpty, seeds>>
    BY <1>1 DEF zf_zonetick_run
  <2>3. CASE zt_start_range_read(r)
    BY <2>1, <2>2, <2>3, StartReadType, Zenon DEF TypeOK
  <2>4. CASE /\ Fault("refuse")
             /\ ctx' = [ctx EXCEPT ![r] = "refused"]
             /\ UNCHANGED <<done, fut, kvs, range, stale, writes>>
    BY <2>1, <2>2, <2>4, FaultType DEF TypeOK
  <2> QED
    BY <1>1, <2>3, <2>4 DEF zf_zonetick_run
<1>2. ASSUME NEW r \in Runs, zt_on_error_retry(r) PROVE TypeOK'
  <2>1. zt_start_range_read(r) /\ UNCHANGED <<args, cancelled, store, applied, sawEmpty, seeds>>
    BY <1>2, Zenon DEF zt_on_error_retry
  <2> QED
    BY <2>1, StartReadType, Zenon DEF TypeOK
<1>3. ASSUME NEW r \in Runs, zt_on_range_read(r) PROVE TypeOK'
  <2>1. UNCHANGED <<args, cancelled, store, applied, sawEmpty, seeds>>
    BY <1>3 DEF zt_on_range_read
  <2>2. fut[r].err \in Errors
    BY DEF TypeOK, Futures
  <2>3. CASE /\ fdb_handle_error(r, fut[r].err)
             /\ UNCHANGED <<ctx, done, kvs, range, stale, writes>>
    BY <2>1, <2>2, <2>3, SubmitType, FaultType DEF TypeOK, fdb_handle_error
  <2>4. CASE Fault("badarray") /\ DropFuture(r) /\ zt_finish(r, FALSE)
    BY <2>1, <2>2, <2>4, SubmitType, FaultType, FinishType, ResetType, Zenon DEF TypeOK
  <2>5. CASE /\ writes' = [writes EXCEPT ![r] =
                   [k \in DOMAIN kvs[r] |-> Ticked(kvs[r][k], args[r].tick_count)]]
             /\ fdb_async_commit(r)
             /\ UNCHANGED <<ctx, done, kvs, range, stale>>
    <3>1. args[r].tick_count \in Nat /\ IsRows(kvs[r])
      BY DEF TypeOK
    <3>2. IsRows([k \in DOMAIN kvs[r] |-> Ticked(kvs[r][k], args[r].tick_count)])
      BY <3>1, LoopType
    <3>3. writes' = [q \in Runs |-> writes'[q]] /\ \A q \in Runs : IsRows(writes'[q])
      BY <2>5, <3>2, Zenon DEF TypeOK
    <3>4. fut' \in [Runs -> Futures] /\ faults' \in 0 .. MaxFaults
      BY <2>5, SubmitType, FaultType DEF fdb_async_commit, Errors
    <3> QED
      BY <2>1, <2>5, <3>3, <3>4 DEF TypeOK
  <2> QED
    BY <1>3, <2>3, <2>4, <2>5, Zenon DEF zt_on_range_read
<1>4. ASSUME NEW r \in Runs, zt_on_commit(r) PROVE TypeOK'
  <2>1. UNCHANGED <<args, cancelled, store, applied, sawEmpty, seeds>>
    BY <1>4 DEF zt_on_commit
  <2>2. fut[r].err \in Errors
    BY DEF TypeOK, Futures
  <2>3. CASE /\ fdb_handle_error(r, fut[r].err)
             /\ UNCHANGED <<ctx, done, kvs, range, stale, writes>>
    BY <2>1, <2>2, <2>3, SubmitType, FaultType DEF TypeOK, fdb_handle_error
  <2>4. CASE NoFault /\ DropFuture(r) /\ zt_finish(r, TRUE)
    BY <2>1, <2>2, <2>4, SubmitType, FaultType, FinishType, ResetType, Zenon DEF TypeOK
  <2> QED
    BY <1>4, <2>3, <2>4, Zenon DEF zt_on_commit
<1>5. ASSUME NEW r \in Runs, FdbServeRead(r) PROVE TypeOK'
  <2>1. UNCHANGED <<ctx, args, done, writes, cancelled, store, applied, seeds>>
    BY <1>5 DEF FdbServeRead
  <2> DEFINE keys == ReadRange(store, args[r].z_id)
  <2>2. keys \subseteq Keys /\ IsRows(Rows(store, keys))
    BY ReadRangeType, RowsType, Zenon DEF TypeOK
  <2>3. fut' \in [Runs -> Futures] /\ faults' \in 0 .. MaxFaults
    BY <1>5, SubmitType, FaultType DEF FdbServeRead, Errors
  <2>4. range' \in [Runs -> SUBSET Keys] /\ stale' \in [Runs -> BOOLEAN]
    <3>1. \/ range' = range /\ stale' = stale
          \/ range' = [range EXCEPT ![r] = keys] /\ stale' = [stale EXCEPT ![r] = FALSE]
      BY <1>5 DEF FdbServeRead
    <3> HIDE DEF keys
    <3> QED
      BY <2>2, <3>1, Zenon DEF TypeOK
  <2>5. sawEmpty' \in [Runs -> BOOLEAN]
    BY <1>5, Zenon DEF FdbServeRead, TypeOK
  <2>6. kvs' = [q \in Runs |-> kvs'[q]] /\ \A q \in Runs : IsRows(kvs'[q])
    BY <1>5, <2>2, Zenon DEF FdbServeRead, TypeOK
  <2> QED
    BY <2>1, <2>3, <2>4, <2>5, <2>6 DEF TypeOK
<1>6. ASSUME NEW r \in Runs, FdbServeCommit(r) PROVE TypeOK'
  <2>1. UNCHANGED <<ctx, args, done, kvs, range, writes, cancelled, sawEmpty, seeds>>
    BY <1>6 DEF FdbServeCommit
  <2>2. fut' \in [Runs -> Futures] /\ faults' \in 0 .. MaxFaults
    BY <1>6, SubmitType, FaultType DEF FdbServeCommit, Errors
  <2>3. IsRows(store')
    <3>1. store' = Written(store, writes[r]) \/ store' = store
      BY <1>6 DEF FdbServeCommit
    <3>2. IsRows(store) /\ IsRows(writes[r])
      BY DEF TypeOK
    <3>3. IsRows(Written(store, writes[r]))
      BY <3>2, WrittenType, Zenon
    <3> QED
      BY <3>1, <3>2, <3>3
  <2>4. stale' \in [Runs -> BOOLEAN]
    BY <1>6, Zenon DEF FdbServeCommit, Invalidate, TypeOK
  <2>5. applied' \in [Runs -> Nat]
    BY <1>6 DEF FdbServeCommit, TypeOK
  <2> QED
    BY <2>1, <2>2, <2>3, <2>4, <2>5 DEF TypeOK
<1>7. ASSUME NEW r \in Runs, FdbServeOnError(r) PROVE TypeOK'
  <2>1. fut' \in [Runs -> Futures]
    BY <1>7, SubmitType DEF FdbServeOnError, Errors
  <2>2. cancelled' \in [Runs -> BOOLEAN]
    BY <1>7, Zenon DEF FdbServeOnError, TypeOK
  <2> QED
    BY <1>7, <2>1, <2>2, ResetType DEF FdbServeOnError, TypeOK
<1>8. ASSUME NEW r \in Runs, Crash(r) PROVE TypeOK'
  <2>1. fut' \in [Runs -> Futures] /\ faults' \in 0 .. MaxFaults
    BY <1>8, SubmitType, FaultType DEF Crash, Errors, TypeOK
  <2> QED
    BY <1>8, <2>1, ResetType, Zenon DEF Crash, TypeOK
<1>9. ASSUME NEW z \in Zones, NEW n \in SeedCounts, seed_entities(z, n) PROVE TypeOK'
  <2>1. IsRows(store')
    BY <1>9, SeedType, WrittenType, Zenon DEF seed_entities, TypeOK
  <2>2. stale' \in [Runs -> BOOLEAN]
    BY <1>9 DEF seed_entities, Invalidate, TypeOK
  <2>3. seeds' \in 0 .. MaxSeeds
    BY <1>9, TickAssumption DEF seed_entities, TypeOK
  <2> QED
    BY <1>9, <2>1, <2>2, <2>3 DEF seed_entities, TypeOK
<1>10. CASE UNCHANGED vars
  BY <1>10 DEF vars, TypeOK
<1> QED
  BY <1>1, <1>2, <1>3, <1>4, <1>5, <1>6, <1>7, <1>8, <1>9, <1>10 DEF Next

\* Type correctness of every reachable state, whatever fails and however often.
THEOREM TypeCorrect == Spec => []TypeOK
  BY TypeInit, TypeStep, PTL DEF Spec

-----------------------------------------------------------------------------
(* The inductive invariant.  CallbacksHaveContext and DoneOnce are         *)
(* inductive together; ReadIsCurrent needs to know what is buffered and    *)
(* which keys a read covers; OkMeansApplied needs to know where an empty   *)
(* write set and a good answer come from.                                  *)

\* Reads stay inside the scan of the run's zone.
ReadInScan ==
    \A r \in Runs :
        /\ range[r] \subseteq ScanKeys[args[r].z_id]
        /\ DOMAIN kvs[r] \subseteq range[r]
        /\ ctx[r] = "idle" => range[r] = {}

\* What is being committed is the tick of what was read.
WritesAreTicked ==
    \A r \in Runs : fut[r].op = "commit" =>
        writes[r] = [k \in DOMAIN kvs[r] |-> Ticked(kvs[r][k], args[r].tick_count)]

\* Nothing to write means an empty zone was read; a good answer to a commit
\* means that it took effect or had nothing to write.
AnswersAreTrue ==
    \A r \in Runs :
        /\ HoldsRead(r) /\ DOMAIN kvs[r] = {} => sawEmpty[r]
        /\ fut[r].op = "commit" /\ fut[r].ready /\ fut[r].err = "ok"
              => applied[r] > 0 \/ sawEmpty[r]

\* Rows are on the course of the key they are stored under.
RowsOn(f) == \A k \in DOMAIN f : OnCourseOf(k[2], zf_kv_decode_entity(f[k]))

RowsOnCourse ==
    RowsOn(store) /\ \A r \in Runs : RowsOn(kvs[r]) /\ RowsOn(writes[r])

Lifecycle == CallbacksHaveContext /\ DoneOnce

Inv ==
    /\ TypeOK
    /\ Lifecycle
    /\ ReadInScan
    /\ WritesAreTicked
    /\ ReadIsCurrent
    /\ AnswersAreTrue
    /\ OkMeansApplied
    /\ RowsOnCourse

-----------------------------------------------------------------------------
(* Steps of one run.                                                       *)

RunStep(r) ==
    \/ \E z \in Zones, n \in TickCounts : zf_zonetick_run(r, z, n)
    \/ FdbServeRead(r) \/ FdbServeCommit(r) \/ FdbServeOnError(r)
    \/ zt_on_range_read(r) \/ zt_on_commit(r) \/ zt_on_error_retry(r)
    \/ Crash(r)

\* A step is a step of a run, a seeding or no step.
LEMMA NextCases ==
  ASSUME [Next]_vars
  PROVE  \/ \E r \in Runs : RunStep(r)
         \/ \E z \in Zones, n \in SeedCounts : seed_entities(z, n)
         \/ UNCHANGED vars
  BY DEF Next, RunStep

\* The future that each step of a run, but its call and its death, waits for.
LEMMA StepGuards ==
  ASSUME NEW r
  PROVE  /\ FdbServeRead(r) => fut[r].op = "range" /\ ~ fut[r].ready
         /\ FdbServeCommit(r) => fut[r].op = "commit" /\ ~ fut[r].ready
         /\ FdbServeOnError(r) => fut[r].op = "on_error"
         /\ zt_on_range_read(r) => fut[r].op = "range"
         /\ zt_on_commit(r) => fut[r].op = "commit"
         /\ zt_on_error_retry(r) => fut[r].op = "on_error"
         /\ \A z, n : zf_zonetick_run(r, z, n) => ctx[r] = "idle"
<1>1. FdbServeRead(r) => fut[r] = Submitted("range", "ok")
  BY Zenon DEF FdbServeRead
<1>2. FdbServeCommit(r) => fut[r] = Submitted("commit", "ok")
  BY Zenon DEF FdbServeCommit
<1>3. FdbServeOnError(r) => fut[r].op = "on_error"
  BY Zenon DEF FdbServeOnError
<1>4. zt_on_range_read(r) => fut[r].op = "range"
  BY Zenon DEF zt_on_range_read, Callback
<1>5. zt_on_commit(r) => fut[r].op = "commit"
  BY Zenon DEF zt_on_commit, Callback
<1>6. zt_on_error_retry(r) => fut[r].op = "on_error"
  BY Zenon DEF zt_on_error_retry, Callback
<1>7. \A z, n : zf_zonetick_run(r, z, n) => ctx[r] = "idle"
  BY Zenon DEF zf_zonetick_run
<1>8. \A op : Submitted(op, "ok").op = op /\ ~ Submitted(op, "ok").ready
  BY DEF Submitted
<1> QED
  BY <1>1, <1>2, <1>3, <1>4, <1>5, <1>6, <1>7, <1>8

\* A run touches no other run's context, future or transaction, except that its
\* commit may invalidate the other's read.
LEMMA OthersUntouched ==
  ASSUME TypeOK, NEW r \in Runs, RunStep(r), NEW q \in Runs, q # r
  PROVE  /\ ctx'[q] = ctx[q] /\ args'[q] = args[q] /\ done'[q] = done[q]
         /\ fut'[q] = fut[q] /\ kvs'[q] = kvs[q] /\ range'[q] = range[q]
         /\ writes'[q] = writes[q]
         /\ applied'[q] = applied[q] /\ sawEmpty'[q] = sawEmpty[q]
<1>1. CASE \E z \in Zones, n \in TickCounts : zf_zonetick_run(r, z, n)
  BY <1>1, Zenon DEF TypeOK, zf_zonetick_run, zt_start_range_read, submit_future, DropFuture,
              zt_finish, ResetTr
<1>2. CASE FdbServeRead(r)
  BY <1>2 DEF TypeOK, FdbServeRead, Answer
<1>3. CASE FdbServeCommit(r)
  BY <1>3 DEF TypeOK, FdbServeCommit, Answer
<1>4. CASE FdbServeOnError(r)
  BY <1>4 DEF TypeOK, FdbServeOnError, Answer, ResetTr
<1>5. CASE zt_on_range_read(r)
  BY <1>5, Zenon DEF TypeOK, zt_on_range_read, fdb_handle_error, fdb_async_commit, submit_future,
              DropFuture, zt_finish, ResetTr
<1>6. CASE zt_on_commit(r)
  BY <1>6, Zenon DEF TypeOK, zt_on_commit, fdb_handle_error, submit_future, DropFuture, zt_finish,
              ResetTr
<1>7. CASE zt_on_error_retry(r)
  BY <1>7, Zenon DEF TypeOK, zt_on_error_retry, zt_start_range_read, submit_future, DropFuture,
              zt_finish, ResetTr
<1>8. CASE Crash(r)
  BY <1>8 DEF TypeOK, Crash, DropFuture, ResetTr
<1> QED
  BY <1>1, <1>2, <1>3, <1>4, <1>5, <1>6, <1>7, <1>8 DEF RunStep

-----------------------------------------------------------------------------
(* Contexts and callbacks.                                                 *)

LifecycleOf(r) ==
    /\ fut[r].op # "none" => ctx[r] \in {"live", "crashed"}
    /\ Len(done[r]) = IF ctx[r] = "freed" THEN 1 ELSE 0

\* zt_finish is called on a live context only, and leaves no future behind.
LEMMA LifecycleRun ==
  ASSUME TypeOK, Lifecycle, NEW r \in Runs, RunStep(r)
  PROVE  LifecycleOf(r)'
<1>1. LifecycleOf(r)
  BY DEF Lifecycle, LifecycleOf, CallbacksHaveContext, DoneOnce
<1>2. done[r] \in Seq(BOOLEAN) /\ fut[r] \in Futures
  BY DEF TypeOK
<1>3. \A ok \in BOOLEAN : Len(Append(done[r], ok)) = Len(done[r]) + 1
  BY <1>2
<1>a. ASSUME NEW ok \in BOOLEAN, DropFuture(r), zt_finish(r, ok), ctx[r] \in {"idle", "live"}
      PROVE  LifecycleOf(r)'
  <2>1. Len(done[r]) = 0
    BY <1>1, <1>a DEF LifecycleOf
  <2>2. fut'[r].op = "none"
    BY <1>a DEF DropFuture, NoFuture, TypeOK
  <2>3. ctx'[r] = "freed" /\ done'[r] = Append(done[r], ok)
    BY <1>a DEF zt_finish, TypeOK
  <2> QED
    BY <1>3, <2>1, <2>2, <2>3 DEF LifecycleOf
<1>b. ASSUME ctx[r] \in {"idle", "live"}, ctx'[r] = "live", done'[r] = done[r]
      PROVE  LifecycleOf(r)'
  BY <1>1, <1>b DEF LifecycleOf
<1>4. ASSUME zt_start_range_read(r), ctx[r] \in {"idle", "live"} PROVE LifecycleOf(r)'
  BY <1>4, <1>a, <1>b, Zenon DEF zt_start_range_read, TypeOK
<1>5. ASSUME NEW op \in {"range", "commit", "on_error"}, Callback(r, op) PROVE ctx[r] = "live"
  BY <1>1, <1>5 DEF LifecycleOf, Callback
<1>6. CASE \E z \in Zones, n \in TickCounts : zf_zonetick_run(r, z, n)
  BY <1>1, <1>4, <1>6 DEF zf_zonetick_run, LifecycleOf, TypeOK
<1>7. CASE FdbServeRead(r)
  BY <1>1, <1>7 DEF LifecycleOf, FdbServeRead, Answer, Submitted, Ready, TypeOK
<1>8. CASE FdbServeCommit(r)
  BY <1>1, <1>8 DEF LifecycleOf, FdbServeCommit, Answer, Submitted, Ready, TypeOK
<1>9. CASE FdbServeOnError(r)
  BY <1>1, <1>9 DEF LifecycleOf, FdbServeOnError, Answer, Ready, TypeOK
<1>10. CASE zt_on_range_read(r)
  <2>1. ctx[r] = "live"
    BY <1>5, <1>10 DEF zt_on_range_read
  <2> QED
    BY <1>10, <1>a, <1>b, <2>1, Zenon DEF zt_on_range_read
<1>11. CASE zt_on_commit(r)
  <2>1. ctx[r] = "live"
    BY <1>5, <1>11 DEF zt_on_commit
  <2> QED
    BY <1>11, <1>a, <1>b, <2>1, Zenon DEF zt_on_commit
<1>12. CASE zt_on_error_retry(r)
  BY <1>4, <1>5, <1>12 DEF zt_on_error_retry
<1>13. CASE Crash(r)
  BY <1>1, <1>13 DEF LifecycleOf, Crash, DropFuture, NoFuture, TypeOK
<1> QED
  BY <1>6, <1>7, <1>8, <1>9, <1>10, <1>11, <1>12, <1>13 DEF RunStep

\* Lifecycle is kept by every step.
LEMMA LifecycleStep == TypeOK /\ Lifecycle /\ [Next]_vars => Lifecycle'
<1> SUFFICES ASSUME TypeOK, Lifecycle, [Next]_vars PROVE Lifecycle'
  OBVIOUS
<1>1. ASSUME NEW q \in Runs PROVE LifecycleOf(q)'
  <2>1. LifecycleOf(q)
    BY DEF Lifecycle, LifecycleOf, CallbacksHaveContext, DoneOnce
  <2>2. ASSUME NEW r \in Runs, RunStep(r), r # q PROVE LifecycleOf(q)'
    BY <2>1, <2>2, OthersUntouched DEF LifecycleOf
  <2>3. ASSUME NEW z \in Zones, NEW n \in SeedCounts, seed_entities(z, n)
        PROVE  LifecycleOf(q)'
    BY <2>1, <2>3 DEF seed_entities, LifecycleOf
  <2>4. CASE UNCHANGED vars
    BY <2>1, <2>4 DEF vars, LifecycleOf
  <2> QED
    BY <2>2, <2>3, <2>4, LifecycleRun, NextCases
<1> QED
  BY <1>1 DEF Lifecycle, LifecycleOf, CallbacksHaveContext, DoneOnce

-----------------------------------------------------------------------------
(* What a run holds, after a step of its own.                              *)

ScanOf(r) ==
    /\ range[r] \subseteq ScanKeys[args[r].z_id]
    /\ DOMAIN kvs[r] \subseteq range[r]
    /\ ctx[r] = "idle" => range[r] = {}

TickedOf(r) ==
    fut[r].op = "commit" =>
        writes[r] = [k \in DOMAIN kvs[r] |-> Ticked(kvs[r][k], args[r].tick_count)]

CurrentOf(r) == HoldsRead(r) /\ ~ stale[r] => kvs[r] = Rows(store, range[r])

AnswersOf(r) ==
    /\ HoldsRead(r) /\ DOMAIN kvs[r] = {} => sawEmpty[r]
    /\ fut[r].op = "commit" /\ fut[r].ready /\ fut[r].err = "ok"
          => applied[r] > 0 \/ sawEmpty[r]

DataOf(r) == ScanOf(r) /\ TickedOf(r) /\ CurrentOf(r) /\ AnswersOf(r)

\* After a reset the run holds nothing.
LEMMA DataReset ==
  ASSUME TypeOK, NEW r \in Runs, ResetTr(r),
         args'[r].z_id \in Zones, fut'[r].op \in {"none", "on_error"}
  PROVE  DataOf(r)'
<1>1. kvs'[r] = NoRows /\ range'[r] = {}
  BY DEF ResetTr, TypeOK
<1> QED
  BY <1>1, NoRowsType DEF DataOf, ScanOf, TickedOf, CurrentOf, AnswersOf, HoldsRead

\* With no answer to a read and no commit outstanding, only the scan matters.
LEMMA DataIdle ==
  ASSUME NEW r \in Runs, ScanOf(r)',
         \/ fut'[r].op \in {"none", "on_error"}
         \/ fut'[r].op = "range" /\ (~ fut'[r].ready \/ fut'[r].err # "ok")
  PROVE  DataOf(r)'
  BY DEF DataOf, TickedOf, CurrentOf, AnswersOf, HoldsRead

\* Starting, or starting over, the range read.
LEMMA DataStart ==
  ASSUME TypeOK, NEW r \in Runs, DataOf(r), zt_start_range_read(r), args'[r].z_id \in Zones,
         args' = args \/ ctx[r] = "idle"
  PROVE  DataOf(r)'
<1>1. CASE /\ NoFault
           /\ submit_future(r, "range", "ok")
           /\ ctx' = [ctx EXCEPT ![r] = "live"]
           /\ UNCHANGED <<done, kvs, range, stale, writes>>
  <2>1. fut'[r].op = "range" /\ ~ fut'[r].ready
    BY <1>1 DEF submit_future, Submitted, TypeOK
  <2>2. ScanOf(r)'
    BY <1>1 DEF DataOf, ScanOf, TypeOK
  <2> QED
    BY <2>1, <2>2, DataIdle
<1>2. CASE Fault("submit_read") /\ DropFuture(r) /\ zt_finish(r, FALSE)
  <2>1. ResetTr(r) /\ fut'[r].op = "none"
    BY <1>2 DEF zt_finish, DropFuture, NoFuture, TypeOK
  <2> QED
    BY <2>1, DataReset
<1> QED
  BY <1>1, <1>2, Zenon DEF zt_start_range_read

\* A run's own step keeps what it holds in order.
LEMMA DataRun ==
  ASSUME TypeOK, Lifecycle, NEW r \in Runs, DataOf(r), RunStep(r)
  PROVE  DataOf(r)'
<1>1. args[r].z_id \in Zones /\ fut[r] \in Futures
  BY DEF TypeOK
<1>2. ASSUME DropFuture(r) \/ \E err \in Errors : submit_future(r, "on_error", err),
             UNCHANGED <<ctx, args, kvs, range>>
      PROVE  DataOf(r)'
  <2>1. fut'[r].op \in {"none", "on_error"}
    BY <1>2 DEF DropFuture, submit_future, NoFuture, Submitted, TypeOK
  <2>2. ScanOf(r)'
    BY <1>2 DEF DataOf, ScanOf
  <2> QED
    BY <2>1, <2>2, DataIdle
<1>3. ASSUME NEW ok \in BOOLEAN, DropFuture(r), zt_finish(r, ok), args' = args
      PROVE  DataOf(r)'
  BY <1>1, <1>3, DataReset DEF zt_finish, DropFuture, NoFuture, TypeOK
<1>4. fut[r].err \in Errors
  BY <1>1 DEF Futures
<1>5. CASE \E z \in Zones, n \in TickCounts : zf_zonetick_run(r, z, n)
  <2>1. PICK z \in Zones, n \in TickCounts : zf_zonetick_run(r, z, n)
    BY <1>5
  <2>2. args'[r].z_id \in Zones /\ ctx[r] = "idle"
    BY <2>1 DEF zf_zonetick_run, TypeOK
  <2>3. CASE zt_start_range_read(r)
    BY <2>2, <2>3, DataStart
  <2>4. CASE /\ Fault("refuse")
             /\ ctx' = [ctx EXCEPT ![r] = "refused"]
             /\ UNCHANGED <<done, fut, kvs, range, stale, writes>>
    <3>1. fut'[r].op = "none"
      BY <1>1, <2>2, <2>4 DEF Lifecycle, CallbacksHaveContext
    <3>2. ScanOf(r)'
      BY <2>2, <2>4 DEF DataOf, ScanOf, TypeOK
    <3> QED
      BY <3>1, <3>2, DataIdle
  <2> QED
    BY <2>1, <2>3, <2>4 DEF zf_zonetick_run
<1>6. CASE FdbServeRead(r)
  <2> DEFINE keys == ReadRange(store, args[r].z_id)
  <2>0. UNCHANGED <<ctx, args, store>>
    BY <1>6, Zenon DEF FdbServeRead
  <2>1. UNCHANGED <<ctx, args, store>> /\ fut[r].op = "range"
    BY <1>6, <2>0, StepGuards
  <2>2. CASE /\ Answer(r, "ok")
             /\ range' = [range EXCEPT ![r] = keys]
             /\ kvs' = [kvs EXCEPT ![r] = Rows(store, keys)]
             /\ sawEmpty' = [sawEmpty EXCEPT ![r] = @ \/ DOMAIN Rows(store, keys) = {}]
    <3>1. keys \subseteq ScanKeys[args[r].z_id] /\ DOMAIN Rows(store, keys) \subseteq keys
      <4>1. keys \subseteq ScanKeys[args[r].z_id]
        BY <1>1, ReadRangeType
      <4>2. DOMAIN Rows(store, keys) \subseteq keys
        BY DEF Rows
      <4> QED
        BY <4>1, <4>2
    <3> HIDE DEF keys
    <3>2. range'[r] = keys /\ kvs'[r] = Rows(store, keys)
      BY <2>2 DEF TypeOK
    <3>3. sawEmpty'[r] = (sawEmpty[r] \/ DOMAIN Rows(store, keys) = {})
      BY <2>2 DEF TypeOK
    <3>4. fut'[r].op = "range"
      BY <2>1, <2>2 DEF Answer, Ready, TypeOK
    <3>5. ctx[r] # "idle"
      BY <2>1 DEF Lifecycle, CallbacksHaveContext
    <3>6. ScanOf(r)'
      BY <2>1, <3>1, <3>2, <3>5 DEF ScanOf
    <3>7. CurrentOf(r)'
      BY <2>1, <3>2 DEF CurrentOf
    <3>8. AnswersOf(r)'
      BY <3>2, <3>3, <3>4, Zenon DEF AnswersOf
    <3> QED
      BY <3>4, <3>6, <3>7, <3>8 DEF DataOf, TickedOf
  <2>3. CASE /\ \E err \in {"retryable", "fatal"} : Answer(r, err)
             /\ UNCHANGED <<kvs, range, stale, sawEmpty>>
    <3>1. fut'[r].op = "range" /\ fut'[r].err # "ok"
      BY <2>1, <2>3 DEF Answer, Ready, TypeOK
    <3>2. ScanOf(r)'
      BY <2>1, <2>3 DEF DataOf, ScanOf
    <3> QED
      BY <3>1, <3>2, DataIdle
  <2> QED
    BY <1>6, <2>2, <2>3 DEF FdbServeRead
<1>7. CASE FdbServeCommit(r)
  <2>1. /\ UNCHANGED <<ctx, args, kvs, range, writes, sawEmpty>>
        /\ fut[r].op = "commit" /\ ~ fut[r].ready
    <3>1. UNCHANGED <<ctx, args, kvs, range, writes, sawEmpty>>
      BY <1>7, Zenon DEF FdbServeCommit
    <3> QED
      BY <1>7, <3>1, StepGuards, Zenon
  <2>2. fut'[r].op = "commit" /\ fut'[r].ready
    BY <1>7, <2>1 DEF FdbServeCommit, Answer, Ready, TypeOK
  <2>3. fut'[r].err = "ok" => applied'[r] > 0 \/ sawEmpty[r]
    <3>1. CASE ReadOnly(r)
      <4>1. DOMAIN kvs[r] = {}
        BY <2>1, <3>1 DEF ReadOnly, DataOf, TickedOf
      <4> QED
        BY <2>1, <4>1 DEF DataOf, AnswersOf, HoldsRead
    <3>2. CASE ~ ReadOnly(r)
      <4>1. fut'[r].err = "ok" => applied' = [applied EXCEPT ![r] = @ + 1]
        BY <1>7, <3>2 DEF FdbServeCommit, Answer, Ready, TypeOK
      <4>2. applied[r] \in Nat
        BY DEF TypeOK
      <4> QED
        BY <4>1, <4>2 DEF TypeOK
    <3> QED
      BY <3>1, <3>2
  <2> QED
    BY <2>1, <2>2, <2>3, Zenon DEF DataOf, ScanOf, TickedOf, CurrentOf, AnswersOf, HoldsRead
<1>8. CASE FdbServeOnError(r)
  <2>1. fut'[r].op = "on_error" /\ UNCHANGED <<ctx, args>>
    BY <1>8 DEF FdbServeOnError, Answer, Ready, TypeOK
  <2>2. CASE ResetTr(r)
    BY <1>1, <2>1, <2>2, DataReset
  <2>3. CASE UNCHANGED <<kvs, range>>
    BY <2>1, <2>3, DataIdle, Zenon DEF DataOf, ScanOf
  <2> QED
    BY <1>8, <2>2, <2>3, Zenon DEF FdbServeOnError
<1>9. CASE zt_on_range_read(r)
  <2>1. /\ UNCHANGED <<args, store, sawEmpty, applied>>
        /\ fut[r].op = "range" /\ fut[r].ready
    BY <1>9, Zenon DEF zt_on_range_read, Callback
  <2>2. CASE /\ fdb_handle_error(r, fut[r].err)
             /\ UNCHANGED <<ctx, done, kvs, range, stale, writes>>
    BY <1>2, <1>4, <2>1, <2>2 DEF fdb_handle_error
  <2>3. CASE DropFuture(r) /\ zt_finish(r, FALSE)
    BY <1>3, <2>1, <2>3, Zenon
  <2>4. CASE /\ fut[r].err = "ok"
             /\ writes' = [writes EXCEPT ![r] =
                   [k \in DOMAIN kvs[r] |-> Ticked(kvs[r][k], args[r].tick_count)]]
             /\ fdb_async_commit(r)
             /\ UNCHANGED <<ctx, done, kvs, range, stale>>
    <3>1. CASE DropFuture(r)
      BY <1>2, <2>1, <2>4, <3>1
    <3>2. CASE submit_future(r, "commit", "ok")
      <4>1. fut'[r].op = "commit" /\ ~ fut'[r].ready
        BY <3>2 DEF submit_future, Submitted, TypeOK
      <4>2. TickedOf(r)'
        BY <2>1, <2>4 DEF TickedOf, TypeOK
      <4>3. HoldsRead(r)
        BY <2>1, <2>4, Zenon DEF HoldsRead
      <4> QED
        BY <2>1, <2>4, <4>1, <4>2, <4>3 DEF DataOf, ScanOf, CurrentOf, AnswersOf
    <3> QED
      BY <2>4, <3>1, <3>2 DEF fdb_async_commit
  <2> QED
    BY <1>9, <2>2, <2>3, <2>4, Zenon DEF zt_on_range_read
<1>10. CASE zt_on_commit(r)
  <2>1. args' = args
    BY <1>10 DEF zt_on_commit
  <2> QED
    BY <1>2, <1>3, <1>4, <1>10, <2>1, Zenon DEF zt_on_commit, fdb_handle_error
<1>11. CASE zt_on_error_retry(r)
  BY <1>1, <1>11, DataStart DEF zt_on_error_retry
<1>12. CASE Crash(r)
  <2>1. UNCHANGED <<args, store, sawEmpty, applied>> /\ ctx'[r] = "crashed"
    BY <1>12 DEF Crash, TypeOK
  <2>2. CASE UNCHANGED <<fut, kvs, range, stale, writes>>
    BY <2>1, <2>2 DEF DataOf, ScanOf, TickedOf, CurrentOf, AnswersOf, HoldsRead
  <2>3. CASE DropFuture(r) /\ ResetTr(r)
    BY <1>1, <2>1, <2>3, DataReset DEF DropFuture, NoFuture, TypeOK
  <2> QED
    BY <1>12, <2>2, <2>3 DEF Crash
<1> QED
  BY <1>5, <1>6, <1>7, <1>8, <1>9, <1>10, <1>11, <1>12 DEF RunStep

-----------------------------------------------------------------------------
(* What a run holds, after a step of somebody else.                        *)

\* Writes outside a range of keys leave its rows alone.
LEMMA RowsOutside ==
  ASSUME NEW s, NEW w, NEW keys, keys \cap DOMAIN w = {}
  PROVE  Rows(Written(s, w), keys) = Rows(s, keys)
<1>1. DOMAIN Written(s, w) \cap keys = DOMAIN s \cap keys
  BY DEF Written
<1>2. \A k \in DOMAIN s \cap keys : Written(s, w)[k] = s[k]
  BY DEF Written
<1> QED
  BY <1>1, <1>2 DEF Rows

\* A run whose own state is untouched keeps its data when the store is written,
\* provided the write invalidates the reads it overlaps.
LEMMA DataInvalidated ==
  ASSUME TypeOK, NEW q \in Runs, DataOf(q), NEW w,
         store' = Written(store, w), Invalidate(DOMAIN w),
         ctx'[q] = ctx[q], args'[q] = args[q], fut'[q] = fut[q], kvs'[q] = kvs[q],
         range'[q] = range[q], writes'[q] = writes[q], applied'[q] = applied[q],
         sawEmpty'[q] = sawEmpty[q]
  PROVE  DataOf(q)'
<1>1. CurrentOf(q)'
  <2>1. stale'[q] = (stale[q] \/ range[q] \cap DOMAIN w # {})
    BY Zenon DEF Invalidate
  <2>2. range[q] \cap DOMAIN w = {} => Rows(store', range[q]) = Rows(store, range[q])
    BY RowsOutside
  <2> QED
    BY <2>1, <2>2, Zenon DEF DataOf, CurrentOf, HoldsRead
<1> QED
  BY <1>1 DEF DataOf, ScanOf, TickedOf, AnswersOf, HoldsRead

\* A step of run r keeps what the other runs hold in order.
LEMMA DataOther ==
  ASSUME TypeOK, NEW r \in Runs, RunStep(r), NEW q \in Runs, q # r, DataOf(q)
  PROVE  DataOf(q)'
<1>1. /\ ctx'[q] = ctx[q] /\ args'[q] = args[q] /\ fut'[q] = fut[q]
      /\ kvs'[q] = kvs[q] /\ range'[q] = range[q] /\ writes'[q] = writes[q]
      /\ applied'[q] = applied[q] /\ sawEmpty'[q] = sawEmpty[q]
  BY OthersUntouched
<1>2. \/ store' = store /\ stale'[q] = stale[q]
      \/ store' = Written(store, writes[r]) /\ Invalidate(DOMAIN writes[r])
  <2>1. CASE \E z \in Zones, n \in TickCounts : zf_zonetick_run(r, z, n)
    BY <2>1, Zenon DEF TypeOK, zf_zonetick_run, zt_start_range_read, zt_finish, ResetTr
  <2>2. CASE FdbServeRead(r)
    BY <2>2 DEF TypeOK, FdbServeRead
  <2>3. CASE FdbServeCommit(r)
    BY <2>3, Zenon DEF FdbServeCommit
  <2>4. CASE FdbServeOnError(r)
    BY <2>4 DEF TypeOK, FdbServeOnError, ResetTr
  <2>5. CASE zt_on_range_read(r)
    BY <2>5, Zenon DEF TypeOK, zt_on_range_read, zt_finish, ResetTr
  <2>6. CASE zt_on_commit(r)
    BY <2>6, Zenon DEF TypeOK, zt_on_commit, zt_finish, ResetTr
  <2>7. CASE zt_on_error_retry(r)
    BY <2>7, Zenon DEF TypeOK, zt_on_error_retry, zt_start_range_read, zt_finish, ResetTr
  <2>8. CASE Crash(r)
    BY <2>8 DEF TypeOK, Crash, ResetTr
  <2> QED
    BY <2>1, <2>2, <2>3, <2>4, <2>5, <2>6, <2>7, <2>8 DEF RunStep
<1>3. CASE store' = store /\ stale'[q] = stale[q]
  BY <1>1, <1>3, Zenon DEF DataOf, ScanOf, TickedOf, CurrentOf, AnswersOf, HoldsRead
<1>4. CASE store' = Written(store, writes[r]) /\ Invalidate(DOMAIN writes[r])
  BY <1>1, <1>4, DataInvalidated
<1> QED
  BY <1>2, <1>3, <1>4

\* The data of every run is kept in order by every step.
LEMMA DataStep ==
  ASSUME TypeOK, Lifecycle, \A r \in Runs : DataOf(r), [Next]_vars
  PROVE  \A r \in Runs : DataOf(r)'
<1> SUFFICES ASSUME NEW q \in Runs PROVE DataOf(q)'
  OBVIOUS
<1>1. DataOf(q)
  OBVIOUS
<1>2. ASSUME NEW z \in Zones, NEW n \in SeedCounts, seed_entities(z, n) PROVE DataOf(q)'
  <2> DEFINE w == [k \in SeedKeys(z, n) |-> Seeded(k[2])]
  <2>1. store' = Written(store, w) /\ Invalidate(DOMAIN w)
    BY <1>2 DEF seed_entities
  <2>2. UNCHANGED <<ctx, args, fut, kvs, range, writes, applied, sawEmpty>>
    BY <1>2 DEF seed_entities
  <2> HIDE DEF w
  <2> QED
    BY <1>1, <2>1, <2>2, DataInvalidated
<1>3. CASE UNCHANGED vars
  BY <1>1, <1>3, Zenon DEF vars, DataOf, ScanOf, TickedOf, CurrentOf, AnswersOf, HoldsRead
<1>4. ASSUME NEW r \in Runs, RunStep(r) PROVE DataOf(q)'
  BY <1>1, <1>4, DataRun, DataOther
<1> QED
  BY <1>2, <1>3, <1>4, NextCases

=============================================================================
