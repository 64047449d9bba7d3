--------------------------- MODULE ZoneTickProofs ---------------------------
(***************************************************************************)
(* What ZoneTick guarantees, for every set of runs, zones and entities,    *)
(* every reply limit and every choice and number of failures.              *)
(***************************************************************************)
EXTENDS ZoneTickReads

-----------------------------------------------------------------------------
(* Reports and effects.                                                    *)

OkOf(r) == TRUE \in {done[r][i] : i \in 1 .. Len(done[r])} => applied[r] > 0 \/ sawEmpty[r]

\* Only a commit of the run's own that took effect counts, and it counts one.
LEMMA AppliedSteps ==
  ASSUME TypeOK, NEW r \in Runs, RunStep(r)
  PROVE  /\ applied'[r] >= applied[r]
         /\ sawEmpty[r] => sawEmpty'[r]
         /\ applied'[r] # applied[r] =>
               /\ FdbServeCommit(r)
               /\ ~ ReadOnly(r) /\ ~ stale[r]
               /\ fut[r].op = "commit" /\ ~ fut[r].ready
               /\ store' = Written(store, writes[r])
               /\ applied'[r] = applied[r] + 1
<1>0. applied[r] \in Nat
  BY DEF TypeOK
<1>1. CASE UNCHANGED <<applied, sawEmpty>>
  <2>1. applied'[r] = applied[r] /\ sawEmpty'[r] = sawEmpty[r]
    BY <1>1, Zenon
  <2>2. applied'[r] >= applied[r]
    BY <1>0, <2>1
  <2> QED
    BY <2>1, <2>2, Zenon
<1>2. CASE FdbServeCommit(r)
  <2>0. sawEmpty' = sawEmpty
    BY <1>2, Zenon DEF FdbServeCommit
  <2>1. sawEmpty' = sawEmpty /\ fut[r].op = "commit" /\ ~ fut[r].ready
    BY <1>2, <2>0, StepGuards, Zenon
  <2>2. CASE applied' = applied
    BY <1>1, <2>1, <2>2, Zenon
  <2>3. CASE /\ ReadOnly(r) \/ ~ stale[r]
             /\ store' = Written(store, writes[r])
             /\ applied' = [applied EXCEPT ![r] = @ + IF ReadOnly(r) THEN 0 ELSE 1]
    <3>1. applied'[r] = applied[r] + IF ReadOnly(r) THEN 0 ELSE 1
      BY <2>3 DEF TypeOK
    <3>2. CASE ReadOnly(r)
      <4>1. applied'[r] = applied[r] /\ applied'[r] >= applied[r]
        BY <1>0, <3>1, <3>2
      <4> QED
        BY <2>1, <4>1, Zenon
    <3>3. CASE ~ ReadOnly(r)
      <4>1. applied'[r] = applied[r] + 1 /\ applied'[r] >= applied[r]
        BY <1>0, <3>1, <3>3
      <4> QED
        BY <1>2, <2>1, <2>3, <3>3, <4>1, Zenon
    <3> QED
      BY <3>2, <3>3, Zenon
  <2> QED
    BY <1>2, <2>2, <2>3, Zenon DEF FdbServeCommit
<1>3. CASE FdbServeRead(r)
  BY <1>0, <1>3 DEF FdbServeRead, TypeOK
<1> QED
  BY <1>1, <1>2, <1>3, Zenon DEF RunStep, zf_zonetick_run, FdbServeOnError, zt_on_range_read,
     zt_on_commit, zt_on_error_retry, Crash

\* What a run's own step does to the calls of done_cb.
LEMMA DoneSteps ==
  ASSUME TypeOK, NEW r \in Runs, RunStep(r)
  PROVE  \/ done'[r] = done[r]
         \/ done'[r] = Append(done[r], FALSE)
         \/ /\ done'[r] = Append(done[r], TRUE)
            /\ fut[r].op = "commit" /\ fut[r].ready /\ fut[r].err = "ok"
<1>1. ASSUME NEW ok \in BOOLEAN, zt_finish(r, ok) PROVE done'[r] = Append(done[r], ok)
  BY <1>1 DEF zt_finish, TypeOK
<1>2. zt_start_range_read(r) => done'[r] = done[r] \/ done'[r] = Append(done[r], FALSE)
  BY <1>1, Zenon DEF zt_start_range_read
<1>3. CASE \E z \in Zones, n \in TickCounts : zf_zonetick_run(r, z, n)
  BY <1>2, <1>3, Zenon DEF zf_zonetick_run
<1>4. CASE zt_on_error_retry(r)
  BY <1>2, <1>4, Zenon DEF zt_on_error_retry
<1>5. CASE zt_on_range_read(r)
  BY <1>1, <1>5, Zenon DEF zt_on_range_read
<1>6. CASE zt_on_commit(r)
  BY <1>1, <1>6, Zenon DEF zt_on_commit, Callback
<1>7. CASE FdbServeRead(r) \/ FdbServeCommit(r) \/ FdbServeOnError(r) \/ Crash(r)
  BY <1>7, Zenon DEF FdbServeRead, FdbServeCommit, FdbServeOnError, Crash
<1> QED
  BY <1>3, <1>4, <1>5, <1>6, <1>7, Zenon DEF RunStep

\* A report of a run's own step is true.
LEMMA OkRun ==
  ASSUME TypeOK, Lifecycle, NEW r \in Runs, DataOf(r), OkOf(r), RunStep(r)
  PROVE  OkOf(r)'
<1>1. applied[r] > 0 \/ sawEmpty[r] => applied'[r] > 0 \/ sawEmpty'[r]
  <2>1. applied[r] \in Nat /\ (applied'[r] = applied[r] \/ applied'[r] = applied[r] + 1)
    BY AppliedSteps DEF TypeOK
  <2>2. CASE sawEmpty[r]
    BY <2>2, AppliedSteps, Zenon
  <2>3. CASE applied[r] > 0
    BY <2>1, <2>3
  <2> QED
    BY <2>2, <2>3, Zenon
<1>2. done[r] \in Seq(BOOLEAN)
  BY DEF TypeOK
<1>3. CASE done'[r] = done[r]
  BY <1>1, <1>3, Zenon DEF OkOf
<1>4. ASSUME NEW ok \in BOOLEAN, done'[r] = Append(done[r], ok),
             TRUE \in {done'[r][i] : i \in 1 .. Len(done'[r])}
      PROVE  ok = TRUE \/ TRUE \in {done[r][i] : i \in 1 .. Len(done[r])}
  <2>1. /\ Len(done[r]) \in Nat /\ Len(done'[r]) = Len(done[r]) + 1
        /\ \A i \in 1 .. Len(done[r]) : done'[r][i] = done[r][i]
        /\ done'[r][Len(done[r]) + 1] = ok
    BY <1>2, <1>4
  <2>2. PICK i \in 1 .. Len(done'[r]) : done'[r][i] = TRUE
    BY <1>4, Zenon
  <2>3. CASE i = Len(done[r]) + 1
    BY <2>1, <2>2, <2>3, Zenon
  <2>4. CASE i \in 1 .. Len(done[r])
    BY <2>1, <2>2, <2>4, Zenon
  <2>5. i \in 1 .. (Len(done[r]) + 1)
    BY <2>1
  <2>6. i = Len(done[r]) + 1 \/ i \in 1 .. Len(done[r])
    BY <2>1, <2>5
  <2> QED
    BY <2>3, <2>4, <2>6, Zenon
<1>5. CASE done'[r] = Append(done[r], FALSE)
  BY <1>1, <1>4, <1>5, Zenon DEF OkOf
<1>6. CASE fut[r].op = "commit" /\ fut[r].ready /\ fut[r].err = "ok"
  BY <1>1, <1>6 DEF DataOf, AnswersOf, OkOf
<1> QED
  BY <1>3, <1>5, <1>6, DoneSteps, Zenon

\* OkMeansApplied is kept by every step.
LEMMA OkStep ==
  ASSUME TypeOK, Lifecycle, \A r \in Runs : DataOf(r), \A r \in Runs : OkOf(r), [Next]_vars
  PROVE  \A r \in Runs : OkOf(r)'
<1> SUFFICES ASSUME NEW q \in Runs PROVE OkOf(q)'
  OBVIOUS
<1>1. OkOf(q)
  OBVIOUS
<1>2. ASSUME NEW r \in Runs, RunStep(r), r # q PROVE OkOf(q)'
  BY <1>1, <1>2, OthersUntouched, Zenon DEF OkOf
<1>3. ASSUME NEW z \in Zones, NEW n \in SeedCounts, seed_entities(z, n) PROVE OkOf(q)'
  BY <1>1, <1>3, Zenon DEF seed_entities, OkOf
<1>4. CASE UNCHANGED vars
  BY <1>1, <1>4, Zenon DEF vars, OkOf
<1>5. ASSUME RunStep(q) PROVE OkOf(q)'
  BY <1>1, <1>5, OkRun
<1> QED
  BY <1>2, <1>3, <1>4, <1>5, NextCases

-----------------------------------------------------------------------------
(* Rows keep to the course of their key.                                   *)

\* Seeded and not yet moved is on course.
LEMMA SeededOn ==
  ASSUME NEW e \in Entities
  PROVE  OnCourseOf(e, zf_kv_decode_entity(Seeded(e)))
<1>1. Seeded(e).ev \in EntityVal /\ zf_kv_decode_entity(Seeded(e)) = Seeded(e).ev
  BY SeededType DEF Stored, zf_kv_decode_entity, XR_PACKET_SIZE, SizeofEntityVal
<1>2. Seeded(e).ev = Move(Seeded(e).ev, 0)
  BY <1>1, MoveNone
<1>3. 0 \in 0 .. (2 * PosHalf - 1)
  BY DataAssumption
<1> QED
  BY <1>1, <1>2, <1>3, Zenon DEF OnCourseOf

\* A tick of a value keeps it on course, wherever on it the value was.
LEMMA TickedOn ==
  ASSUME NEW e \in Entities, NEW v \in Stored, NEW n \in Nat,
         OnCourseOf(e, zf_kv_decode_entity(v))
  PROVE  OnCourseOf(e, zf_kv_decode_entity(Ticked(v, n)))
<1> DEFINE sv == Seeded(e).ev
           dv == zf_kv_decode_entity(v)
<1>1. sv \in EntityVal
  BY SeededType DEF Stored
<1>2. PICK t \in 0 .. (2 * PosHalf - 1) : dv = Move(sv, t)
  BY DEF OnCourseOf
<1>3. t \in Nat /\ t + n \in Nat
  BY DataAssumption
<1>4. zf_kv_decode_entity(Ticked(v, n)) = Move(dv, n)
  BY DEF Ticked, zf_kv_encode_entity, zf_kv_decode_entity, XR_PACKET_SIZE
<1> HIDE DEF sv, dv
<1>5. Move(dv, n) = Move(sv, t + n)
  BY <1>1, <1>2, <1>3, MoveCompose
<1> DEFINE p == (t + n) % (2 * PosHalf)
<1>6. p \in 0 .. (2 * PosHalf - 1) /\ Move(sv, t + n) = Move(sv, p)
  BY <1>1, <1>3, MovePeriod
<1> HIDE DEF p
<1>7. zf_kv_decode_entity(Ticked(v, n)) = Move(sv, p)
  BY <1>4, <1>5, <1>6
<1> QED
  BY <1>6, <1>7, Zenon DEF OnCourseOf, sv

\* No rows, a part of some rows, and rows written over rows.
LEMMA CourseKept ==
  ASSUME NEW f, NEW g, RowsOn(f), RowsOn(g), NEW keys
  PROVE  RowsOn(NoRows) /\ RowsOn(Rows(f, keys)) /\ RowsOn(Written(f, g))
  BY DEF RowsOn, NoRows, Rows, Written

\* The loop of zt_on_range_read keeps the rows it read on course.
LEMMA CourseLoop ==
  ASSUME NEW f, IsRows(f), RowsOn(f), NEW n \in Nat
  PROVE  RowsOn([k \in DOMAIN f |-> Ticked(f[k], n)])
<1>1. \A k \in DOMAIN f : f[k] \in Stored /\ k[2] \in Entities
  BY DEF IsRows, Keys
<1> QED
  BY <1>1, TickedOn DEF RowsOn

\* RowsOnCourse is kept by every step of a run.
LEMMA CourseRun ==
  ASSUME TypeOK, RowsOnCourse, NEW r \in Runs, RunStep(r)
  PROVE  RowsOn(store') /\ RowsOn(kvs'[r]) /\ RowsOn(writes'[r])
<1>1. RowsOn(store) /\ RowsOn(kvs[r]) /\ RowsOn(writes[r])
  BY DEF RowsOnCourse
<1>2. RowsOn(NoRows)
  BY <1>1, CourseKept
<1>3. \A keys : RowsOn(Rows(store, keys))
  BY <1>1, CourseKept
<1>4. RowsOn(Written(store, writes[r]))
  BY <1>1, CourseKept
<1>5. RowsOn([k \in DOMAIN kvs[r] |-> Ticked(kvs[r][k], args[r].tick_count)])
  BY <1>1, CourseLoop DEF TypeOK
<1>6. ASSUME ResetTr(r), store' = store
      PROVE  RowsOn(store') /\ RowsOn(kvs'[r]) /\ RowsOn(writes'[r])
  BY <1>1, <1>2, <1>6 DEF ResetTr, TypeOK
<1>7. ASSUME zt_start_range_read(r), store' = store
      PROVE  RowsOn(store') /\ RowsOn(kvs'[r]) /\ RowsOn(writes'[r])
  BY <1>1, <1>6, <1>7, Zenon DEF zt_start_range_read, zt_finish
<1>8. CASE \E z \in Zones, n \in TickCounts : zf_zonetick_run(r, z, n)
  BY <1>1, <1>7, <1>8 DEF zf_zonetick_run
<1>9. CASE zt_on_error_retry(r)
  BY <1>7, <1>9 DEF zt_on_error_retry
<1>10. CASE FdbServeRead(r)
  <2>1. store' = store /\ writes' = writes
    BY <1>10 DEF FdbServeRead
  <2>2. kvs' = kvs \/ \E keys : kvs' = [kvs EXCEPT ![r] = Rows(store, keys)]
    BY <1>10 DEF FdbServeRead
  <2>3. kvs'[r] = kvs[r] \/ \E keys : kvs'[r] = Rows(store, keys)
    BY <2>2 DEF TypeOK
  <2> QED
    BY <1>1, <1>3, <2>1, <2>3
<1>11. CASE FdbServeCommit(r)
  BY <1>1, <1>4, <1>11 DEF FdbServeCommit
<1>12. CASE FdbServeOnError(r)
  BY <1>1, <1>6, <1>12 DEF FdbServeOnError
<1>13. CASE zt_on_commit(r)
  BY <1>1, <1>6, <1>13, Zenon DEF zt_on_commit, zt_finish
<1>14. CASE Crash(r)
  BY <1>1, <1>6, <1>14 DEF Crash
<1>15. CASE zt_on_range_read(r)
  <2>1. CASE /\ writes' = [writes EXCEPT ![r] =
                  [k \in DOMAIN kvs[r] |-> Ticked(kvs[r][k], args[r].tick_count)]]
             /\ UNCHANGED <<kvs, store>>
    BY <1>1, <1>5, <2>1 DEF TypeOK
  <2> QED
    BY <1>1, <1>6, <1>15, <2>1, Zenon DEF zt_on_range_read, zt_finish
<1> QED
  BY <1>8, <1>9, <1>10, <1>11, <1>12, <1>13, <1>14, <1>15, Zenon DEF RunStep

\* RowsOnCourse is kept by every step.
LEMMA CourseStep ==
  ASSUME TypeOK, RowsOnCourse, [Next]_vars
  PROVE  RowsOnCourse'
<1>1. ASSUME NEW r \in Runs, RunStep(r) PROVE RowsOnCourse'
  <2>1. \A q \in Runs : q # r => kvs'[q] = kvs[q] /\ writes'[q] = writes[q]
    BY <1>1, OthersUntouched
  <2>2. RowsOn(store') /\ RowsOn(kvs'[r]) /\ RowsOn(writes'[r])
    BY <1>1, CourseRun
  <2> QED
    BY <2>1, <2>2, Zenon DEF RowsOnCourse
<1>2. ASSUME NEW z \in Zones, NEW n \in SeedCounts, seed_entities(z, n)
      PROVE  RowsOnCourse'
  <2>1. RowsOn([k \in SeedKeys(z, n) |-> Seeded(k[2])])
    <3>1. \A k \in SeedKeys(z, n) : k[2] \in Entities
      BY DEF SeedKeys, Keys
    <3> QED
      BY <3>1, SeededOn DEF RowsOn
  <2>2. RowsOn(store')
    BY <1>2, <2>1, CourseKept DEF seed_entities, RowsOnCourse
  <2> QED
    BY <1>2, <2>2 DEF seed_entities, RowsOnCourse
<1>3. CASE UNCHANGED vars
  BY <1>3 DEF vars, RowsOnCourse
<1> QED
  BY <1>1, <1>2, <1>3, NextCases

-----------------------------------------------------------------------------
(* The inductive invariant and what follows from it.                       *)

\* Inv, run by run.
LEMMA InvByRun ==
  Inv <=> /\ TypeOK /\ Lifecycle /\ RowsOnCourse
          /\ \A r \in Runs : DataOf(r)
          /\ \A r \in Runs : OkOf(r)
  BY Zenon DEF Inv, DataOf, ScanOf, TickedOf, CurrentOf, AnswersOf, OkOf, ReadInScan,
         WritesAreTicked, ReadIsCurrent, AnswersAreTrue, OkMeansApplied

\* Inv holds initially.
LEMMA InvInit == Init => Inv
<1> SUFFICES ASSUME Init PROVE Inv
  OBVIOUS
<1>1. TypeOK
  BY TypeInit
<1>2. Lifecycle
  BY DEF Init, Lifecycle, CallbacksHaveContext, DoneOnce, NoFuture
<1>3. RowsOnCourse
  BY NoRowsType DEF Init, RowsOnCourse, RowsOn
<1>4. ASSUME NEW r \in Runs PROVE DataOf(r) /\ OkOf(r)
  <2>1. /\ kvs[r] = NoRows /\ range[r] = {} /\ fut[r].op = "none" /\ done[r] = <<>>
        /\ args[r].z_id \in Zones
    BY <1>1, <1>4 DEF Init, NoFuture, TypeOK
  <2>2. DataOf(r)
    BY <2>1, NoRowsType, Zenon DEF DataOf, ScanOf, TickedOf, CurrentOf, AnswersOf, HoldsRead
  <2>3. 1 .. Len(done[r]) = {}
    BY <2>1
  <2>4. OkOf(r)
    BY <2>3, Zenon DEF OkOf
  <2> QED
    BY <2>2, <2>4
<1> QED
  BY <1>1, <1>2, <1>3, <1>4, InvByRun

\* Inv is kept by every step.
LEMMA InvStep == Inv /\ [Next]_vars => Inv'
<1> SUFFICES ASSUME Inv, [Next]_vars PROVE Inv'
  OBVIOUS
<1>1. /\ TypeOK /\ Lifecycle /\ RowsOnCourse
      /\ \A r \in Runs : DataOf(r)
      /\ \A r \in Runs : OkOf(r)
  BY InvByRun
<1>2. TypeOK'
  BY <1>1, TypeStep
<1>3. Lifecycle'
  BY <1>1, LifecycleStep
<1>4. RowsOnCourse'
  BY <1>1, CourseStep
<1>5. \A r \in Runs : DataOf(r)'
  BY <1>1, DataStep
<1>6. \A r \in Runs : OkOf(r)'
  BY <1>1, OkStep
<1> QED
  BY <1>2, <1>3, <1>4, <1>5, <1>6
    , Zenon DEF Inv, DataOf, ScanOf, TickedOf, CurrentOf, AnswersOf, OkOf, ReadInScan,
         WritesAreTicked, ReadIsCurrent, AnswersAreTrue, OkMeansApplied

\* The inductive invariant of the tick.
THEOREM Invariance == Spec => []Inv
  BY InvInit, InvStep, PTL DEF Spec

\* No callback of the tick's futures ever runs on a context zt_finish freed.
THEOREM ContextSafety == Spec => []CallbacksHaveContext
<1>1. Inv => CallbacksHaveContext
  BY DEF Inv, Lifecycle
<1> QED
  BY <1>1, Invariance, PTL

\* A run that ends has called done_cb once, and one that has not, never.
THEOREM DoneExactlyOnce == Spec => []DoneOnce
<1>1. Inv => DoneOnce
  BY DEF Inv, Lifecycle
<1> QED
  BY <1>1, Invariance, PTL

\* zt_on_commit reports ok only for a tick that took effect or had no entity.
THEOREM OkIsTrue == Spec => []OkMeansApplied
<1>1. Inv => OkMeansApplied
  BY DEF Inv
<1> QED
  BY <1>1, Invariance, PTL

\* Every value of the store is the entity of its key, as seed_entities left it and
\* moved a whole number of ticks.
THEOREM StoreOnCourse == Spec => []OnCourse
<1>1. Inv => OnCourse
  BY DEF Inv, RowsOnCourse, RowsOn, OnCourse
<1> QED
  BY <1>1, Invariance, PTL

\* A read that nothing has invalidated is what the store holds.
THEOREM ReadsStayCurrent == Spec => []ReadIsCurrent
<1>1. Inv => ReadIsCurrent
  BY DEF Inv
<1> QED
  BY <1>1, Invariance, PTL

\* A step that counts as an effect of run r is r's own commit, on a read that
\* is still current, of the tick of that read.
LEMMA EffectStep ==
  ASSUME Inv, [Next]_vars, NEW r \in Runs, applied'[r] # applied[r]
  PROVE  /\ store' = Written(store, writes[r])
         /\ kvs[r] = Rows(store, range[r])
         /\ writes[r] = [k \in DOMAIN kvs[r] |-> Ticked(kvs[r][k], args[r].tick_count)]
         /\ range[r] \subseteq ScanKeys[args[r].z_id]
<1>1. TypeOK /\ DataOf(r)
  BY InvByRun
<1>2. RunStep(r)
  <2>1. ASSUME NEW q \in Runs, RunStep(q), q # r PROVE FALSE
    BY <1>1, <2>1, OthersUntouched
  <2>2. ~ \E z \in Zones, n \in SeedCounts : seed_entities(z, n)
    BY Zenon DEF seed_entities
  <2>3. ~ UNCHANGED vars
    BY DEF vars
  <2> QED
    BY <2>1, <2>2, <2>3, NextCases
<1>3. /\ ~ stale[r] /\ fut[r].op = "commit" /\ ~ fut[r].ready
      /\ store' = Written(store, writes[r])
  BY <1>1, <1>2, AppliedSteps
<1>4. HoldsRead(r)
  BY <1>3 DEF HoldsRead
<1> QED
  BY <1>1, <1>3, <1>4 DEF DataOf, CurrentOf, TickedOf, ScanOf

\* Ticks that interleave in any way, with each other, with seedings and with
\* the commits of dead processes, lose no update of the store.
THEOREM LosesNoUpdate == Spec => NoLostUpdate
<1>1. ASSUME Inv, [Next]_vars, NEW r \in Runs, applied'[r] # applied[r]
      PROVE  MovesCurrent(r)
  <2>1. /\ store' = Written(store, writes[r])
        /\ kvs[r] = Rows(store, range[r])
        /\ writes[r] = [k \in DOMAIN kvs[r] |-> Ticked(kvs[r][k], args[r].tick_count)]
    BY <1>1, EffectStep, Zenon
  <2>2. DOMAIN writes[r] = DOMAIN store \cap range[r]
    BY <2>1 DEF Rows
  <2>3. \A k \in DOMAIN writes[r] : writes[r][k] = Ticked(store[k], args[r].tick_count)
    BY <2>1, <2>2 DEF Rows
  <2>4. /\ DOMAIN store' = DOMAIN store \cup DOMAIN writes[r]
        /\ \A k \in DOMAIN store :
              store'[k] = IF k \in DOMAIN writes[r] THEN writes[r][k] ELSE store[k]
    BY <2>1 DEF Written
  <2>5. DOMAIN store' = DOMAIN store
    BY <2>2, <2>4
  <2> QED
    BY <2>3, <2>4, <2>5 DEF MovesCurrent
<1>2. Inv /\ [Next]_vars =>
        [\A r \in Runs : applied'[r] # applied[r] => MovesCurrent(r)]_vars
  BY <1>1
<1> QED
  BY <1>2, Invariance, PTL DEF Spec, NoLostUpdate

\* The keys a zone's scan covers are the zone's own, for any zone and entity ids.
LEMMA ScanStaysInZone ==
  ASSUME NEW z \in Zones, NEW k \in ScanKeys[z]
  PROVE  k[1] = z
<1>1. /\ k \in Keys
      /\ InEntityRange(z, zf_kv_entity_key(k[1], k[2]))
  BY DEF ScanKeys
<1>2. k[1] \in U32 /\ k[2] \in U32 /\ z \in U32
  BY <1>1, TickAssumption DEF Keys
<1> QED
  BY <1>1, <1>2, ScanIsolation

\* A tick writes no key of another zone.
THEOREM TicksStayInZone == Spec => ZoneIsolation
<1>1. ASSUME Inv, [Next]_vars, NEW r \in Runs, applied'[r] # applied[r],
             NEW k \in DOMAIN store, k[1] # args[r].z_id
      PROVE  store'[k] = store[k]
  <2>1. /\ store' = Written(store, writes[r])
        /\ kvs[r] = Rows(store, range[r])
        /\ writes[r] = [j \in DOMAIN kvs[r] |-> Ticked(kvs[r][j], args[r].tick_count)]
        /\ range[r] \subseteq ScanKeys[args[r].z_id]
    BY <1>1, EffectStep, Zenon
  <2>2. DOMAIN writes[r] \subseteq ScanKeys[args[r].z_id]
    BY <2>1, Zenon DEF Rows
  <2>3. args[r].z_id \in Zones
    BY <1>1 DEF Inv, TypeOK
  <2>4. k \notin DOMAIN writes[r]
    BY <1>1, <2>2, <2>3, ScanStaysInZone
  <2> QED
    BY <2>1, <2>4 DEF Written
<1>2. Inv /\ [Next]_vars =>
        [\A r \in Runs : applied'[r] # applied[r] =>
           \A k \in DOMAIN store : k[1] # args[r].z_id => store'[k] = store[k]]_vars
  BY <1>1
<1> QED
  BY <1>2, Invariance, PTL DEF Spec, ZoneIsolation

-----------------------------------------------------------------------------
(* Where no answer to a commit is lost, a tick takes effect once.          *)

\* A run that has taken effect has only the good answer left to receive.
OnceOf(r) ==
    \/ applied[r] = 0
    \/ /\ applied[r] = 1
       /\ \/ fut[r].op = "commit" /\ fut[r].ready /\ fut[r].err = "ok"
          \/ fut[r].op = "none" /\ ctx[r] # "idle"

\* A run's own step keeps OnceOf when no answer is lost.
LEMMA OnceRun ==
  ASSUME "commit_unknown" \notin Faults, TypeOK, Lifecycle,
         NEW r \in Runs, OnceOf(r), RunStep(r)
  PROVE  OnceOf(r)'
<1>1. applied[r] \in Nat /\ fut[r] \in Futures
  BY DEF TypeOK
<1>2. CASE FdbServeCommit(r)
  <2>1. applied[r] = 0
    BY <1>2, StepGuards DEF OnceOf
  <2>2. CASE UNCHANGED applied
    BY <2>1, <2>2 DEF OnceOf
  <2>3. CASE /\ applied' = [applied EXCEPT ![r] = @ + IF ReadOnly(r) THEN 0 ELSE 1]
             /\ fut[r].op = "commit"
             /\ Answer(r, "ok")
    <3>1. applied'[r] = 0 \/ applied'[r] = 1
      BY <2>1, <2>3 DEF TypeOK
    <3>2. fut'[r] = Ready("commit", "ok")
      BY <2>3 DEF Answer, TypeOK
    <3> QED
      BY <3>1, <3>2 DEF OnceOf, Ready
  <2>4. fut[r].op = "commit" /\ ~ Fault("commit_unknown")
    BY <1>2, StepGuards, Zenon DEF Fault
  <2> QED
    BY <1>2, <2>2, <2>3, <2>4, Zenon DEF FdbServeCommit
<1>3. CASE applied[r] = 0 /\ ~ FdbServeCommit(r)
  BY <1>3, AppliedSteps DEF OnceOf
<1>4. CASE applied[r] = 1 /\ fut[r].op = "none" /\ ctx[r] # "idle"
  <2>1. Crash(r)
    BY <1>4, StepGuards, Zenon DEF RunStep
  <2>2. fut'[r].op = "none" /\ ctx'[r] = "crashed" /\ applied' = applied
    BY <1>4, <2>1 DEF Crash, DropFuture, NoFuture, TypeOK
  <2> QED
    BY <1>4, <2>2 DEF OnceOf
<1>5. CASE applied[r] = 1 /\ fut[r].op = "commit" /\ fut[r].ready /\ fut[r].err = "ok"
  <2>0. ctx[r] # "idle"
    BY <1>5 DEF Lifecycle, CallbacksHaveContext
  <2>1. zt_on_commit(r) \/ Crash(r)
    BY <1>5, <2>0, StepGuards, Zenon DEF RunStep
  <2>2. CASE zt_on_commit(r)
    <3>1. DropFuture(r) /\ zt_finish(r, TRUE) /\ applied' = applied
      BY <1>5, <2>2, Zenon DEF zt_on_commit
    <3>2. fut'[r].op = "none" /\ ctx'[r] = "freed"
      BY <3>1 DEF DropFuture, NoFuture, zt_finish, TypeOK
    <3> QED
      BY <1>5, <3>1, <3>2 DEF OnceOf
  <2>3. CASE Crash(r)
    <3>1. DropFuture(r) /\ ctx' = [ctx EXCEPT ![r] = "crashed"] /\ applied' = applied
      BY <1>5, <2>3 DEF Crash, Submitted
    <3>2. fut'[r].op = "none" /\ ctx'[r] = "crashed"
      BY <3>1 DEF DropFuture, NoFuture, TypeOK
    <3> QED
      BY <1>5, <3>1, <3>2 DEF OnceOf
  <2> QED
    BY <2>1, <2>2, <2>3
<1> QED
  BY <1>1, <1>2, <1>3, <1>4, <1>5, Zenon DEF OnceOf

\* OnceOf is kept by every step when no answer is lost.
LEMMA OnceStep ==
  ASSUME "commit_unknown" \notin Faults, Inv, \A r \in Runs : OnceOf(r), [Next]_vars
  PROVE  \A r \in Runs : OnceOf(r)'
<1> SUFFICES ASSUME NEW q \in Runs PROVE OnceOf(q)'
  OBVIOUS
<1>1. OnceOf(q) /\ TypeOK /\ Lifecycle
  BY DEF Inv
<1>2. ASSUME NEW r \in Runs, RunStep(r), r # q PROVE OnceOf(q)'
  BY <1>1, <1>2, OthersUntouched DEF OnceOf
<1>3. ASSUME NEW z \in Zones, NEW n \in SeedCounts, seed_entities(z, n) PROVE OnceOf(q)'
  BY <1>1, <1>3 DEF seed_entities, OnceOf
<1>4. CASE UNCHANGED vars
  BY <1>1, <1>4 DEF vars, OnceOf
<1>5. ASSUME RunStep(q) PROVE OnceOf(q)'
  BY <1>1, <1>5, OnceRun
<1> QED
  BY <1>2, <1>3, <1>4, <1>5, NextCases

\* Where the cluster never loses the answer to a commit that took effect, the
\* retries of zt_on_error_retry apply a tick at most once.  The assumption is
\* needed: with lost answers AtMostOnce fails.
THEOREM OnceUnlessUnknown ==
  ASSUME "commit_unknown" \notin Faults
  PROVE  Spec => []AtMostOnce
<1> DEFINE Once == \A r \in Runs : OnceOf(r)
<1>1. Init => Once
  BY DEF Init, OnceOf
<1>2. Inv /\ Once /\ [Next]_vars => Once'
  BY OnceStep
<1>3. Once => AtMostOnce
  BY DEF OnceOf, AtMostOnce
<1> HIDE DEF Once
<1> QED
  BY <1>1, <1>2, <1>3, Invariance, PTL DEF Spec

-----------------------------------------------------------------------------
(* The tick implements ZoneStore, where no answer is lost and a reply      *)
(* holds the whole zone.                                                   *)

\* Whatever entities of a zone exist fit one reply, and every e_id lies inside its
\* zone's scan.
RepliesAreWhole ==
    /\ \A z \in Zones : \A hits \in SUBSET ScanKeys[z] : Cardinality(hits) =< ReadLimit
    /\ \A e \in Entities : zf_kv_encode_u32_be(e)[1] # Base - 1

\* A scan covers exactly its zone, and a reply all of it.
LEMMA WholeReply ==
  ASSUME RepliesAreWhole, NEW z \in Zones
  PROVE  /\ ScanKeys[z] = {k \in Keys : k[1] = z}
         /\ \A s : ReadRange(s, z) = ScanKeys[z]
<1>1. ScanKeys[z] = {k \in Keys : InEntityRange(z, zf_kv_entity_key(k[1], k[2]))}
  BY DEF ScanKeys
<1>2. ASSUME NEW k \in Keys, k[1] = z PROVE InEntityRange(z, zf_kv_entity_key(k[1], k[2]))
  <2>1. z \in U32 /\ k[2] \in Entities /\ k[2] \in U32
    BY TickAssumption DEF Keys
  <2> QED
    BY <1>2, <2>1, ScanFinds DEF RepliesAreWhole
<1>3. ScanKeys[z] = {k \in Keys : k[1] = z}
  BY <1>1, <1>2, ScanStaysInZone
<1>4. ASSUME NEW s PROVE Cardinality(ScanKeys[z] \cap DOMAIN s) =< ReadLimit
  BY DEF RepliesAreWhole
<1> QED
  BY <1>3, <1>4 DEF ReadRange

\* What a run is about to commit was read from the whole zone, and a dead process
\* has nothing under way but a commit.
WholeOf(r) ==
    /\ HoldsRead(r) => range[r] = ScanKeys[args[r].z_id]
    /\ ctx[r] = "crashed" => fut[r].op \in {"none", "commit"}

\* A future that is no read's good answer and no pending commit promises nothing.
LEMMA WholeIdle ==
  ASSUME NEW r \in Runs,
         \/ fut'[r].op = "none"
         \/ ctx'[r] # "crashed" /\ fut'[r].op = "on_error"
         \/ ctx'[r] # "crashed" /\ fut'[r].op = "range" /\ (~ fut'[r].ready \/ fut'[r].err # "ok")
         \/ fut'[r].op = "commit" /\ fut'[r].ready
  PROVE  WholeOf(r)'
  BY DEF WholeOf, HoldsRead

\* A run's own step keeps WholeOf.
LEMMA WholeRun ==
  ASSUME RepliesAreWhole, TypeOK, Lifecycle, NEW r \in Runs, WholeOf(r), RunStep(r)
  PROVE  WholeOf(r)'
<1>1. /\ fut[r] \in Futures /\ args[r].z_id \in Zones
      /\ fut[r].op # "none" => ctx[r] \in {"live", "crashed"}
  BY DEF TypeOK, Lifecycle, CallbacksHaveContext
<1>2. ASSUME DropFuture(r) PROVE WholeOf(r)'
  <2>1. fut'[r].op = "none"
    BY <1>2 DEF DropFuture, NoFuture, TypeOK
  <2> QED
    BY <2>1, WholeIdle
<1>3. ASSUME zt_start_range_read(r) PROVE WholeOf(r)'
  <2>1. CASE submit_future(r, "range", "ok") /\ ctx' = [ctx EXCEPT ![r] = "live"]
    <3>1. ctx'[r] = "live" /\ fut'[r].op = "range" /\ ~ fut'[r].ready
      BY <2>1 DEF submit_future, Submitted, TypeOK
    <3> QED
      BY <3>1, WholeIdle
  <2> QED
    BY <1>2, <1>3, <2>1, Zenon DEF zt_start_range_read
<1>4. ASSUME NEW err, fdb_handle_error(r, err), ctx' = ctx, ctx[r] # "crashed" PROVE WholeOf(r)'
  <2>1. CASE submit_future(r, "on_error", err)
    <3>1. fut'[r].op = "on_error" /\ ctx'[r] # "crashed"
      BY <1>4, <2>1 DEF submit_future, Submitted, TypeOK
    <3> QED
      BY <3>1, WholeIdle
  <2> QED
    BY <1>2, <1>4, <2>1, Zenon DEF fdb_handle_error
<1>5. CASE \E z \in Zones, n \in TickCounts : zf_zonetick_run(r, z, n)
  <2>1. CASE zt_start_range_read(r)
    BY <1>3, <2>1
  <2>2. CASE UNCHANGED fut
    <3>1. fut[r].op = "none"
      BY <1>1, <1>5 DEF zf_zonetick_run
    <3>2. fut'[r].op = "none"
      BY <2>2, <3>1
    <3> QED
      BY <3>2, WholeIdle
  <2> QED
    BY <1>5, <2>1, <2>2, Zenon DEF zf_zonetick_run
<1>6. CASE FdbServeRead(r)
  <2>1. fut[r].op = "range" /\ ctx'[r] = ctx[r] /\ args' = args /\ fut[r].op # "commit"
    BY <1>6, StepGuards DEF FdbServeRead
  <2>2. ctx'[r] # "crashed"
    BY <2>1 DEF WholeOf
  <2>3. CASE range' = [range EXCEPT ![r] = ReadRange(store, args[r].z_id)]
    <3>1. range'[r] = ScanKeys[args'[r].z_id]
      BY <1>1, <2>1, <2>3, WholeReply DEF TypeOK
    <3> QED
      BY <2>2, <3>1 DEF WholeOf
  <2>4. ASSUME NEW err \in {"retryable", "fatal"}, Answer(r, err) PROVE WholeOf(r)'
    <3>1. fut'[r].op = "range" /\ fut'[r].err # "ok"
      BY <2>1, <2>4 DEF Answer, Ready, TypeOK
    <3> QED
      BY <2>2, <3>1, WholeIdle
  <2> QED
    BY <1>6, <2>3, <2>4, Zenon DEF FdbServeRead
<1>7. CASE FdbServeCommit(r)
  <2>1. fut[r].op = "commit"
    BY <1>7, StepGuards
  <2>2. \E err : Answer(r, err)
    BY <1>7, Zenon DEF FdbServeCommit
  <2>3. fut'[r].op = "commit" /\ fut'[r].ready
    BY <2>1, <2>2 DEF Answer, Ready, TypeOK
  <2> QED
    BY <2>3, WholeIdle
<1>8. CASE FdbServeOnError(r)
  <2>1. fut[r].op = "on_error" /\ ctx' = ctx
    BY <1>8, Zenon DEF FdbServeOnError
  <2>2. \E err : Answer(r, err)
    BY <1>8, Zenon DEF FdbServeOnError
  <2>3. fut'[r].op = "on_error" /\ ctx'[r] # "crashed"
    BY <2>1, <2>2 DEF Answer, Ready, TypeOK, WholeOf
  <2> QED
    BY <2>3, WholeIdle
<1>9. CASE zt_on_range_read(r)
  <2>1. ctx[r] # "crashed" /\ fut[r].op = "range" /\ fut[r].ready /\ args' = args
    BY <1>9, Zenon DEF zt_on_range_read, Callback
  <2>2. CASE fut[r].err = "ok" /\ UNCHANGED <<ctx, range>>
    <3>1. range[r] = ScanKeys[args[r].z_id]
      BY <2>1, <2>2, Zenon DEF WholeOf, HoldsRead
    <3>2. range'[r] = ScanKeys[args'[r].z_id] /\ ctx'[r] # "crashed"
      BY <2>1, <2>2, <3>1
    <3> QED
      BY <3>2 DEF WholeOf
  <2> QED
    BY <1>2, <1>4, <1>9, <2>1, <2>2, Zenon DEF zt_on_range_read
<1>10. CASE zt_on_commit(r)
  <2>1. ctx[r] # "crashed"
    BY <1>10, Zenon DEF zt_on_commit, Callback
  <2> QED
    BY <1>2, <1>4, <1>10, <2>1, Zenon DEF zt_on_commit
<1>11. CASE zt_on_error_retry(r)
  BY <1>3, <1>11 DEF zt_on_error_retry
<1>12. CASE Crash(r)
  <2>1. CASE fut[r] = Submitted("commit", "ok") /\ UNCHANGED <<fut, range, args>>
    BY <2>1 DEF WholeOf, HoldsRead, Submitted
  <2> QED
    BY <1>2, <1>12, <2>1, Zenon DEF Crash
<1> QED
  BY <1>5, <1>6, <1>7, <1>8, <1>9, <1>10, <1>11, <1>12 DEF RunStep

\* WholeOf is kept by every step.
LEMMA WholeStep ==
  ASSUME RepliesAreWhole, Inv, \A r \in Runs : WholeOf(r), [Next]_vars
  PROVE  \A r \in Runs : WholeOf(r)'
<1> SUFFICES ASSUME NEW q \in Runs PROVE WholeOf(q)'
  OBVIOUS
<1>1. WholeOf(q) /\ TypeOK /\ Lifecycle
  BY DEF Inv
<1>2. ASSUME NEW r \in Runs, RunStep(r), r # q PROVE WholeOf(q)'
  BY <1>1, <1>2, OthersUntouched DEF WholeOf, HoldsRead
<1>3. ASSUME NEW z \in Zones, NEW n \in SeedCounts, seed_entities(z, n) PROVE WholeOf(q)'
  BY <1>1, <1>3 DEF seed_entities, WholeOf, HoldsRead
<1>4. CASE UNCHANGED vars
  BY <1>1, <1>4 DEF vars, WholeOf, HoldsRead
<1>5. ASSUME RunStep(q) PROVE WholeOf(q)'
  BY <1>1, <1>5, WholeRun
<1> QED
  BY <1>2, <1>3, <1>4, <1>5, NextCases

\* The two components of the refinement mapping, run by run.
StatusOf(r) ==
    CASE ctx[r] = "live" -> "running"
      [] ctx[r] = "freed" -> IF TRUE \in {done[r][i] : i \in 1 .. Len(done[r])}
                             THEN "ok" ELSE "failed"
      [] OTHER -> ctx[r]

EffectOf(r) == CASE applied[r] > 0 -> "applied"
                 [] applied[r] = 0 /\ sawEmpty[r] -> "empty"
                 [] OTHER -> "none"

\* A step of one run changes no other run's part of the mapping.
LEMMA MappingOthers ==
  ASSUME TypeOK, NEW r \in Runs, RunStep(r)
  PROVE  /\ Status' = [Status EXCEPT ![r] = StatusOf(r)']
         /\ Effect' = [Effect EXCEPT ![r] = EffectOf(r)']
<1>1. \A q \in Runs : q # r => StatusOf(q)' = StatusOf(q) /\ EffectOf(q)' = EffectOf(q)
  BY OthersUntouched, Zenon DEF StatusOf, EffectOf
<1>2. /\ Status = [q \in Runs |-> StatusOf(q)] /\ Status' = [q \in Runs |-> StatusOf(q)']
      /\ Effect = [q \in Runs |-> EffectOf(q)] /\ Effect' = [q \in Runs |-> EffectOf(q)']
  BY Zenon DEF Status, StatusOf, Effect, EffectOf
<1> QED
  BY <1>1, <1>2

\* What a run has done is decided by the two history variables.
LEMMA EffectValues ==
  ASSUME TypeOK, NEW r \in Runs
  PROVE  /\ EffectOf(r) = "applied" <=> applied[r] > 0
         /\ EffectOf(r) = "none" <=> applied[r] = 0 /\ ~ sawEmpty[r]
         /\ EffectOf(r) = "empty" <=> applied[r] = 0 /\ sawEmpty[r]
<1>1. applied[r] \in Nat
  BY DEF TypeOK
<1>2. CASE applied[r] > 0
  BY <1>1, <1>2 DEF EffectOf
<1>3. CASE applied[r] = 0 /\ sawEmpty[r]
  BY <1>1, <1>3 DEF EffectOf
<1>4. CASE applied[r] = 0 /\ ~ sawEmpty[r]
  BY <1>1, <1>4 DEF EffectOf
<1> QED
  BY <1>1, <1>2, <1>3, <1>4

\* The status of a run that has not ended, or ends in this step.
LEMMA StatusValues ==
  ASSUME TypeOK, Lifecycle, NEW r \in Runs
  PROVE  /\ ctx[r] = "live" => StatusOf(r) = "running"
         /\ ctx[r] \in {"idle", "refused", "crashed"} => StatusOf(r) = ctx[r]
         /\ ctx[r] # "freed" =>
               \A ok \in BOOLEAN : zt_finish(r, ok) =>
                   StatusOf(r)' = IF ok THEN "ok" ELSE "failed"
<1>1. ctx[r] = "live" => StatusOf(r) = "running"
  BY DEF StatusOf
<1>2. ctx[r] \in {"idle", "refused", "crashed"} => StatusOf(r) = ctx[r]
  BY DEF StatusOf
<1>3. ASSUME ctx[r] # "freed", NEW ok \in BOOLEAN, zt_finish(r, ok)
      PROVE  StatusOf(r)' = IF ok THEN "ok" ELSE "failed"
  <2>1. done[r] \in Seq(BOOLEAN) /\ Len(done[r]) = 0
    BY <1>3 DEF TypeOK, Lifecycle, DoneOnce
  <2>2. ctx'[r] = "freed" /\ done'[r] = Append(done[r], ok)
    BY <1>3 DEF zt_finish, TypeOK
  <2>3. Len(done'[r]) = 1 /\ done'[r][1] = ok /\ 1 .. Len(done'[r]) = {1}
    BY <2>1, <2>2
  <2>4. TRUE \in {done'[r][i] : i \in 1 .. Len(done'[r])} <=> ok
    BY <2>3, Zenon
  <2>5. CASE ok
    BY <2>2, <2>4, <2>5, Zenon DEF StatusOf
  <2>6. CASE ~ ok
    BY <2>2, <2>4, <2>6, Zenon DEF StatusOf
  <2> QED
    BY <2>5, <2>6
<1> QED
  BY <1>1, <1>2, <1>3

\* ZoneStore takes what a tick does to one value, and what a seeding stores, from
\* the same module.
LEMMA SameData ==
  /\ \A v, n : ZS!Ticked(v, n) = Ticked(v, n)
  /\ \A e : ZS!Seeded(e) = Seeded(e)
<1>1. /\ \A v, n : ZS!zf_kv_encode_entity(v, n) = zf_kv_encode_entity(v, n)
      /\ \A v : ZS!zf_kv_decode_entity(v) = zf_kv_decode_entity(v)
      /\ ZS!XR_PACKET_SIZE = XR_PACKET_SIZE /\ ZS!SizeofEntityVal = SizeofEntityVal
  BY DEF ZS!zf_kv_encode_entity, zf_kv_encode_entity, ZS!zf_kv_decode_entity,
         zf_kv_decode_entity, ZS!XR_PACKET_SIZE, XR_PACKET_SIZE, ZS!SizeofEntityVal,
         SizeofEntityVal, ZS!ZeroEntity, ZeroEntity
<1>2. \A ev, n : ZS!Move(ev, n) = Move(ev, n)
  BY DEF ZS!Move, Move, ZS!Wrap64, Wrap64, ZS!vel_to_um_per_tick, vel_to_um_per_tick,
         ZS!TruncDiv, TruncDiv
<1> QED
  BY <1>1, <1>2 DEF ZS!Ticked, Ticked, ZS!Seeded, Seeded

\* Putting in the tick of what the store holds for the zone is TickZone.
LEMMA WriteIsTick ==
  ASSUME RepliesAreWhole, IsRows(store), NEW z \in Zones, NEW n, NEW w,
         w = [k \in DOMAIN Rows(store, ScanKeys[z]) |-> Ticked(Rows(store, ScanKeys[z])[k], n)]
  PROVE  Written(store, w) = ZS!TickZone(store, z, n)
<1>1. DOMAIN store \subseteq Keys
  BY DEF IsRows
<1>2. ScanKeys[z] = {k \in Keys : k[1] = z}
  BY WholeReply
<1>3. ZS!ZoneOf(z) = ScanKeys[z]
  BY <1>2 DEF ZS!ZoneOf, ZS!Keys, Keys
<1>4. /\ DOMAIN w = DOMAIN store \cap ScanKeys[z]
      /\ \A k \in DOMAIN w : w[k] = Ticked(store[k], n)
  BY DEF Rows
<1>5. DOMAIN store \cup DOMAIN w = DOMAIN store
  BY <1>4
<1>6. \A k \in DOMAIN store : k \in DOMAIN w <=> k \in ZS!ZoneOf(z)
  BY <1>3, <1>4
<1> QED
  BY <1>4, <1>5, <1>6, SameData DEF Written, ZS!TickZone

\* Writing nothing changes nothing.
LEMMA WriteNothing ==
  ASSUME IsRows(store), NEW w, DOMAIN w = {}
  PROVE  Written(store, w) = store
  BY DEF Written, IsRows

Promised == ZS!Next \/ UNCHANGED ZS!vars

\* What the rest of the mapping keeps.
LEMMA MappingKept ==
  /\ UNCHANGED <<ctx, done>> => Status' = Status
  /\ UNCHANGED <<applied, sawEmpty>> => Effect' = Effect
<1>1. ASSUME UNCHANGED <<ctx, done>> PROVE Status' = Status
  BY <1>1 DEF Status
<1>2. ASSUME UNCHANGED <<applied, sawEmpty>> PROVE Effect' = Effect
  BY <1>2 DEF Effect
<1> QED
  BY <1>1, <1>2

\* A run that ends without an effect reports a failure; one that starts over
\* does nothing yet.
LEMMA EndsOrRetries ==
  ASSUME Inv, NEW r \in Runs, RunStep(r), ctx[r] = "live", applied[r] = 0,
         UNCHANGED <<args, store, applied, sawEmpty>>
  PROVE  /\ zt_finish(r, FALSE) => Promised
         /\ zt_start_range_read(r) => Promised
<1>1. TypeOK /\ Lifecycle
  BY DEF Inv
<1>2. Effect' = Effect
  BY MappingKept
<1>3. Status[r] = "running" /\ Effect[r] # "applied"
  BY <1>1, StatusValues, EffectValues DEF Status, StatusOf, Effect, EffectOf
<1>4. ASSUME zt_finish(r, FALSE) PROVE Promised
  <2>1. StatusOf(r)' = "failed"
    BY <1>1, <1>4, StatusValues
  <2>2. Status' = [Status EXCEPT ![r] = "failed"]
    BY <1>1, <2>1, MappingOthers
  <2>3. ZS!ReportFailure(r)
    BY <1>2, <1>3, <2>2 DEF ZS!ReportFailure
  <2> QED
    BY <2>3 DEF Promised, ZS!Next
<1>5. ASSUME zt_start_range_read(r) PROVE Promised
  <2>1. CASE ctx' = [ctx EXCEPT ![r] = "live"] /\ done' = done
    <3>1. ctx' = ctx
      BY <1>1, <2>1 DEF TypeOK
    <3>2. Status' = Status
      BY <2>1, <3>1, MappingKept
    <3> QED
      BY <1>2, <3>2 DEF Promised, ZS!vars
  <2> QED
    BY <1>4, <1>5, <2>1, Zenon DEF zt_start_range_read
<1> QED
  BY <1>4, <1>5

\* Every step of a run is a step ZoneStore allows, or none.
LEMMA RunIsPromised ==
  ASSUME "commit_unknown" \notin Faults, RepliesAreWhole, Inv,
         NEW r \in Runs, OnceOf(r), WholeOf(r), RunStep(r)
  PROVE  Promised
<1>1. TypeOK /\ Lifecycle /\ DataOf(r) /\ IsRows(store) /\ args[r].z_id \in Zones
  BY InvByRun DEF TypeOK
<1>2. applied[r] \in Nat /\ fut[r] \in Futures
  BY <1>1 DEF TypeOK
<1>3. Status[r] = StatusOf(r) /\ Effect[r] = EffectOf(r)
  BY DEF Status, StatusOf, Effect, EffectOf
<1>4. /\ Status' = [Status EXCEPT ![r] = StatusOf(r)']
      /\ Effect' = [Effect EXCEPT ![r] = EffectOf(r)']
  BY <1>1, MappingOthers
<1>5. \A op \in {"range", "on_error"} : fut[r].op = op => ctx[r] = "live" /\ applied[r] = 0
  BY <1>1 DEF Lifecycle, CallbacksHaveContext, WholeOf, OnceOf
<1>6. ASSUME UNCHANGED <<ctx, done, args, store, applied, sawEmpty>> PROVE Promised
  BY <1>6, MappingKept DEF Promised, ZS!vars
<1>7. CASE \E z \in Zones, n \in TickCounts : zf_zonetick_run(r, z, n)
  <2>1. PICK z \in Zones, n \in TickCounts : zf_zonetick_run(r, z, n)
    BY <1>7
  <2>2. /\ ctx[r] = "idle" /\ Status[r] = "idle" /\ store' = store /\ Effect' = Effect
        /\ args' = [args EXCEPT ![r] = [z_id |-> z, tick_count |-> n]]
    BY <1>1, <1>3, <2>1, StatusValues, MappingKept DEF zf_zonetick_run
  <2>3. CASE ctx' = [ctx EXCEPT ![r] = "live"]
    <3>1. StatusOf(r)' = "running"
      BY <1>1, <2>3 DEF StatusOf, TypeOK
    <3>2. ZS!Start(r, z, n)
      BY <1>4, <2>2, <3>1 DEF ZS!Start
    <3> QED
      BY <3>2 DEF Promised, ZS!Next
  <2>4. CASE ctx' = [ctx EXCEPT ![r] = "refused"]
    <3>1. StatusOf(r)' = "refused"
      BY <1>1, <2>4 DEF StatusOf, TypeOK
    <3>2. ZS!Reject(r, z, n)
      BY <1>4, <2>2, <3>1 DEF ZS!Reject
    <3> QED
      BY <3>2 DEF Promised, ZS!Next
  <2>5. CASE zt_finish(r, FALSE)
    <3>1. StatusOf(r)' = "failed"
      BY <1>1, <2>2, <2>5, StatusValues
    <3>2. ZS!Reject(r, z, n)
      BY <1>4, <2>2, <3>1 DEF ZS!Reject
    <3> QED
      BY <3>2 DEF Promised, ZS!Next
  <2> QED
    BY <2>1, <2>3, <2>4, <2>5, Zenon DEF zf_zonetick_run, zt_start_range_read
<1>8. CASE FdbServeRead(r)
  <2>1. /\ UNCHANGED <<ctx, done, args, store, applied>> /\ Status' = Status
        /\ ctx[r] = "live" /\ applied[r] = 0
    BY <1>5, <1>8, StepGuards, MappingKept DEF FdbServeRead
  <2>2. CASE sawEmpty' = sawEmpty
    BY <1>6, <2>1, <2>2
  <2>3. CASE sawEmpty' = [sawEmpty EXCEPT ![r] = @ \/
                 DOMAIN Rows(store, ReadRange(store, args[r].z_id)) = {}]
    <3> DEFINE rows == Rows(store, ReadRange(store, args[r].z_id))
    <3>1. sawEmpty'[r] <=> sawEmpty[r] \/ DOMAIN rows = {}
      BY <1>1, <2>3, Zenon DEF TypeOK
    <3>2. CASE sawEmpty'[r] <=> sawEmpty[r]
      <4>1. EffectOf(r)' = EffectOf(r)
        BY <2>1, <3>2, Zenon DEF EffectOf
      <4>2. Effect' = Effect
        BY <1>3, <1>4, <4>1 DEF Effect
      <4> QED
        BY <2>1, <4>2 DEF Promised, ZS!vars
    <3>3. CASE ~ sawEmpty[r] /\ DOMAIN rows = {}
      <4>1. Effect[r] = "none" /\ Status[r] = "running"
        BY <1>1, <1>3, <2>1, <3>3, EffectValues, StatusValues
      <4>2. EffectOf(r)' = "empty"
        <5>1. applied'[r] = 0 /\ sawEmpty'[r]
          BY <2>1, <3>1, <3>3
        <5> QED
          BY <5>1 DEF EffectOf
      <4>3. DOMAIN store \cap ZS!ZoneOf(args[r].z_id) = {}
        <5>1. ReadRange(store, args[r].z_id) = ZS!ZoneOf(args[r].z_id)
          BY <1>1, WholeReply DEF ZS!ZoneOf, ZS!Keys, Keys
        <5> QED
          BY <3>3, <5>1 DEF Rows
      <4>4. ZS!FindEmpty(r)
        BY <1>4, <2>1, <4>1, <4>2, <4>3 DEF ZS!FindEmpty
      <4> QED
        BY <4>4 DEF Promised, ZS!Next
    <3> QED
      BY <3>1, <3>2, <3>3, Zenon
  <2> QED
    BY <1>8, <2>2, <2>3, Zenon DEF FdbServeRead
<1>9. CASE FdbServeCommit(r)
  <2>1. /\ UNCHANGED <<ctx, done, args, sawEmpty>> /\ Status' = Status
        /\ fut[r].op = "commit" /\ ~ fut[r].ready
    BY <1>9, StepGuards, MappingKept DEF FdbServeCommit
  <2>2. applied[r] = 0 /\ ctx[r] \in {"live", "crashed"} /\ HoldsRead(r)
    BY <1>1, <2>1 DEF OnceOf, Lifecycle, CallbacksHaveContext, HoldsRead
  <2>3. CASE UNCHANGED <<store, applied>>
    BY <1>6, <2>1, <2>3
  <2>4. CASE /\ ReadOnly(r)
             /\ store' = Written(store, writes[r])
             /\ applied' = [applied EXCEPT ![r] = @ + IF ReadOnly(r) THEN 0 ELSE 1]
    <3>1. store' = store
      BY <1>1, <2>4, WriteNothing DEF ReadOnly
    <3>2. applied' = applied
      BY <1>1, <1>2, <2>4 DEF TypeOK
    <3> QED
      BY <2>3, <3>1, <3>2
  <2>5. CASE /\ ~ ReadOnly(r) /\ ~ stale[r]
             /\ store' = Written(store, writes[r])
             /\ applied' = [applied EXCEPT ![r] = @ + IF ReadOnly(r) THEN 0 ELSE 1]
    <3>1. applied'[r] = 1
      BY <1>1, <2>2, <2>5 DEF TypeOK
    <3>2. EffectOf(r)' = "applied"
      BY <3>1 DEF EffectOf
    <3>3. /\ range[r] = ScanKeys[args[r].z_id]
          /\ kvs[r] = Rows(store, range[r])
          /\ writes[r] = [k \in DOMAIN kvs[r] |-> Ticked(kvs[r][k], args[r].tick_count)]
      BY <1>1, <2>1, <2>2, <2>5, Zenon DEF WholeOf, DataOf, CurrentOf, TickedOf
    <3>4. store' = ZS!TickZone(store, args[r].z_id, args[r].tick_count)
    <4> DEFINE w == writes[r]
               z == args[r].z_id
               n == args[r].tick_count
    <4>1. w = [k \in DOMAIN Rows(store, ScanKeys[z]) |-> Ticked(Rows(store, ScanKeys[z])[k], n)]
      BY <3>3, Zenon
    <4>2. z \in Zones /\ IsRows(store) /\ store' = Written(store, w)
      BY <1>1, <2>5
    <4> HIDE DEF w, z, n
    <4>3. store' = ZS!TickZone(store, z, n)
      BY <4>1, <4>2, WriteIsTick
    <4> QED
      BY <4>3 DEF z, n
    <3>5. Status[r] \in {"running", "crashed"} /\ Effect[r] # "applied"
      BY <1>1, <1>3, <2>2, StatusValues, EffectValues
    <3>6. ZS!Apply(r)
      BY <1>4, <2>1, <3>2, <3>4, <3>5 DEF ZS!Apply
    <3> QED
      BY <3>6 DEF Promised, ZS!Next
  <2> QED
    BY <1>9, <2>3, <2>4, <2>5, Zenon DEF FdbServeCommit
<1>10. CASE FdbServeOnError(r)
  BY <1>6, <1>10, Zenon DEF FdbServeOnError
<1>11. CASE zt_on_range_read(r)
  <2>1. ctx[r] = "live" /\ applied[r] = 0 /\ UNCHANGED <<args, store, applied, sawEmpty>>
    BY <1>5, <1>11, StepGuards, Zenon DEF zt_on_range_read
  <2> QED
    BY <1>6, <1>11, <2>1, EndsOrRetries, Zenon DEF zt_on_range_read
<1>12. CASE zt_on_error_retry(r)
  <2>1. ctx[r] = "live" /\ applied[r] = 0 /\ UNCHANGED <<args, store, applied, sawEmpty>>
    BY <1>5, <1>12, StepGuards, Zenon DEF zt_on_error_retry
  <2> QED
    BY <1>12, <2>1, EndsOrRetries, Zenon DEF zt_on_error_retry
<1>13. CASE zt_on_commit(r)
  <2>1. /\ UNCHANGED <<args, store, applied, sawEmpty>>
        /\ ctx[r] # "crashed" /\ fut[r].op = "commit" /\ fut[r].ready
    BY <1>13, Zenon DEF zt_on_commit, Callback
  <2>2. ctx[r] = "live"
    BY <1>1, <2>1 DEF Lifecycle, CallbacksHaveContext
  <2>3. CASE UNCHANGED <<ctx, done>>
    BY <1>6, <2>1, <2>3
  <2>4. CASE fut[r].err = "ok" /\ zt_finish(r, TRUE)
    <3>1. applied[r] > 0 \/ sawEmpty[r]
      BY <1>1, <2>1, <2>4, Zenon DEF DataOf, AnswersOf
    <3>2. Effect[r] # "none" /\ Status[r] = "running" /\ Effect' = Effect
      BY <1>1, <1>2, <1>3, <2>1, <2>2, <3>1, EffectValues, StatusValues, MappingKept
    <3>3. StatusOf(r)' = "ok"
      BY <1>1, <2>2, <2>4, StatusValues
    <3>4. ZS!ReportOk(r)
      BY <1>4, <2>1, <3>2, <3>3 DEF ZS!ReportOk
    <3> QED
      BY <3>4 DEF Promised, ZS!Next
  <2> QED
    BY <1>13, <2>3, <2>4, Zenon DEF zt_on_commit
<1>14. CASE Crash(r)
  <2>1. /\ UNCHANGED <<args, done, store, applied, sawEmpty>> /\ ctx[r] = "live"
        /\ ctx' = [ctx EXCEPT ![r] = "crashed"]
    BY <1>14, Zenon DEF Crash
  <2>2. StatusOf(r)' = "crashed" /\ Status[r] = "running" /\ Effect' = Effect
    BY <1>1, <1>3, <2>1, StatusValues, MappingKept DEF StatusOf, TypeOK
  <2>3. ZS!Crash(r)
    BY <1>4, <2>1, <2>2 DEF ZS!Crash
  <2> QED
    BY <2>3 DEF Promised, ZS!Next
<1> QED
  BY <1>7, <1>8, <1>9, <1>10, <1>11, <1>12, <1>13, <1>14 DEF RunStep

\* The promise of zf_zonetick.h, for any number of runs, zones, entities, failures
\* and seedings: where no answer to a commit is lost and a reply holds a whole
\* zone, a tick moves all of its zone at once and once and reports ok, or nothing
\* and reports a failure.
THEOREM TickKeepsPromise ==
  ASSUME "commit_unknown" \notin Faults, RepliesAreWhole
  PROVE  Spec => ImplementsZoneStore
<1> DEFINE Once == \A r \in Runs : OnceOf(r)
           Whole == \A r \in Runs : WholeOf(r)
<1>1. Init => Once /\ Whole
  BY DEF Init, OnceOf, WholeOf, HoldsRead, NoFuture
<1>2. Inv /\ Once /\ Whole /\ [Next]_vars => Once' /\ Whole'
  BY OnceStep, WholeStep
<1>3. Init => ZS!Init
  <2> SUFFICES ASSUME Init PROVE ZS!Init
    OBVIOUS
  <2>1. \A r \in Runs : ctx[r] = "idle" /\ applied[r] = 0 /\ ~ sawEmpty[r]
    BY Zenon DEF Init
  <2>2. Status = [r \in Runs |-> "idle"] /\ Effect = [r \in Runs |-> "none"]
    BY <2>1 DEF Status, Effect
  <2> QED
    BY <2>2 DEF Init, NoRows, ZS!Init
<1>4. Inv /\ Once /\ Whole /\ [Next]_vars => [ZS!Next]_(ZS!vars)
  <2> SUFFICES ASSUME Inv, Once, Whole, [Next]_vars PROVE Promised
    BY DEF Promised
  <2>1. ASSUME NEW r \in Runs, RunStep(r) PROVE Promised
    BY <2>1, RunIsPromised
  <2>2. ASSUME NEW z \in Zones, NEW n \in SeedCounts, seed_entities(z, n) PROVE Promised
    <3>1. /\ UNCHANGED <<ctx, args, done, applied, sawEmpty>>
          /\ store' = Written(store, [k \in SeedKeys(z, n) |-> Seeded(k[2])])
      BY <2>2 DEF seed_entities
    <3>2. SeedKeys(z, n) = {k \in ZS!ZoneOf(z) : k[2] < n}
      BY DEF SeedKeys, ZS!ZoneOf, ZS!Keys, Keys
    <3>3. Status' = Status /\ Effect' = Effect
      BY <3>1, MappingKept
    <3>4. ZS!Seed(z, n)
      BY <3>1, <3>2, <3>3, SameData DEF ZS!Seed, ZS!Written, Written
    <3> QED
      BY <3>4 DEF Promised, ZS!Next
  <2>3. CASE UNCHANGED vars
    <3>1. UNCHANGED <<ctx, args, done, store, applied, sawEmpty>>
      BY <2>3 DEF vars
    <3> QED
      BY <3>1, MappingKept DEF Promised, ZS!vars
  <2> QED
    BY <2>1, <2>2, <2>3, NextCases
<1> HIDE DEF Once, Whole
<1> QED
  BY <1>1, <1>2, <1>3, <1>4, Invariance, PTL DEF Spec, ImplementsZoneStore, ZS!Spec
=============================================================================
