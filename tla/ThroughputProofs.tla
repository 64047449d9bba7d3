-------------------------- MODULE ThroughputProofs --------------------------
(***************************************************************************)
(* The throughput tool, for any number of ticks: one tick in flight,       *)
(* honest counts although the counters are not locked, no callback into a  *)
(* stack frame that is gone; and the tool with its ticks is at every step  *)
(* a step of the tool and a step of the ticks, so what is proved of each   *)
(* holds of the two together.                                              *)
(***************************************************************************)
EXTENDS ThroughputTick, TickCallsProofs, FiniteSetTheorems

-----------------------------------------------------------------------------
(* The invariant of the tool.                                              *)

\* 1 if thread t is in the middle of counting a tick that ended this way.
Busy(t, ok) == IF cb[t].at # "idle" /\ cb[t].ok = ok THEN 1 ELSE 0

Ended(ok) == IF ok THEN ended.ok ELSE ended.failed
Counted(ok) == IF ok THEN ticks_done ELSE ticks_failed

\* Where the threads are.
Phases ==
    /\ pc \in {"init", "probe", "seed"} => ticks = 0 /\ \A t \in Threads : cb[t].at = "idle"
    /\ pc = "init" => net = "none"
    /\ pc \in {"probe", "seed", "loop", "call", "drain", "print", "cleanup"} => net = "running"
    /\ net = "stopping" => pc = "join"
    /\ cb["main"].at # "idle" => pc = "call"
    /\ net = "stopped" => cb["net"].at = "idle"
    /\ pc = "exit" => \A t \in Threads : cb[t].at = "idle"

\* No count, nor a value loaded to become one, is ahead of the ticks that ended,
\* the increments under way included; without an overlap nothing is lost either.
Counts ==
    \A ok \in BOOLEAN :
        /\ Counted(ok) + Busy("main", ok) + Busy("net", ok) =< Ended(ok)
        /\ \A t \in Threads : cb[t].at = "store" /\ cb[t].ok = ok =>
               cb[t].reg + Busy("main", ok) + Busy("net", ok) =< Ended(ok)
        /\ ~ overlap =>
               /\ Counted(ok) + Busy("main", ok) + Busy("net", ok) = Ended(ok)
               /\ cb["main"].at = "idle" \/ cb["net"].at = "idle"
               /\ \A t \in Threads : cb[t].at = "store" /\ cb[t].ok = ok =>
                      cb[t].reg = Counted(ok)

ToolInv ==
    /\ TypeOK
    /\ ticks =< 1 /\ (ticks > 0 => in_flight)
    /\ Phases
    /\ Counts

\* The invariant holds at the start.
LEMMA ToolInitially == Init => ToolInv
<1> SUFFICES ASSUME Init PROVE ToolInv
    OBVIOUS
<1>1. \A t \in Threads : cb[t] = Idle
      BY DEF Init
<1>2. TypeOK
  <2>1. Idle \in [at : {"idle", "load", "store"}, ok : BOOLEAN, reg : Nat]
        BY DEF Idle
  <2>2. cb \in [Threads -> [at : {"idle", "load", "store"}, ok : BOOLEAN, reg : Nat]]
        BY <2>1 DEF Init
  <2>3. started \in 0 .. MaxTicks /\ ended \in [ok : Nat, failed : Nat]
        BY MaxTicksAssumption DEF Init
  <2>4. QED BY <2>2, <2>3 DEF Init, TypeOK
<1>3. Phases
      BY <1>1 DEF Init, Phases, Idle, Threads
<1>4. Counts
      BY <1>1 DEF Init, Counts, Counted, Busy, Ended, Idle, Threads
<1>5. QED BY <1>2, <1>3, <1>4 DEF Init, ToolInv

\* What the counts depend on.
CountVars == <<ticks_done, ticks_failed, ended, cb, overlap>>

\* A step that touches none of them keeps the counts.
LEMMA CountsKept == Counts /\ UNCHANGED CountVars => Counts'
BY DEF Counts, CountVars, Counted, Busy, Ended

\* The steps of the main thread keep the invariant.
LEMMA MainKeeps ==
    ASSUME ToolInv, main
    PROVE  ToolInv'
<1>1. UNCHANGED CountVars
      BY DEF main, main_init, probe_entity, seed_entities, main_loop, main_return, main_drain,
             main_print, main_cleanup, main_join, StartTick, CountVars, loopVars, tickVars
<1>2. Counts'
      BY <1>1, CountsKept DEF ToolInv
<1>3. TypeOK'
  <2> USE DEF ToolInv, TypeOK
  <2>1. CASE main_init
        BY <2>1 DEF main_init, Goto, loopVars, tickVars
  <2>2. CASE probe_entity \/ seed_entities \/ main_return \/ main_drain \/ main_join
        BY <2>2 DEF probe_entity, seed_entities, main_return, main_drain, main_join, Goto,
                    loopVars, tickVars
  <2>3. CASE main_loop
    <3>1. UNCHANGED <<printed, probe_only, clock, net, cb, overlap, ended, ticks_done, ticks_failed>>
          BY <2>3 DEF main_loop, StartTick, loopVars, tickVars
    <3>2. pc' \in {"loop", "call", "drain"} /\ in_flight' \in BOOLEAN
          BY <2>3 DEF main_loop, StartTick, Goto, loopVars
    <3>3. ticks' \in Nat /\ started' \in 0 .. MaxTicks
          BY <2>3, MaxTicksAssumption DEF main_loop, StartTick, tickVars
    <3>4. QED BY <3>1, <3>2, <3>3
  <2>4. CASE main_print
        BY <2>4 DEF main_print, Goto, loopVars, tickVars
  <2>5. CASE main_cleanup
        BY <2>5 DEF main_cleanup, Goto, loopVars, tickVars
  <2>6. QED BY <2>1, <2>2, <2>3, <2>4, <2>5 DEF main
<1>4. (ticks =< 1 /\ (ticks > 0 => in_flight))'
      BY DEF ToolInv, TypeOK, main, main_init, probe_entity, seed_entities, main_loop,
             main_return, main_drain, main_print, main_cleanup, main_join, StartTick,
             loopVars, tickVars
<1>5. Phases'
  <2> USE DEF ToolInv, Phases, Goto, Threads, loopVars, tickVars
  <2>1. CASE main_init
        BY <2>1 DEF main_init
  <2>2. CASE probe_entity
        BY <2>2 DEF probe_entity
  <2>3. CASE seed_entities
        BY <2>3 DEF seed_entities
  <2>4. CASE main_loop
        BY <2>4 DEF main_loop, StartTick
  <2>5. CASE main_return
        BY <2>5 DEF main_return
  <2>6. CASE main_drain
        BY <2>6 DEF main_drain
  <2>7. CASE main_print
        BY <2>7 DEF main_print
  <2>8. CASE main_cleanup
        BY <2>8 DEF main_cleanup
  <2>9. CASE main_join
        BY <2>9 DEF main_join
  <2>10. QED BY <2>1, <2>2, <2>3, <2>4, <2>5, <2>6, <2>7, <2>8, <2>9 DEF main
<1>6. QED BY <1>2, <1>3, <1>4, <1>5 DEF ToolInv

\* A thread's callback ends the tick in flight and clears in_flight.
LEMMA ClearKeeps ==
    ASSUME ToolInv, NEW t \in Threads, NEW k \in BOOLEAN, ClearInFlight(t, k)
    PROVE  ToolInv'
<1>1. /\ MayCallBack(t) /\ cb[t].at = "idle" /\ ticks > 0 /\ TypeOK /\ Phases /\ Counts
      /\ ticks =< 1
      BY DEF ClearInFlight, future_callback, ToolInv
<1>2. /\ in_flight' = FALSE /\ ticks' = ticks - 1
      /\ cb' = [cb EXCEPT ![t] = [at |-> "load", ok |-> k, reg |-> 0]]
      /\ overlap' = (overlap \/ \E u \in Threads : cb[u].at # "idle")
      /\ ended' = IF k THEN [ended EXCEPT !.ok = @ + 1] ELSE [ended EXCEPT !.failed = @ + 1]
      /\ UNCHANGED <<pc, printed, ticks_done, ticks_failed, started, probe_only, clock, net>>
      BY DEF ClearInFlight, mainVars
<1>3. /\ cb'[t] = [at |-> "load", ok |-> k, reg |-> 0]
      /\ \A u \in Threads : u # t => cb'[u] = cb[u]
      BY <1>1, <1>2 DEF TypeOK
<1>4. TypeOK'
  <2>1. cb' \in [Threads -> [at : {"idle", "load", "store"}, ok : BOOLEAN, reg : Nat]]
        BY <1>1, <1>2 DEF TypeOK
  <2>2. ended' \in [ok : Nat, failed : Nat]
    <3>1. ended \in [ok : Nat, failed : Nat]
          BY <1>1 DEF TypeOK
    <3>2. ended' = [ended EXCEPT !.ok = @ + 1] \/ ended' = [ended EXCEPT !.failed = @ + 1]
          BY <1>2, Zenon
    <3>3. QED BY <3>1, <3>2
  <2>t. ticks' \in Nat
        BY <1>1, <1>2 DEF TypeOK
  <2>3. overlap' \in BOOLEAN /\ in_flight' \in BOOLEAN
        BY <1>2
  <2>4. QED BY <1>1, <1>2, <2>1, <2>2, <2>3, <2>t DEF TypeOK
<1>5. ticks' = 0
      BY <1>1, <1>2 DEF TypeOK
<1>6. Phases'
      BY <1>1, <1>2, <1>3, <1>5 DEF Phases, MayCallBack, NetAlive, Threads
<1>7. Counts'
  <2>1. SUFFICES ASSUME NEW ok \in BOOLEAN
                 PROVE  /\ Counted(ok)' + Busy("main", ok)' + Busy("net", ok)' =< Ended(ok)'
                        /\ \A u \in Threads : cb'[u].at = "store" /\ cb'[u].ok = ok =>
                               cb'[u].reg + Busy("main", ok)' + Busy("net", ok)' =< Ended(ok)'
                        /\ ~ overlap' =>
                             /\ Counted(ok)' + Busy("main", ok)' + Busy("net", ok)' = Ended(ok)'
                             /\ cb'["main"].at = "idle" \/ cb'["net"].at = "idle"
                             /\ \A u \in Threads : cb'[u].at = "store" /\ cb'[u].ok = ok =>
                                    cb'[u].reg = Counted(ok)'
        BY DEF Counts
  <2>2. /\ Counted(ok) \in Nat /\ Ended(ok) \in Nat /\ Counted(ok)' = Counted(ok)
        /\ \A u \in Threads : cb[u].reg \in Nat
        BY <1>1, <1>2 DEF TypeOK, Counted, Ended
  <2>3. Ended(ok)' = Ended(ok) + (IF ok = k THEN 1 ELSE 0)
        BY <1>1, <1>2 DEF TypeOK, Ended
  <2>4. Busy("main", ok) \in {0, 1} /\ Busy("net", ok) \in {0, 1}
        BY DEF Busy
  <2>5. Busy("main", ok)' + Busy("net", ok)' =
            Busy("main", ok) + Busy("net", ok) + (IF ok = k THEN 1 ELSE 0)
        BY <1>1, <1>3 DEF Busy, Threads
  <2>6. Busy("main", ok)' \in {0, 1} /\ Busy("net", ok)' \in {0, 1}
        BY DEF Busy
  <2>7. \A u \in Threads : cb'[u].at = "store" => u # t /\ cb'[u] = cb[u]
        BY <1>3
  <2>8. ~ overlap' => ~ overlap /\ \A u \in Threads : cb[u].at = "idle"
        BY <1>2
  <2> DEFINE c == Counted(ok)
             e == Ended(ok)
             x == Busy("main", ok)
             y == Busy("net", ok)
  <2>9. /\ c + x + y =< e
        /\ \A u \in Threads : cb[u].at = "store" /\ cb[u].ok = ok => cb[u].reg + x + y =< e
        /\ ~ overlap => c + x + y = e
        BY <1>1 DEF Counts
  <2> HIDE DEF c, e, x, y
  <2>10. Counted(ok)' + Busy("main", ok)' + Busy("net", ok)' =< Ended(ok)'
         BY <2>2, <2>3, <2>4, <2>5, <2>6, <2>9 DEF c, e, x, y
  <2>11. ASSUME NEW u \in Threads, cb'[u].at = "store", cb'[u].ok = ok
         PROVE  cb'[u].reg + Busy("main", ok)' + Busy("net", ok)' =< Ended(ok)'
         BY <2>2, <2>3, <2>4, <2>5, <2>6, <2>7, <2>9, <2>11 DEF c, e, x, y
  <2>12. ~ overlap' => Counted(ok)' + Busy("main", ok)' + Busy("net", ok)' = Ended(ok)'
         BY <2>2, <2>3, <2>4, <2>5, <2>6, <2>8, <2>9 DEF c, e, x, y
  <2>13. ~ overlap' => cb'["main"].at = "idle" \/ cb'["net"].at = "idle"
         BY <1>3, <2>8 DEF Threads
  <2>14. ASSUME ~ overlap', NEW u \in Threads, cb'[u].at = "store" PROVE FALSE
         BY <2>7, <2>8, <2>14
  <2>15. QED BY <2>10, <2>11, <2>12, <2>13, <2>14
<1>8. QED BY <1>2, <1>4, <1>5, <1>6, <1>7 DEF ToolInv

\* A thread's callback loads the counter.
LEMMA LoadKeeps ==
    ASSUME ToolInv, NEW t \in Threads, LoadCount(t)
    PROVE  ToolInv'
<1>1. cb[t].at = "load" /\ MayCallBack(t) /\ TypeOK /\ Phases /\ Counts
      BY DEF LoadCount, ToolInv
<1>2. /\ cb' = [cb EXCEPT ![t].at = "store",
                          ![t].reg = IF cb[t].ok THEN ticks_done ELSE ticks_failed]
      /\ UNCHANGED <<pc, printed, in_flight, ticks_done, ticks_failed, ticks, started, ended,
                     probe_only, clock, net, overlap>>
      BY DEF LoadCount, mainVars, loopVars, tickVars
<1>3. /\ cb'[t].at = "store" /\ cb'[t].ok = cb[t].ok /\ cb'[t].reg = Counted(cb[t].ok)
      /\ \A u \in Threads : u # t => cb'[u] = cb[u]
      BY <1>1, <1>2 DEF TypeOK, Counted
<1>4. TypeOK'
  <2> DEFINE x == IF cb[t].ok THEN ticks_done ELSE ticks_failed
             R == [at : {"idle", "load", "store"}, ok : BOOLEAN, reg : Nat]
  <2>x. x \in Nat /\ cb[t] \in R /\ cb \in [Threads -> R]
        BY <1>1 DEF TypeOK
  <2>y. cb' = [cb EXCEPT ![t] = [[cb[t] EXCEPT !.at = "store"] EXCEPT !.reg = x]]
        BY <1>2, <2>x
  <2> HIDE DEF x
  <2>z. [[cb[t] EXCEPT !.at = "store"] EXCEPT !.reg = x] \in R
        BY <2>x
  <2> HIDE DEF R
  <2>1. cb' \in [Threads -> [at : {"idle", "load", "store"}, ok : BOOLEAN, reg : Nat]]
    <3>1. cb' \in [Threads -> R]
          BY <2>x, <2>y, <2>z
    <3>2. QED BY <3>1 DEF R
  <2>2. QED BY <1>1, <1>2, <2>1 DEF TypeOK
<1>5. Phases'
      BY <1>1, <1>2, <1>3 DEF Phases, Threads
<1>6. Counts'
  <2>1. \A ok \in BOOLEAN : /\ Counted(ok)' = Counted(ok) /\ Ended(ok)' = Ended(ok)
                            /\ Busy("main", ok)' = Busy("main", ok)
                            /\ Busy("net", ok)' = Busy("net", ok)
        BY <1>1, <1>2, <1>3 DEF Counted, Ended, Busy, Threads
  <2>2. \A ok \in BOOLEAN : \A u \in Threads : cb'[u].at = "store" /\ cb'[u].ok = ok =>
            \/ cb[u].at = "store" /\ cb[u].ok = ok /\ cb'[u].reg = cb[u].reg
            \/ cb'[u].reg = Counted(ok)
        BY <1>3
  <2>3. (cb["main"].at = "idle" \/ cb["net"].at = "idle") =>
            (cb'["main"].at = "idle" \/ cb'["net"].at = "idle")
        BY <1>1, <1>3 DEF Threads
  <2>4. overlap' = overlap
        BY <1>2
  <2>5. QED BY <1>1, <2>1, <2>2, <2>3, <2>4 DEF Counts
<1>7. QED BY <1>2, <1>4, <1>5, <1>6 DEF ToolInv

\* A thread's callback stores the counter and returns.
LEMMA StoreKeeps ==
    ASSUME ToolInv, NEW t \in Threads, StoreCount(t)
    PROVE  ToolInv'
<1> DEFINE k == cb[t].ok
<1>1. cb[t].at = "store" /\ MayCallBack(t) /\ TypeOK /\ Phases /\ Counts /\ k \in BOOLEAN
      BY DEF StoreCount, ToolInv, TypeOK
<1>2. /\ cb' = [cb EXCEPT ![t] = Idle]
      /\ IF k THEN ticks_done' = cb[t].reg + 1 /\ ticks_failed' = ticks_failed
              ELSE ticks_failed' = cb[t].reg + 1 /\ ticks_done' = ticks_done
      /\ UNCHANGED <<pc, printed, in_flight, ticks, started, ended, probe_only, clock, net,
                     overlap>>
      BY DEF StoreCount, Count, mainVars, tickVars
<1>3. cb'[t] = Idle /\ \A u \in Threads : u # t => cb'[u] = cb[u]
      BY <1>1, <1>2 DEF TypeOK
<1>4. TypeOK'
  <2>1. Idle \in [at : {"idle", "load", "store"}, ok : BOOLEAN, reg : Nat]
        BY DEF Idle
  <2>2. cb' \in [Threads -> [at : {"idle", "load", "store"}, ok : BOOLEAN, reg : Nat]]
        BY <1>1, <1>2, <2>1 DEF TypeOK
  <2>3. cb[t].reg \in Nat
        BY <1>1 DEF TypeOK
  <2>4. ticks_done' \in Nat /\ ticks_failed' \in Nat
        BY <1>1, <1>2, <2>3 DEF TypeOK
  <2>5. QED BY <1>1, <1>2, <2>2, <2>4 DEF TypeOK
<1>5. Phases'
      BY <1>1, <1>2, <1>3 DEF Phases, Threads, Idle
<1>6. Counts'
  <2>1. SUFFICES ASSUME NEW ok \in BOOLEAN
                 PROVE  /\ Counted(ok)' + Busy("main", ok)' + Busy("net", ok)' =< Ended(ok)'
                        /\ \A u \in Threads : cb'[u].at = "store" /\ cb'[u].ok = ok =>
                               cb'[u].reg + Busy("main", ok)' + Busy("net", ok)' =< Ended(ok)'
                        /\ ~ overlap' =>
                             /\ Counted(ok)' + Busy("main", ok)' + Busy("net", ok)' = Ended(ok)'
                             /\ cb'["main"].at = "idle" \/ cb'["net"].at = "idle"
                             /\ \A u \in Threads : cb'[u].at = "store" /\ cb'[u].ok = ok =>
                                    cb'[u].reg = Counted(ok)'
        BY DEF Counts
  <2>2. /\ Counted(ok) \in Nat /\ Ended(ok) \in Nat /\ Ended(ok)' = Ended(ok)
        /\ \A u \in Threads : cb[u].reg \in Nat
        BY <1>1, <1>2 DEF TypeOK, Counted, Ended
  <2>3. Counted(ok)' = IF ok = k THEN cb[t].reg + 1 ELSE Counted(ok)
        BY <1>1, <1>2 DEF Counted
  <2>4. Busy("main", ok) \in {0, 1} /\ Busy("net", ok) \in {0, 1}
        BY DEF Busy
  <2>5. Busy("main", ok)' + Busy("net", ok)' =
            Busy("main", ok) + Busy("net", ok) - (IF ok = k THEN 1 ELSE 0)
        BY <1>1, <1>3 DEF Busy, Threads, Idle
  <2>6. Busy("main", ok)' \in {0, 1} /\ Busy("net", ok)' \in {0, 1}
        BY DEF Busy
  <2>7. \A u \in Threads : cb'[u].at = "store" => u # t /\ cb'[u] = cb[u]
        BY <1>3 DEF Idle
  <2>8. ~ overlap' => ~ overlap /\ \A u \in Threads : u # t => cb[u].at = "idle"
        BY <1>1, <1>2 DEF Counts, Threads
  <2> DEFINE c == Counted(ok)
             e == Ended(ok)
             x == Busy("main", ok)
             y == Busy("net", ok)
  <2>9. /\ c + x + y =< e
        /\ \A u \in Threads : cb[u].at = "store" /\ cb[u].ok = ok => cb[u].reg + x + y =< e
        /\ ~ overlap => c + x + y = e
        /\ ~ overlap /\ ok = k => cb[t].reg = c
        BY <1>1 DEF Counts
  <2> HIDE DEF c, e, x, y, k
  <2>r. cb[t].at = "store" /\ (ok = k => cb[t].ok = ok)
        BY <1>1 DEF k
  <2>10. Counted(ok)' + Busy("main", ok)' + Busy("net", ok)' =< Ended(ok)'
         BY <2>2, <2>3, <2>4, <2>5, <2>6, <2>9, <2>r DEF c, e, x, y
  <2>11. ASSUME NEW u \in Threads, cb'[u].at = "store", cb'[u].ok = ok
         PROVE  cb'[u].reg + Busy("main", ok)' + Busy("net", ok)' =< Ended(ok)'
         BY <2>2, <2>4, <2>5, <2>6, <2>7, <2>9, <2>11 DEF c, e, x, y
  <2>12. ~ overlap' => Counted(ok)' + Busy("main", ok)' + Busy("net", ok)' = Ended(ok)'
         BY <2>2, <2>3, <2>4, <2>5, <2>6, <2>8, <2>9 DEF c, e, x, y
  <2>13. ~ overlap' => cb'["main"].at = "idle" \/ cb'["net"].at = "idle"
         BY <1>3, <2>8 DEF Threads, Idle
  <2>14. ASSUME ~ overlap', NEW u \in Threads, cb'[u].at = "store" PROVE FALSE
         BY <2>7, <2>8, <2>14
  <2>15. QED BY <2>10, <2>11, <2>12, <2>13, <2>14
<1>7. QED BY <1>2, <1>4, <1>5, <1>6 DEF ToolInv

\* Every step keeps the invariant.
LEMMA ToolStep == ToolInv /\ [Next]_vars => ToolInv'
<1> SUFFICES ASSUME ToolInv, [Next]_vars PROVE ToolInv'
    OBVIOUS
<1>1. CASE main
      BY <1>1, MainKeeps
<1>2. CASE fdb_run_network_thread
  <2>1. /\ cb["net"].at = "idle" /\ net = "stopping" /\ net' = "stopped"
        /\ UNCHANGED <<pc, printed, in_flight, ticks_done, ticks_failed, ticks, started, ended,
                       probe_only, clock, cb, overlap>>
        BY <1>2 DEF fdb_run_network_thread, mainVars, loopVars, tickVars
  <2>2. Counts'
        BY <2>1, CountsKept DEF CountVars, ToolInv
  <2>3. Phases'
        BY <2>1 DEF Phases, ToolInv
  <2>4. QED BY <2>1, <2>2, <2>3 DEF ToolInv, TypeOK
<1>3. CASE now_sec
  <2>1. /\ clock' \in {"grace", "over"}
        /\ UNCHANGED <<pc, printed, in_flight, ticks_done, ticks_failed, ticks, started, ended,
                       probe_only, net, cb, overlap>>
        BY <1>3 DEF now_sec, mainVars, loopVars, tickVars
  <2>2. Counts'
        BY <2>1, CountsKept DEF CountVars, ToolInv
  <2>3. Phases'
        BY <2>1 DEF Phases, ToolInv
  <2>4. QED BY <2>1, <2>2, <2>3 DEF ToolInv, TypeOK
<1>4. ASSUME NEW t \in Threads, on_tick_done(t) PROVE ToolInv'
      BY <1>4, ClearKeeps, LoadKeeps, StoreKeeps DEF on_tick_done
<1>5. CASE UNCHANGED vars
  <2>1. UNCHANGED <<pc, printed, in_flight, ticks_done, ticks_failed, ticks, started, ended,
                    probe_only, clock, net, cb, overlap>>
        BY <1>5 DEF vars, mainVars, loopVars, tickVars
  <2>2. Counts'
        BY <2>1, CountsKept DEF CountVars, ToolInv
  <2>3. Phases'
        BY <2>1 DEF Phases, ToolInv
  <2>4. QED BY <2>1, <2>2, <2>3 DEF ToolInv, TypeOK
<1>6. QED BY <1>1, <1>2, <1>3, <1>4, <1>5 DEF Next

\* The number of threads that are counting.
LEMMA CountingCard ==
    ASSUME NEW ok \in BOOLEAN
    PROVE  Cardinality(Counting(ok)) = Busy("main", ok) + Busy("net", ok)
<1>1. CASE Busy("main", ok) = 1 /\ Busy("net", ok) = 1
  <2>1. Counting(ok) = {"main", "net"}
        BY <1>1 DEF Counting, Busy, Threads
  <2>2. Cardinality({"main"} \cup {"net"}) = Cardinality({"main"}) + 1
        BY FS_Singleton, FS_AddElement
  <2>3. Cardinality({"main"}) = 1 /\ {"main"} \cup {"net"} = {"main", "net"}
        BY FS_Singleton
  <2>4. QED BY <1>1, <2>1, <2>2, <2>3
<1>2. CASE Busy("main", ok) = 1 /\ Busy("net", ok) = 0
  <2>1. Counting(ok) = {"main"}
        BY <1>2 DEF Counting, Busy, Threads
  <2>2. Cardinality({"main"}) = 1
        BY FS_Singleton
  <2>3. QED BY <1>2, <2>1, <2>2
<1>3. CASE Busy("main", ok) = 0 /\ Busy("net", ok) = 1
  <2>1. Counting(ok) = {"net"}
        BY <1>3 DEF Counting, Busy, Threads
  <2>2. Cardinality({"net"}) = 1
        BY FS_Singleton
  <2>3. QED BY <1>3, <2>1, <2>2
<1>4. CASE Busy("main", ok) = 0 /\ Busy("net", ok) = 0
  <2>1. Counting(ok) = {}
        BY <1>4 DEF Counting, Busy, Threads
  <2>2. QED BY <1>4, <2>1, FS_EmptySet
<1>5. Busy("main", ok) \in {0, 1} /\ Busy("net", ok) \in {0, 1}
      BY DEF Busy
<1>6. QED BY <1>1, <1>2, <1>3, <1>4, <1>5

\* The properties are consequences of the invariant.
LEMMA ToolInvImplies == ToolInv => OneInFlight /\ CountsHonest /\ NoCallbackAfterExit
<1> SUFFICES ASSUME ToolInv PROVE OneInFlight /\ CountsHonest /\ NoCallbackAfterExit
    OBVIOUS
<1>1. TypeOK /\ Phases /\ Counts
      BY DEF ToolInv
<1>2. OneInFlight
      BY DEF ToolInv, OneInFlight
<1>3. ASSUME NEW ok \in BOOLEAN
      PROVE  /\ Counted(ok) =< Ended(ok)
             /\ ~ overlap => Ended(ok) = Counted(ok) + Cardinality(Counting(ok))
  <2>1. Busy("main", ok) \in {0, 1} /\ Busy("net", ok) \in {0, 1}
        BY DEF Busy
  <2>2. Counted(ok) \in Nat /\ Ended(ok) \in Nat
        BY <1>1 DEF TypeOK, Counted, Ended
  <2>3. /\ Counted(ok) + Busy("main", ok) + Busy("net", ok) =< Ended(ok)
        /\ ~ overlap => Counted(ok) + Busy("main", ok) + Busy("net", ok) = Ended(ok)
        BY <1>1 DEF Counts
  <2>4. QED BY <2>1, <2>2, <2>3, CountingCard
<1>4. /\ Counted(TRUE) = ticks_done /\ Counted(FALSE) = ticks_failed
      /\ Ended(TRUE) = ended.ok /\ Ended(FALSE) = ended.failed
      BY DEF Counted, Ended
<1>5. CountsHonest
  <2>1. /\ ticks_done =< ended.ok
        /\ ~ overlap => ended.ok = ticks_done + Cardinality(Counting(TRUE))
        BY <1>3, <1>4
  <2>2. /\ ticks_failed =< ended.failed
        /\ ~ overlap => ended.failed = ticks_failed + Cardinality(Counting(FALSE))
        BY <1>3, <1>4
  <2>3. QED BY <2>1, <2>2 DEF CountsHonest
<1>6. NoCallbackAfterExit
      BY <1>1 DEF NoCallbackAfterExit, Phases
<1>7. QED BY <1>2, <1>5, <1>6

-----------------------------------------------------------------------------
(* What is printed.                                                        *)

\* Every accepted tick is in flight or has ended, and nothing is started once the
\* totals are printed.
PrintInv ==
    /\ started = ended.ok + ended.failed + ticks
    /\ printed # <<>> => pc \in {"cleanup", "join", "exit"}
    /\ PrintedTotals

\* Nothing is printed at the start.
LEMMA PrintInitially == Init => PrintInv
  BY DEF Init, PrintInv, PrintedTotals

\* The totals, when they are printed.
LEMMA PrintSum ==
    ASSUME ToolInv, PrintInv, pc = "print"
    PROVE  /\ ticks_done + ticks_failed =< started
           /\ ~ overlap => started =< ticks_done + ticks_failed + 2
<1>1. TypeOK /\ Phases /\ Counts /\ ticks =< 1
      BY DEF ToolInv
<1>2. /\ ticks_done \in Nat /\ ticks_failed \in Nat /\ ended.ok \in Nat
      /\ ended.failed \in Nat /\ ticks \in Nat
      BY <1>1 DEF TypeOK
<1>3. started = ended.ok + ended.failed + ticks
      BY DEF PrintInv
<1>4. ASSUME NEW ok \in BOOLEAN
      PROVE  /\ Busy("net", ok) \in {0, 1}
             /\ Counted(ok) + Busy("net", ok) =< Ended(ok)
             /\ ~ overlap => Counted(ok) + Busy("net", ok) = Ended(ok)
  <2>1. Busy("main", ok) = 0 /\ Busy("net", ok) \in {0, 1}
        BY <1>1 DEF Phases, Busy
  <2>2. Counted(ok) \in Nat /\ Ended(ok) \in Nat
        BY <1>2 DEF Counted, Ended
  <2>3. /\ Counted(ok) + Busy("main", ok) + Busy("net", ok) =< Ended(ok)
        /\ ~ overlap => Counted(ok) + Busy("main", ok) + Busy("net", ok) = Ended(ok)
        BY <1>1 DEF Counts
  <2>4. QED BY <2>1, <2>2, <2>3
<1>5. /\ Counted(TRUE) = ticks_done /\ Counted(FALSE) = ticks_failed
      /\ Ended(TRUE) = ended.ok /\ Ended(FALSE) = ended.failed
      BY DEF Counted, Ended
<1> DEFINE x == Busy("net", TRUE)
           y == Busy("net", FALSE)
<1>6. x + y =< 1
      BY DEF Busy
<1>7. /\ x \in {0, 1} /\ ticks_done + x =< ended.ok
      /\ ~ overlap => ticks_done + x = ended.ok
      BY <1>4, <1>5
<1>8. /\ y \in {0, 1} /\ ticks_failed + y =< ended.failed
      /\ ~ overlap => ticks_failed + y = ended.failed
      BY <1>4, <1>5
<1> HIDE DEF x, y
<1>9. QED BY <1>1, <1>2, <1>3, <1>6, <1>7, <1>8

\* Every step keeps that invariant.
LEMMA PrintStep == ToolInv /\ PrintInv /\ [Next]_vars => PrintInv'
<1> SUFFICES ASSUME ToolInv, PrintInv, [Next]_vars PROVE PrintInv'
    OBVIOUS
<1>1. /\ started \in Nat /\ ended \in [ok : Nat, failed : Nat] /\ ticks \in Nat
      /\ started = ended.ok + ended.failed + ticks
      BY DEF ToolInv, TypeOK, PrintInv
<1>2. CASE main_print
  <2>1. /\ printed' = <<ticks_done, ticks_failed>> /\ pc = "print" /\ pc' = "cleanup"
        /\ UNCHANGED <<ticks, started, ended, overlap>>
        BY <1>2 DEF main_print, Goto, tickVars
  <2>2. printed'[1] = ticks_done /\ printed'[2] = ticks_failed
        BY <2>1
  <2>3. PrintedTotals'
        BY <2>1, <2>2, PrintSum DEF PrintedTotals
  <2>4. QED BY <1>1, <2>1, <2>3 DEF PrintInv
<1>3. CASE main_loop
  <2>1. pc = "loop" /\ printed = <<>> /\ printed' = <<>> /\ ended' = ended
        BY <1>3 DEF main_loop, StartTick, PrintInv, tickVars
  <2>2. started' - started = ticks' - ticks /\ started' \in Int /\ ticks' \in Int
        BY <1>1, <1>3 DEF main_loop, StartTick, tickVars
  <2>3. started' = ended'.ok + ended'.failed + ticks'
        BY <1>1, <2>1, <2>2
  <2>4. QED BY <2>1, <2>3 DEF PrintInv, PrintedTotals
<1>4. ASSUME NEW t \in Threads, NEW ok \in BOOLEAN, ClearInFlight(t, ok) PROVE PrintInv'
  <2>1. /\ ticks > 0 /\ ticks' = ticks - 1 /\ UNCHANGED <<pc, printed, started>>
        /\ ended' = IF ok THEN [ended EXCEPT !.ok = @ + 1] ELSE [ended EXCEPT !.failed = @ + 1]
        /\ overlap' = (overlap \/ \E u \in Threads : cb[u].at # "idle")
        BY <1>4 DEF ClearInFlight, future_callback, mainVars
  <2>2. ended'.ok + ended'.failed = ended.ok + ended.failed + 1
        BY <1>1, <2>1
  <2>3. /\ ended'.ok \in Nat /\ ended'.failed \in Nat
        BY <1>1, <2>1
  <2>4. started' = ended'.ok + ended'.failed + ticks'
        BY <1>1, <2>1, <2>2, <2>3
  <2>5. ~ overlap' => ~ overlap
        BY <2>1
  <2>6. QED BY <2>1, <2>4, <2>5 DEF PrintInv, PrintedTotals
<1>5. ASSUME UNCHANGED <<printed, started, ended, ticks, overlap>>,
             printed # <<>> => pc' \in {"cleanup", "join", "exit"}
      PROVE  PrintInv'
      BY <1>5 DEF PrintInv, PrintedTotals
<1>6. CASE \/ main_init \/ probe_entity \/ seed_entities \/ main_return \/ main_drain
           \/ main_cleanup \/ main_join
  <2>1. UNCHANGED <<printed, started, ended, ticks, overlap>>
        BY <1>6 DEF main_init, probe_entity, seed_entities, main_return, main_drain,
                    main_cleanup, main_join, tickVars
  <2>2. printed # <<>> => pc' \in {"cleanup", "join", "exit"}
        BY <1>6 DEF PrintInv, main_init, probe_entity, seed_entities, main_return, main_drain,
                    main_cleanup, main_join, Goto
  <2>3. QED BY <1>5, <2>1, <2>2
<1>7. ASSUME NEW t \in Threads, LoadCount(t) \/ StoreCount(t) PROVE PrintInv'
      BY <1>5, <1>7 DEF LoadCount, StoreCount, mainVars, tickVars, PrintInv
<1>8. CASE fdb_run_network_thread \/ now_sec
      BY <1>5, <1>8 DEF fdb_run_network_thread, now_sec, mainVars, tickVars, PrintInv
<1>9. CASE UNCHANGED vars
      BY <1>5, <1>9 DEF vars, mainVars, tickVars, PrintInv
<1>10. QED BY <1>2, <1>3, <1>4, <1>6, <1>7, <1>8, <1>9 DEF Next, main, on_tick_done

-----------------------------------------------------------------------------
(* The tool and its ticks together.                                        *)

\* A step of the composition is, for the ticks, a step of a tick or none.
LEMMA TickIsCall == [NextTick]_allVars => [CallNext]_cvars
<1> SUFFICES ASSUME [NextTick]_allVars PROVE [CallNext]_cvars
    OBVIOUS
<1>1. CASE Main
      BY <1>1, ThreadsAssumption DEF Main, LoopTurn, CallNext, Threads
<1>2. CASE NetworkReturns \/ TimePasses
      BY <1>2 DEF NetworkReturns, TimePasses
<1>3. CASE NetworkCalls
      BY <1>3, ThreadsAssumption DEF NetworkCalls, CallNext, Threads
<1>4. ASSUME NEW t \in Threads, Inside(t) PROVE CallNext
      BY <1>4, ThreadsAssumption DEF Inside, CallNext
<1>5. ASSUME NEW t \in Threads, DoneCb(t) PROVE CallNext \/ UNCHANGED cvars
      BY <1>5, ThreadsAssumption DEF DoneCb, CallNext
<1>6. CASE UNCHANGED allVars
      BY <1>6 DEF allVars
<1>7. QED BY <1>1, <1>2, <1>3, <1>4, <1>5, <1>6 DEF NextTick

\* A step of the composition is, for the tool, a step of the tool or none.
LEMMA TickIsTool == CallInv /\ [NextTick]_allVars => [Next]_vars
<1> SUFFICES ASSUME CallInv, [NextTick]_allVars PROVE [Next]_vars
    OBVIOUS
<1>1. CASE Main
      BY <1>1 DEF Main, LoopTurn, Next, main
<1>2. CASE NetworkReturns \/ TimePasses
      BY <1>2 DEF NetworkReturns, TimePasses, Next
<1>3. CASE NetworkCalls
      BY <1>3 DEF NetworkCalls
<1>4. ASSUME NEW t \in Threads, Inside(t) PROVE UNCHANGED vars
      BY <1>4 DEF Inside
<1>5. ASSUME NEW t \in Threads, DoneCb(t) PROVE Next
  <2>1. CASE zt_finish(t) /\ ClearInFlight(t, Top(t).ok)
    <3>1. stack[t] # <<>> /\ t \in CallThreads
          BY <2>1, ThreadsAssumption DEF zt_finish, Running
    <3>2. Top(t) \in FrameT
          BY <3>1, InnerFrame DEF CallInv, Top
    <3>3. Top(t).ok \in BOOLEAN
          BY <3>2 DEF FrameT
    <3>4. QED BY <2>1, <3>3 DEF on_tick_done, Next
  <2>2. CASE LoadCount(t) \/ StoreCount(t)
        BY <2>2 DEF on_tick_done, Next
  <2>3. QED BY <1>5, <2>1, <2>2 DEF DoneCb
<1>6. CASE UNCHANGED allVars
      BY <1>6 DEF allVars
<1>7. QED BY <1>1, <1>2, <1>3, <1>4, <1>5, <1>6 DEF NextTick

\* The ticks the tool starts are ticks: what is proved of CallSpec holds of them.
THEOREM TickImplementsCalls == SpecTick => CallSpec
<1>1. InitTick => CallInit
      BY DEF InitTick
<1>2. QED BY <1>1, TickIsCall, PTL DEF SpecTick, CallSpec

\* With real ticks the tool does what Throughput says, where ticks end any way they
\* like.
THEOREM TickImplementsTool == SpecTick => Spec
<1>1. InitTick => Init /\ CallInit
      BY DEF InitTick
<1>2. QED BY <1>1, TickIsCall, TickIsTool, CallInitially, CallStep, PTL DEF SpecTick, Spec

\* So the tool's invariants hold with real ticks.
LEMMA ToolAlways == SpecTick => [](ToolInv /\ PrintInv)
<1>1. Spec => [](ToolInv /\ PrintInv)
      BY ToolInitially, ToolStep, PrintInitially, PrintStep, PTL DEF Spec
<1>2. QED BY <1>1, TickImplementsTool, PTL

\* Every variable keeps its type: no counter wraps below zero or is read as anything
\* but a count, whatever the threads interleave.
THEOREM ToolTyped == SpecTick => []TypeOK
<1>1. ToolInv => TypeOK
      BY DEF ToolInv
<1>2. QED BY <1>1, ToolAlways, PTL

\* One tick at a time, although the flag in_flight is written by both threads.
THEOREM ToolOneInFlight == SpecTick => []OneInFlight
      BY ToolAlways, ToolInvImplies, PTL

\* The counts are honest although the counters are not locked.
THEOREM ToolCountsHonest == SpecTick => []CountsHonest
      BY ToolAlways, ToolInvImplies, PTL

\* No callback runs once main has returned.
THEOREM ToolExitsQuietly == SpecTick => []NoCallbackAfterExit
      BY ToolAlways, ToolInvImplies, PTL

\* The printed totals are never too high, and two ticks too low at most unless two
\* increments have met.
THEOREM ToolPrintsTotals == SpecTick => []PrintedTotals
<1>1. PrintInv => PrintedTotals
      BY DEF PrintInv
<1>2. QED BY <1>1, ToolAlways, PTL

\* Nor does any callback of the tool's ticks, on either thread, use memory that has
\* been freed; nothing leaks but stranded ticks, and nesting is bounded.
THEOREM ToolMemorySafe ==
    SpecTick => [](FramesHaveObjects /\ OneOwner /\ NothingLeaks /\ StackBounded)
<1>1. QED BY TickImplementsCalls, CallsMemorySafe, CallsOneOwner, CallsNoLeak,
             CallsNestBounded, PTL
=============================================================================
