--------------------------- MODULE ThroughputTick ---------------------------
(***************************************************************************)
(* The throughput tool and the ticks it starts, together: Throughput says  *)
(* what the tool does about a tick, TickCalls how a tick comes to its end, *)
(* and here the two take their common steps at the same time.  main's call *)
(* of zf_zonetick_run is the bottom frame of the main thread; on_tick_done *)
(* is what the tick's zt_finish calls.                                     *)
(***************************************************************************)
EXTENDS Throughput, TickCalls

ASSUME ThreadsAssumption == CallThreads = Threads /\ NetThread = "net"

allVars == <<vars, cvars>>

InitTick == Init /\ CallInit

\* A turn of the loop: with a tick that is accepted, or without.
LoopTurn ==
    /\ main_loop
    /\ IF started' > started THEN zf_zonetick_run("main") ELSE UNCHANGED cvars

\* The steps of the main thread outside a tick.
Main ==
    \/ LoopTurn
    \/ /\ \/ main_init \/ probe_entity \/ seed_entities \/ main_drain \/ main_print
          \/ main_cleanup \/ main_join
          \/ main_return /\ stack["main"] = <<>>
       /\ UNCHANGED cvars

NetworkReturns ==
    fdb_run_network_thread /\ stack["net"] = <<>> /\ UNCHANGED cvars

TimePasses == now_sec /\ UNCHANGED cvars

\* A thread inside the adapter or the tick; only a live one takes steps.
Inside(t) ==
    /\ t = "net" => NetAlive
    /\ t = "main" => pc = "call"
    /\ Enter(t) \/ Leave(t)
    /\ UNCHANGED vars

NetworkCalls == NetAlive /\ NetCallback("net") /\ UNCHANGED vars

\* zt_finish's call of done_cb, and its three accesses to loop_ctx.
DoneCb(t) ==
    \/ zt_finish(t) /\ ClearInFlight(t, Top(t).ok)
    \/ LoadCount(t) /\ UNCHANGED cvars
    \/ StoreCount(t) /\ DoneReturns(t)

NextTick ==
    \/ Main \/ NetworkReturns \/ TimePasses \/ NetworkCalls
    \/ \E t \in Threads : Inside(t) \/ DoneCb(t)

SpecTick == InitTick /\ [][NextTick]_allVars

\* As in Throughput: threads are scheduled and time passes, but FoundationDB may
\* never call back.
FairSpecTick ==
    /\ SpecTick
    /\ WF_allVars(Main) /\ WF_allVars(NetworkReturns) /\ WF_allVars(TimePasses)
    /\ \A t \in Threads : WF_allVars(Inside(t) \/ DoneCb(t))
=============================================================================
