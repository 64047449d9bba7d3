----------------------------- MODULE Throughput -----------------------------
(***************************************************************************)
(* tools/zonetick_throughput.c: the main thread starts ticks back to back  *)
(* and the network thread ends them.  The two share loop_ctx without a     *)
(* lock: the flag in_flight and the two counters are plain fields, so an   *)
(* increment is a load and a store that the other thread may come between. *)
(*                                                                         *)
(* A tick is what ZoneTick says a run is to its caller: refused, or        *)
(* accepted and then ended with ok or not, at any later time or never.     *)
(* It may also end inside the call, on the main thread: when submitting    *)
(* the first read fails, or when fdb_future_set_callback finds the future  *)
(* ready and calls back at once.  ThroughputTick says which ticks do.      *)
(***************************************************************************)
EXTENDS Naturals, FiniteSets

CONSTANT MaxTicks     \* how many ticks the loop starts at most

ASSUME MaxTicksAssumption == MaxTicks \in Nat

VARIABLES
    pc,            \* where the main thread is
    probe_only,    \* option -P
    clock,         \* "before" the deadline, in the "grace" of 2 s, "over"
    in_flight,     \* loop_ctx
    ticks_done,
    ticks_failed,
    printed,       \* the two counters as printed, before that <<>>
    net,           \* the network thread: "none", "running", "stopping", "stopped"
    cb,            \* on_tick_done on either thread: [at, ok, reg]
    overlap,       \* two calls of it have been under way at once
    ticks,         \* accepted ticks that have not ended
    started,       \* accepted ticks
    ended          \* ended ticks, [ok, failed]

Threads == {"main", "net"}

mainVars == <<pc, printed>>
loopVars == <<in_flight, ticks_done, ticks_failed>>
tickVars == <<ticks, started, ended>>
vars == <<mainVars, loopVars, tickVars, probe_only, clock, net, cb, overlap>>

Idle == [at |-> "idle", ok |-> FALSE, reg |-> 0]

Init ==
    /\ pc = "init"
    /\ probe_only \in BOOLEAN
    /\ clock = "before"
    /\ in_flight = FALSE /\ ticks_done = 0 /\ ticks_failed = 0
    /\ printed = <<>>
    /\ net = "none" /\ cb = [t \in Threads |-> Idle] /\ overlap = FALSE
    /\ ticks = 0 /\ started = 0 /\ ended = [ok |-> 0, failed |-> 0]

Goto(l) == pc' = l

-----------------------------------------------------------------------------
(* The main thread.                                                        *)

\* fdb_global_init, then pthread_create of the network thread and
\* fdb_thread_init; on an error of the first, return 1.
main_init ==
    /\ pc = "init"
    /\ \/ Goto("exit") /\ UNCHANGED net
       \/ Goto(IF probe_only THEN "probe" ELSE "seed") /\ net' = "running"
    /\ UNCHANGED <<printed, loopVars, tickVars, probe_only, clock, cb, overlap>>

\* One blocking read; found, not found or failed, the cleanup is the same.
probe_entity ==
    /\ pc = "probe"
    /\ Goto("cleanup")
    /\ UNCHANGED <<printed, loopVars, tickVars, probe_only, clock, net, cb, overlap>>

\* A failed seeding returns 1 at once; otherwise the deadline is set.
seed_entities ==
    /\ pc = "seed"
    /\ Goto("loop") \/ Goto("exit")
    /\ UNCHANGED <<printed, loopVars, tickVars, probe_only, clock, net, cb, overlap>>

\* in_flight = true and zf_zonetick_run, whose result is not looked at.
StartTick ==
    /\ in_flight' = TRUE
    /\ started < MaxTicks
    /\ \/ Goto("loop") /\ UNCHANGED tickVars            \* refused
       \/ /\ Goto("call")                               \* accepted
          /\ ticks' = ticks + 1
          /\ started' = started + 1
          /\ UNCHANGED ended
    /\ UNCHANGED <<ticks_done, ticks_failed>>

\* Slip: in_flight is not tested.
LoopWithoutTest ==
    /\ pc = "loop"
    /\ \/ clock = "before" /\ StartTick
       \/ clock # "before" /\ Goto("drain") /\ UNCHANGED <<loopVars, tickVars>>
    /\ UNCHANGED <<printed, probe_only, clock, net, cb, overlap>>

\* One turn of the timed loop.
main_loop ==
    /\ pc = "loop"
    /\ \/ clock = "before" /\ ~ in_flight /\ StartTick
       \/ clock # "before" /\ Goto("drain") /\ UNCHANGED <<loopVars, tickVars>>
    /\ UNCHANGED <<printed, probe_only, clock, net, cb, overlap>>

\* zf_zonetick_run returns.
main_return ==
    /\ pc = "call" /\ cb["main"].at = "idle"
    /\ Goto("loop")
    /\ UNCHANGED <<printed, loopVars, tickVars, probe_only, clock, net, cb, overlap>>


\* The drain loop leaves when nothing is in flight or the grace is over.
main_drain ==
    /\ pc = "drain"
    /\ ~ in_flight \/ clock = "over"
    /\ Goto("print")
    /\ UNCHANGED <<printed, loopVars, tickVars, probe_only, clock, net, cb, overlap>>

\* Slip: one counter is printed for both.
PrintDoneTwice ==
    /\ pc = "print"
    /\ Goto("cleanup")
    /\ printed' = <<ticks_done, ticks_done>>
    /\ UNCHANGED <<loopVars, tickVars, probe_only, clock, net, cb, overlap>>

main_print ==
    /\ pc = "print"
    /\ Goto("cleanup")
    /\ printed' = <<ticks_done, ticks_failed>>
    /\ UNCHANGED <<loopVars, tickVars, probe_only, clock, net, cb, overlap>>

\* fdb_thread_cleanup and fdb_global_cleanup: stop the network thread.
main_cleanup ==
    /\ pc = "cleanup"
    /\ Goto("join")
    /\ net' = "stopping"
    /\ UNCHANGED <<printed, loopVars, tickVars, probe_only, clock, cb, overlap>>

\* Slip: main returns without joining.
ReturnWithoutJoin ==
    /\ pc = "join"
    /\ Goto("exit")
    /\ UNCHANGED <<printed, loopVars, tickVars, probe_only, clock, net, cb, overlap>>

\* pthread_join, then return: loop_ctx, on the stack, is gone.
main_join ==
    /\ pc = "join"
    /\ net = "stopped"
    /\ Goto("exit")
    /\ UNCHANGED <<printed, loopVars, tickVars, probe_only, clock, net, cb, overlap>>

main ==
    \/ main_init \/ probe_entity \/ seed_entities \/ main_loop \/ main_return
    \/ main_drain \/ main_print \/ main_cleanup \/ main_join

-----------------------------------------------------------------------------
(* The network thread and the clock.                                       *)

\* fdb_run_network is inside its loop, in a process that has not ended.
NetAlive == net \in {"running", "stopping"} /\ pc # "exit"

\* The callbacks FoundationDB may run: the network thread's from its loop, the
\* main thread's inside zf_zonetick_run.
MayCallBack(t) == IF t = "net" THEN NetAlive ELSE pc = "call"

\* future_callback: a thread is free to end a tick.
future_callback(t) == MayCallBack(t) /\ cb[t].at = "idle" /\ ticks > 0

\* Slips: a counter goes down; every tick counts as done.
CountDown(ok, n) ==
    IF ok THEN ticks_done' = n - 2 /\ UNCHANGED ticks_failed
          ELSE ticks_failed' = n - 2 /\ UNCHANGED ticks_done

CountAsDone(ok, n) == ticks_done' = n /\ UNCHANGED ticks_failed

\* The store of the increment.
Count(ok, n) ==
    IF ok THEN ticks_done' = n /\ UNCHANGED ticks_failed
          ELSE ticks_failed' = n /\ UNCHANGED ticks_done

\* on_tick_done, one access to loop_ctx at a time.
ClearInFlight(t, ok) ==
    /\ future_callback(t)
    /\ in_flight' = FALSE
    /\ cb' = [cb EXCEPT ![t] = [at |-> "load", ok |-> ok, reg |-> 0]]
    /\ overlap' = (overlap \/ \E u \in Threads : cb[u].at # "idle")
    /\ ended' = IF ok THEN [ended EXCEPT !.ok = @ + 1] ELSE [ended EXCEPT !.failed = @ + 1]
    /\ ticks' = ticks - 1
    /\ UNCHANGED <<mainVars, ticks_done, ticks_failed, started, probe_only, clock, net>>

LoadCount(t) ==
    /\ cb[t].at = "load" /\ MayCallBack(t)
    /\ cb' = [cb EXCEPT ![t].at = "store",
                        ![t].reg = IF cb[t].ok THEN ticks_done ELSE ticks_failed]
    /\ UNCHANGED <<mainVars, loopVars, tickVars, probe_only, clock, net, overlap>>

StoreCount(t) ==
    /\ cb[t].at = "store" /\ MayCallBack(t)
    /\ cb' = [cb EXCEPT ![t] = Idle]
    /\ Count(cb[t].ok, cb[t].reg + 1)
    /\ UNCHANGED <<mainVars, in_flight, tickVars, probe_only, clock, net, overlap>>

on_tick_done(t) == (\E ok \in BOOLEAN : ClearInFlight(t, ok)) \/ LoadCount(t) \/ StoreCount(t)

\* fdb_run_network returns, between two callbacks.
fdb_run_network_thread ==
    /\ NetAlive /\ net = "stopping" /\ cb["net"].at = "idle"
    /\ net' = "stopped"
    /\ UNCHANGED <<mainVars, loopVars, tickVars, probe_only, clock, cb, overlap>>

now_sec ==
    /\ pc \notin {"init", "probe", "seed", "exit"}
    /\ clock # "over"
    /\ clock' = IF clock = "before" THEN "grace" ELSE "over"
    /\ UNCHANGED <<mainVars, loopVars, tickVars, probe_only, net, cb, overlap>>

Next ==
    \/ main \/ fdb_run_network_thread \/ now_sec
    \/ \E t \in Threads : on_tick_done(t)

Spec == Init /\ [][Next]_vars

\* The threads are scheduled, time passes, a callback that has begun goes on and
\* zf_zonetick_run returns.  No fairness makes a tick end: FoundationDB may never
\* call back.
FairSpec ==
    /\ Spec
    /\ WF_vars(main)
    /\ WF_vars(fdb_run_network_thread)
    /\ WF_vars(now_sec)
    /\ \A t \in Threads : WF_vars(LoadCount(t) \/ StoreCount(t))

-----------------------------------------------------------------------------
(* Properties.                                                             *)

\* Every variable has its type.
TypeOK ==
    /\ pc \in {"init", "probe", "seed", "loop", "call", "drain", "print", "cleanup",
               "join", "exit"}
    /\ probe_only \in BOOLEAN
    /\ clock \in {"before", "grace", "over"}
    /\ in_flight \in BOOLEAN
    /\ ticks_done \in Nat /\ ticks_failed \in Nat
    /\ printed \in {<<>>} \cup (Nat \X Nat)
    /\ net \in {"none", "running", "stopping", "stopped"}
    /\ cb \in [Threads -> [at : {"idle", "load", "store"}, ok : BOOLEAN, reg : Nat]]
    /\ overlap \in BOOLEAN
    /\ ticks \in Nat /\ started \in 0 .. MaxTicks
    /\ ended \in [ok : Nat, failed : Nat]

\* zf_zonetick.h asks for one tick of a zone at a time: the loop never starts a
\* tick while another has not ended, although in_flight is written by both
\* threads and a refused tick leaves it set.
OneInFlight == ticks =< 1

Counting(ok) == {t \in Threads : cb[t].at # "idle" /\ cb[t].ok = ok}

\* The reported rate is honest: neither counter is ever higher than the number of
\* ticks that ended that way.  Both are exact, but for the one increment a thread
\* may be in the middle of, unless a tick ended inside the call while the network
\* thread was still counting the one before.
CountsHonest ==
    /\ ticks_done =< ended.ok /\ ticks_failed =< ended.failed
    /\ ~ overlap => /\ ended.ok = ticks_done + Cardinality(Counting(TRUE))
                    /\ ended.failed = ticks_failed + Cardinality(Counting(FALSE))

\* on_tick_done never runs, and is never half way, once main has returned and
\* loop_ctx is gone from its stack.
NoCallbackAfterExit ==
    pc = "exit" => net # "stopping" /\ \A t \in Threads : cb[t].at = "idle"

\* The printed totals are no more than the accepted ticks, and miss two of them at
\* most: the tick the drain loop gave up on, and the one whose increment the network
\* thread was in the middle of; unless increments have met.
PrintedTotals ==
    printed # <<>> =>
        /\ printed[1] + printed[2] =< started
        /\ ~ overlap => started =< printed[1] + printed[2] + 2

\* The drain loop's purpose: when the totals are printed, every tick that was
\* accepted is in one of them.
NoTickDropped == printed # <<>> => printed[1] + printed[2] = started

=============================================================================
