----------------------------- MODULE TickCalls ------------------------------
(***************************************************************************)
(* Who owns what while zone ticks run: the futures, their wrappers         *)
(* (fdb_callback_ctx_t), the contexts and the transactions that            *)
(* src/zf_zonetick.c and src/fdb_database.c allocate and free, call by     *)
(* call.                                                                   *)
(*                                                                         *)
(* fdb_future_set_callback may find its future ready and call back at      *)
(* once, on the thread that is submitting it.  Callbacks then nest, each   *)
(* inside the submission the one below it is making, so a thread is a      *)
(* stack of future_callback frames.  A frame still has its own future and  *)
(* wrapper to free when the frames above it have returned, and one of      *)
(* those may by then have ended the tick.                                  *)
(***************************************************************************)
EXTENDS Naturals, Sequences

CONSTANTS
    CallThreads,  \* threads that call zf_zonetick_run or run callbacks
    NetThread,    \* the one of them that runs fdb_run_network
    MaxErrors     \* failures in all

ASSUME CallAssumption == NetThread \in CallThreads /\ MaxErrors \in Nat

VARIABLES
    stack,     \* the frames of each thread, the innermost last
    waiting,   \* the callbacks registered with FoundationDB
    live,      \* objects allocated and not yet freed
    made,      \* futures created so far
    calls,     \* ticks started so far
    errors,    \* failures so far
    stranded   \* ticks whose next request could not be submitted

cvars == <<stack, waiting, live, made, calls, errors, stranded>>

\* The objects a frame refers to.
Future(f) == <<"future", f.id>>
Wrapper(f) == <<"wrapper", f.id>>
Context(f) == <<"ctx", f.tick>>
Tr(f) == <<"tr", f.tick>>

\* A frame: the callback of request `op` of a tick, and where it is.  "run" is
\* zf_zonetick_run itself, which has no future.
Frame(op, id, tick) == [op |-> op, id |-> id, tick |-> tick, at |-> "enter", ok |-> FALSE]

CallInit ==
    /\ stack = [t \in CallThreads |-> <<>>]
    /\ waiting = {} /\ live = {} /\ stranded = {}
    /\ made = 0 /\ calls = 0 /\ errors = 0

Top(t) == stack[t][Len(stack[t])]
Running(t, at) == stack[t] # <<>> /\ Top(t).at = at

\* The stacks with f for the innermost frame of thread t.
WithTop(t, f) == [stack EXCEPT ![t][Len(stack[t])] = f]

Errs(n) == errors + n =< MaxErrors /\ errors' = errors + n

-----------------------------------------------------------------------------
(* src/fdb_database.c.                                                     *)

\* Slip: the future outlives a submission that failed.
KeepFuture(new) == live \cup {Future(new)}

\* What is allocated after a submission that failed: all it made is freed again.
Discarded(new) == live

\* submit_future with the fdb_async_... function that calls it, the last thing a
\* frame does: the callback is registered, or runs at once on this thread, or
\* there is no future, wrapper or registration and what was made is freed again.
\* The tick ends if this was its range read; the other callers look at nothing.
submit_future(t, op, n) ==
    LET f    == Top(t)
        new  == Frame(op, made + 1, f.tick)
        back == [f EXCEPT !.at = "leave"]
    IN  \/ /\ Errs(n)
           /\ live' = live \cup {Future(new), Wrapper(new)}
           /\ made' = made + 1
           /\ \/ stack' = WithTop(t, back) /\ waiting' = waiting \cup {new}
              \/ /\ stack' = [WithTop(t, back) EXCEPT ![t] = Append(@, new)]
                 /\ UNCHANGED waiting
           /\ UNCHANGED stranded
        \/ /\ Errs(n + 1)
           /\ live' = Discarded(new)
           /\ \/ /\ op = "range"
                 /\ stack' = WithTop(t, [f EXCEPT !.at = "finish"])
                 /\ UNCHANGED stranded
              \/ /\ op # "range"
                 /\ stack' = WithTop(t, back)
                 /\ stranded' = stranded \cup {f.tick}
           /\ UNCHANGED <<made, waiting>>

\* FoundationDB's network thread calls back (external).
NetCallback(t) ==
    /\ t = NetThread
    /\ stack[t] = <<>>
    /\ \E f \in waiting : waiting' = waiting \ {f} /\ stack' = [stack EXCEPT ![t] = <<f>>]
    /\ UNCHANGED <<live, made, calls, errors, stranded>>

\* future_callback after its callback, or zf_zonetick_run, returns.
Leave(t) ==
    /\ Running(t, "leave")
    /\ stack' = [stack EXCEPT ![t] = SubSeq(@, 1, Len(@) - 1)]
    /\ live' = IF Top(t).op = "run" THEN live ELSE live \ {Future(Top(t)), Wrapper(Top(t))}
    /\ UNCHANGED <<waiting, made, calls, errors, stranded>>

-----------------------------------------------------------------------------
(* src/zf_zonetick.c.                                                      *)

\* The context and the transaction are there.
zf_zonetick_run(t) ==
    /\ stack[t] = <<>>
    /\ stack' = [stack EXCEPT ![t] = <<Frame("run", 0, calls + 1)>>]
    /\ live' = live \cup {<<"ctx", calls + 1>>, <<"tr", calls + 1>>}
    /\ calls' = calls + 1
    /\ UNCHANGED <<waiting, made, errors, stranded>>

zt_start_range_read(t) == submit_future(t, "range", 0)

Finish(t, ok, n) ==
    /\ stack' = WithTop(t, [Top(t) EXCEPT !.at = "finish", !.ok = ok])
    /\ Errs(n)
    /\ UNCHANGED <<waiting, live, made, stranded>>

\* The callback is given an error; fdb_handle_error submits on_error.
OnError(t) == submit_future(t, "on_error", 1)

zt_on_range_read(t) ==
    \/ OnError(t)
    \/ Finish(t, FALSE, 1)                 \* no key-value array
    \/ submit_future(t, "commit", 0)

\* Slip: the return after fdb_handle_error is missing.
CommitFallsThrough(t) ==
    LET f == Top(t) new == Frame("on_error", made + 1, f.tick)
    IN  \/ /\ Errs(1)
           /\ live' = live \cup {Future(new), Wrapper(new)}
           /\ made' = made + 1
           /\ waiting' = waiting \cup {new}
           /\ stack' = WithTop(t, [f EXCEPT !.at = "finish", !.ok = TRUE])
           /\ UNCHANGED stranded
        \/ Finish(t, TRUE, 0)

\* Slip: a commit that went through is followed by the next read of the zone.
CommitReadsOn(t) == OnError(t) \/ zt_start_range_read(t)

zt_on_commit(t) == OnError(t) \/ Finish(t, TRUE, 0)

\* The innermost frame runs.
Enter(t) ==
    /\ Running(t, "enter")
    /\ \/ Top(t).op \in {"run", "on_error"} /\ zt_start_range_read(t)
       \/ Top(t).op = "range" /\ zt_on_range_read(t)
       \/ Top(t).op = "commit" /\ zt_on_commit(t)
    /\ UNCHANGED calls

\* Slip: the context is freed before done_cb is called from it.
FreeBeforeDone(t) ==
    /\ Running(t, "finish")
    /\ live' = live \ {Tr(Top(t)), Context(Top(t))}
    /\ stack' = WithTop(t, [Top(t) EXCEPT !.at = "done"])
    /\ UNCHANGED <<waiting, made, calls, errors, stranded>>

\* zt_finish: destroy the transaction and call done_cb, which is read from the
\* context; when that has returned, free the context.
zt_finish(t) ==
    /\ Running(t, "finish")
    /\ live' = live \ {Tr(Top(t))}
    /\ stack' = WithTop(t, [Top(t) EXCEPT !.at = "done"])
    /\ UNCHANGED <<waiting, made, calls, errors, stranded>>

\* done_cb returns and the context is freed.
DoneReturns(t) ==
    /\ Running(t, "done")
    /\ live' = live \ {Context(Top(t))}
    /\ stack' = WithTop(t, [Top(t) EXCEPT !.at = "leave"])
    /\ UNCHANGED <<waiting, made, calls, errors, stranded>>

CallNext ==
    \E t \in CallThreads :
        \/ zf_zonetick_run(t) \/ NetCallback(t) \/ Leave(t)
        \/ Enter(t) \/ zt_finish(t) \/ DoneReturns(t)

CallSpec == CallInit /\ [][CallNext]_cvars

-----------------------------------------------------------------------------
(* Properties.                                                             *)

Frames == UNION {{stack[t][i] : i \in 1 .. Len(stack[t])} : t \in CallThreads}

\* What a frame that is still to run, or to go on, will read or free.
Needs(f) ==
    (IF f.op = "run" THEN {} ELSE {Future(f), Wrapper(f)}) \cup
    (IF f.at = "leave" THEN {} ELSE {Context(f)}) \cup
    (IF f.at \in {"enter", "finish"} THEN {Tr(f)} ELSE {})

\* No use after free, and nothing freed twice: whatever frame or registered
\* callback is still to run, on whichever thread and however deep callbacks have
\* nested, what it will read or free is allocated.  (The contract of
\* fdb_database.h: future_callback destroys a future exactly once.)
FramesHaveObjects == \A f \in Frames \cup waiting : Needs(f) \subseteq live

\* No leak: when no thread is inside a tick and no callback is registered, nothing
\* is left but the context and transaction of the ticks whose commit or on_error
\* could not be submitted, which no callback will ever end.
NothingLeaks ==
    Frames \cup waiting = {} =>
        live = {<<"ctx", n>> : n \in stranded} \cup {<<"tr", n>> : n \in stranded}

\* A tick is in one pair of hands, which is why its context needs no lock: it has
\* at most one frame, or registered callback, that has yet to give it up by
\* submitting the next request or ending it, and a stranded tick has none.
OneOwner ==
    \A f, g \in {h \in Frames \cup waiting : h.at # "leave"} :
        f.tick \notin stranded /\ (f.tick = g.tick => f = g)

\* Nesting is bounded: when every future is ready at once, callbacks run inside one
\* another, but only an error lets a thread nest deeper than the call, its range read
\* and its commit, and each error by no more than another three frames.
StackBounded == \A t \in CallThreads : Len(stack[t]) =< 3 * (errors + 1)
=============================================================================
