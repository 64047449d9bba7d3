----------------------------- MODULE ZoneServer -----------------------------
(***************************************************************************)
(* src/main.c: the zone server's start, its worker threads and its end,    *)
(* with the set-up and clean-up functions of src/fdb_database.c.           *)
(*                                                                         *)
(* main starts the workers, lends its own thread to fdb_run_network, and   *)
(* when that returns stops, joins and cleans up the workers one by one.    *)
(* Nothing in the process makes fdb_run_network return: that step is       *)
(* FoundationDB's (external) and may never come.                           *)
(***************************************************************************)
EXTENDS Integers

CONSTANTS
    MaxWorkers,   \* the longest array of thread_ctx_t there is memory for
    WorkerArgs,   \* values of option -a
    SizeWidth,    \* 2^64: the values of size_t
    ZoneWidth,    \* 2^32: the values of uint32_t
    ZoneArgs      \* values of option -z; absent, z_id is -1

ASSUME ServerAssumption ==
    /\ MaxWorkers \in Nat
    /\ WorkerArgs \subseteq Int
    /\ SizeWidth \in Nat \ {0}
    /\ ZoneWidth \in Nat \ {0}
    /\ ZoneArgs \subseteq Int

VARIABLES
    pc,            \* where main is
    i,             \* its loop variable
    z_arg,         \* the long z_id of main
    worker_count,  \* option -a, an int cast to size_t
    threads,       \* the thread_ctx_t array: [running, db, z_id] each
    worker,        \* the thread behind each: "none", "test", "sleep", "returned"
    network        \* "none", "set_up", "stopped"

vars == <<pc, i, z_arg, worker_count, threads, worker, network>>

Slots == 0 .. (MaxWorkers - 1)
Used == {t \in Slots : t < worker_count}

NoCtx == [running |-> FALSE, db |-> FALSE, z_id |-> 0]     \* calloc

Init ==
    /\ pc = "options"
    /\ i = 0
    /\ z_arg \in ZoneArgs \cup {-1}
    /\ worker_count \in {a % SizeWidth : a \in WorkerArgs}
    /\ threads = [t \in Slots |-> NoCtx]
    /\ worker = [t \in Slots |-> "none"]
    /\ network = "none"

-----------------------------------------------------------------------------
(* main.                                                                   *)

\* -z is required; then fdb_global_init, which sets up the network or fails.
fdb_global_init ==
    /\ pc = "options"
    /\ \/ pc' = "exit" /\ UNCHANGED network
       \/ z_arg >= 0 /\ pc' = "alloc" /\ network' = "set_up"
    /\ UNCHANGED <<i, z_arg, worker_count, threads, worker>>

\* calloc, whose result is not looked at: without an array the first store of
\* the start loop ends the process.
AllocThreads ==
    /\ pc = "alloc"
    /\ \/ worker_count =< MaxWorkers /\ pc' = "start"
       \/ worker_count > 0 /\ pc' = "crashed"
    /\ UNCHANGED <<i, z_arg, worker_count, threads, worker, network>>

\* One turn of the start loop.  Neither fdb_thread_init, which leaves db NULL
\* when it fails, nor pthread_create is checked.
StartWorker ==
    /\ pc = "start" /\ i < worker_count
    /\ \E db \in BOOLEAN :
         threads' = [threads EXCEPT ![i] =
                        [running |-> TRUE, db |-> db, z_id |-> z_arg % ZoneWidth]]
    /\ \E created \in BOOLEAN :
         worker' = [worker EXCEPT ![i] = IF created THEN "test" ELSE "none"]
    /\ i' = i + 1
    /\ UNCHANGED <<pc, z_arg, worker_count, network>>

\* The start loop is over: main is inside fdb_run_network.
RunNetwork ==
    /\ pc = "start" /\ i = worker_count
    /\ pc' = "network"
    /\ UNCHANGED <<i, z_arg, worker_count, threads, worker, network>>

\* fdb_run_network returns (external).
NetworkReturns ==
    /\ pc = "network"
    /\ pc' = "stop" /\ i' = 0
    /\ UNCHANGED <<z_arg, worker_count, threads, worker, network>>

\* Slip: joins a worker that was not told to stop.
JoinWithoutStop ==
    /\ pc = "stop" /\ i < worker_count
    /\ pc' = "join"
    /\ UNCHANGED <<i, z_arg, worker_count, threads, worker, network>>

\* threads[i].running = false.
StopWorker ==
    /\ pc = "stop" /\ i < worker_count
    /\ threads' = [threads EXCEPT ![i].running = FALSE]
    /\ pc' = "join"
    /\ UNCHANGED <<i, z_arg, worker_count, worker, network>>

\* Slips: no pthread_join, and no fdb_thread_cleanup.
CleanupWithoutJoin ==
    /\ pc = "join"
    /\ threads' = [threads EXCEPT ![i].db = FALSE]
    /\ pc' = "stop" /\ i' = i + 1
    /\ UNCHANGED <<z_arg, worker_count, worker, network>>

JoinWithoutCleanup ==
    /\ pc = "join"
    /\ worker[i] \in {"returned", "none"}
    /\ pc' = "stop" /\ i' = i + 1
    /\ UNCHANGED <<z_arg, worker_count, threads, worker, network>>

\* pthread_join and fdb_thread_cleanup.  Joining a thread that was never created
\* is undefined: the call returns or the process dies in it.
JoinWorker ==
    /\ pc = "join"
    /\ \/ /\ worker[i] \in {"returned", "none"}
          /\ threads' = [threads EXCEPT ![i].db = FALSE]
          /\ pc' = "stop" /\ i' = i + 1
       \/ /\ worker[i] = "none"
          /\ pc' = "exit"
          /\ UNCHANGED <<i, threads>>
    /\ UNCHANGED <<z_arg, worker_count, worker, network>>

\* The stop loop is over: free(threads).
FreeThreads ==
    /\ pc = "stop" /\ i = worker_count
    /\ pc' = "freed"
    /\ UNCHANGED <<i, z_arg, worker_count, threads, worker, network>>

\* fdb_stop_network, and main returns.
fdb_global_cleanup ==
    /\ pc = "freed"
    /\ pc' = "exit"
    /\ network' = "stopped"
    /\ UNCHANGED <<i, z_arg, worker_count, threads, worker>>

main ==
    \/ fdb_global_init \/ AllocThreads \/ StartWorker \/ RunNetwork \/ StopWorker \/ JoinWorker
    \/ FreeThreads \/ fdb_global_cleanup

\* A worker tests `running`, then sleeps 50 ms or returns.
worker_main(t) ==
    /\ pc \notin {"exit", "crashed"}
    /\ \/ worker[t] = "test"
          /\ worker' = [worker EXCEPT ![t] =
                           IF threads[t].running THEN "sleep" ELSE "returned"]
       \/ worker[t] = "sleep"
          /\ worker' = [worker EXCEPT ![t] = "test"]
    /\ UNCHANGED <<pc, i, z_arg, worker_count, threads, network>>

Next == main \/ NetworkReturns \/ \E t \in Slots : worker_main(t)

Spec == Init /\ [][Next]_vars

\* Every thread is scheduled; fdb_run_network owes nobody a return.
FairSpec == Spec /\ WF_vars(main) /\ \A t \in Slots : WF_vars(worker_main(t))

-----------------------------------------------------------------------------
(* Properties.                                                             *)

\* Every variable has its type.
TypeOK ==
    /\ pc \in {"options", "alloc", "start", "network", "stop", "join", "freed", "exit",
               "crashed"}
    /\ i \in 0 .. MaxWorkers
    /\ z_arg \in ZoneArgs \cup {-1}
    /\ worker_count \in 0 .. (SizeWidth - 1)
    /\ threads \in [Slots -> [running : BOOLEAN, db : BOOLEAN, z_id : 0 .. (ZoneWidth - 1)]]
    /\ worker \in [Slots -> {"none", "test", "sleep", "returned"}]
    /\ network \in {"none", "set_up", "stopped"}

\* No worker outlives what it reads: a worker that may still test `running` has
\* its thread_ctx_t, and one that may still use its database has it open.  A count
\* there is no memory for, a negative -a included, ends the process before it has
\* a worker.
WorkersHaveMemory ==
    /\ worker_count > MaxWorkers \/ pc = "crashed" => \A t \in Slots : worker[t] = "none"
    /\ pc = "freed" => \A t \in Slots : worker[t] \in {"none", "returned"}
    /\ \A t \in Used : t < i /\ pc \in {"stop", "join", "freed"}
                            => worker[t] \in {"none", "returned"} /\ ~ threads[t].db

\* A server that ends by way of its clean-up leaves no database handle open and
\* no worker behind, however many workers it was asked for.
CleanExit ==
    network = "stopped" =>
        \A t \in Slots : ~ threads[t].db /\ ~ threads[t].running
                           /\ worker[t] \in {"none", "returned"}

\* Once fdb_run_network has returned the server ends: no join waits for ever.
ShutsDown == pc = "stop" ~> pc = "exit"
=============================================================================
