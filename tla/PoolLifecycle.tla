----------------------------- MODULE PoolLifecycle -----------------------------
(*****************************************************************************)
(* The life of a tracker_pool and of its maintenance thread: registration,   *)
(* mfs_init_file_system, mfs_close_file_system (src/src/pool.c, file.c).     *)
(*                                                                           *)
(* The application is one thread; a worker is a thread that runs             *)
(* mfs_pool_maintenance.  They share volatile flags and a condition          *)
(* variable.  Both hold maintenance_mutex only around one call on the        *)
(* condition, so each of those sections is one step and the mutex is not a   *)
(* variable.  What a pass does to the trackers is the subject of TrackerPool.*)
(*****************************************************************************)
EXTENDS Naturals, FiniteSets

CONSTANTS
    Workers,                \* identities of the threads that can be created
    None,                   \* the null pointer
    MaxTrackers,            \* max_tracker_count
    Unresolvable,           \* TRUE: an address may fail to resolve
    CheckMax                \* stands for APR_UINT32_MAX

ASSUME WorkersAssumption == IsFiniteSet(Workers) /\ None \notin Workers
ASSUME LifecycleCountsAssumption ==
    MaxTrackers \in Nat \ {0} /\ CheckMax \in Nat \ {0}
ASSUME UsageAssumption == Unresolvable \in BOOLEAN

VARIABLES
    allow,                          \* mfs_allow_maintenance_thread
    pool_running,
    maintenance_thread,             \* the handle kept for the join
    maintenance_thread_running,
    maintenance_thread_check_count,
    tokens,                         \* addresses still to be registered
    tracker_count,
    worker,                         \* per worker: where it is in its loop
    app,                            \* the call the application makes next
    slot,                           \* the index mfs_destroy_pool has reached
    crashed                         \* a null mutex was locked

flags == <<allow, maintenance_thread_running, maintenance_thread_check_count>>
vars == <<allow, pool_running, maintenance_thread, maintenance_thread_running,
          maintenance_thread_check_count, tokens, tracker_count, worker, app,
          slot, crashed>>

Free == {w \in Workers : worker[w] = "none"}
Waiting == {w \in Workers : worker[w] = "waiting"}
-------------------------------------------------------------------------------
(* The application.                                                          *)

\* mfs_pool_init.  Maintenance is allowed unless the application disabled it
\* before, as tests/test_pools.c:39 does.
Init ==
    /\ allow \in BOOLEAN
    /\ pool_running = TRUE
    /\ maintenance_thread = None
    /\ maintenance_thread_running = FALSE
    /\ maintenance_thread_check_count = 0
    /\ tokens = MaxTrackers
    /\ tracker_count = 0
    /\ worker = [w \in Workers |-> "none"]
    /\ app = "register"
    /\ slot = 0
    /\ crashed = FALSE

\* The effect of mfs_pool_start_maintenance_thread: the handle of an earlier
\* thread, if any, is overwritten.
mfs_pool_start_maintenance_thread ==
    IF allow
    THEN /\ pool_running' = TRUE
         /\ \E w \in Free :
               /\ maintenance_thread' = w
               /\ worker' = [worker EXCEPT ![w] = "begin"]
    ELSE UNCHANGED <<pool_running, maintenance_thread, worker>>

\* mfs_pool_register_tracker: the call that fills the pool starts the thread.
register_tracker ==
    /\ app = "register" /\ tokens > 0
    /\ tokens' = tokens - 1
    /\ tracker_count' = tracker_count + 1
    /\ IF tracker_count' = MaxTrackers
       THEN mfs_pool_start_maintenance_thread
       ELSE UNCHANGED <<pool_running, maintenance_thread, worker>>
    /\ UNCHANGED <<flags, app, slot, crashed>>

register_unresolved ==
    /\ app = "register" /\ tokens > 0 /\ Unresolvable
    /\ tokens' = tokens - 1
    /\ UNCHANGED <<flags, pool_running, maintenance_thread, tracker_count,
                   worker, app, slot, crashed>>

registered ==
    /\ app = "register" /\ tokens = 0
    /\ app' = "init"
    /\ UNCHANGED <<flags, pool_running, maintenance_thread, tokens,
                   tracker_count, worker, slot, crashed>>

\* mfs_pool_enable_maintenance and mfs_pool_disable_maintenance, called once
\* the trackers are registered.
mfs_pool_enable_maintenance ==
    /\ app = "init" /\ ~allow
    /\ allow' = TRUE
    /\ UNCHANGED <<pool_running, maintenance_thread, maintenance_thread_running,
                   maintenance_thread_check_count, tokens, tracker_count, worker,
                   app, slot, crashed>>

mfs_pool_disable_maintenance ==
    /\ app = "init" /\ allow
    /\ allow' = FALSE
    /\ UNCHANGED <<pool_running, maintenance_thread, maintenance_thread_running,
                   maintenance_thread_check_count, tokens, tracker_count, worker,
                   app, slot, crashed>>

\* mfs_init_file_system starts the thread whether or not registration did.
mfs_init_file_system ==
    /\ app = "init"
    /\ mfs_pool_start_maintenance_thread
    /\ app' = "use"
    /\ UNCHANGED <<flags, tokens, tracker_count, slot, crashed>>

\* mfs_close_file_system calls mfs_pool_stop_maintenance_thread, which does
\* nothing without a thread handle and otherwise clears pool_running ...
stop_clears_flag ==
    /\ app = "use"
    /\ IF maintenance_thread # None
       THEN pool_running' = FALSE /\ app' = "signal"
       ELSE app' = "destroy" /\ UNCHANGED pool_running
    /\ UNCHANGED <<flags, maintenance_thread, tokens, tracker_count, worker,
                   slot, crashed>>

\* ... signals the condition, which wakes one waiting thread if there is one ...
stop_signals ==
    /\ app = "signal"
    /\ IF Waiting = {}
       THEN UNCHANGED worker
       ELSE \E w \in Waiting : worker' = [worker EXCEPT ![w] = "check"]
    /\ app' = "join"
    /\ UNCHANGED <<flags, pool_running, maintenance_thread, tokens,
                   tracker_count, slot, crashed>>

\* Mutant: the thread is not waited for.
stop_without_join ==
    /\ app = "join"
    /\ app' = "destroy"
    /\ UNCHANGED <<flags, pool_running, maintenance_thread, tokens,
                   tracker_count, worker, slot, crashed>>

\* ... and joins the thread of the handle.
stop_joins ==
    /\ app = "join"
    /\ worker[maintenance_thread] = "exited"
    /\ app' = "destroy"
    /\ UNCHANGED <<flags, pool_running, maintenance_thread, tokens,
                   tracker_count, worker, slot, crashed>>

\* mfs_destroy_pool, one tracker: its connections are popped under its mutex,
\* which exists only if a tracker was registered there.
mfs_destroy_connection_pool ==
    /\ app = "destroy" /\ ~crashed /\ slot < MaxTrackers
    /\ crashed' = (slot >= tracker_count)
    /\ slot' = slot + 1
    /\ UNCHANGED <<flags, pool_running, maintenance_thread, tokens,
                   tracker_count, worker, app>>

\* mfs_destroy_pool, the end: locks, condition and memory are gone.
mfs_destroy_pool ==
    /\ app = "destroy" /\ ~crashed /\ slot = MaxTrackers
    /\ app' = "destroyed"
    /\ UNCHANGED <<flags, pool_running, maintenance_thread, tokens,
                   tracker_count, worker, slot, crashed>>
-------------------------------------------------------------------------------
(* mfs_pool_maintenance in worker w.                                         *)

begin(w) ==
    /\ worker[w] = "begin"
    /\ maintenance_thread_running' = TRUE
    /\ worker' = [worker EXCEPT ![w] = "check"]
    /\ UNCHANGED <<allow, pool_running, maintenance_thread,
                   maintenance_thread_check_count, tokens, tracker_count, app,
                   slot, crashed>>

check_running(w) ==
    /\ worker[w] = "check"
    /\ worker' = [worker EXCEPT ![w] = IF pool_running THEN "pass" ELSE "exited"]
    /\ UNCHANGED <<flags, pool_running, maintenance_thread, tokens,
                   tracker_count, app, slot, crashed>>

\* Mutant: the counter is not reset before it overflows.
pass_no_wrap(w) ==
    /\ worker[w] = "pass"
    /\ maintenance_thread_check_count' = maintenance_thread_check_count + 1
    /\ worker' = [worker EXCEPT ![w] = "sleep"]
    /\ UNCHANGED <<allow, pool_running, maintenance_thread,
                   maintenance_thread_running, tokens, tracker_count, app, slot,
                   crashed>>

\* The tests of the inactive and the expiry of the active trackers.
pass(w) ==
    /\ worker[w] = "pass"
    /\ maintenance_thread_check_count' =
          IF maintenance_thread_check_count + 1 = CheckMax
          THEN 0 ELSE maintenance_thread_check_count + 1
    /\ worker' = [worker EXCEPT ![w] = "sleep"]
    /\ UNCHANGED <<allow, pool_running, maintenance_thread,
                   maintenance_thread_running, tokens, tracker_count, app, slot,
                   crashed>>

\* Locks the mutex and waits, without another look at pool_running.
sleep(w) ==
    /\ worker[w] = "sleep"
    /\ worker' = [worker EXCEPT ![w] = "waiting"]
    /\ UNCHANGED <<flags, pool_running, maintenance_thread, tokens,
                   tracker_count, app, slot, crashed>>

\* Mutant: apr_thread_cond_wait in place of the timed wait.
no_time_out(w) == worker[w] = "waiting" /\ UNCHANGED vars

\* MFS_POOL_MAINTENANCE_POLL_TIME has passed.
time_out(w) ==
    /\ worker[w] = "waiting"
    /\ worker' = [worker EXCEPT ![w] = "check"]
    /\ UNCHANGED <<flags, pool_running, maintenance_thread, tokens,
                   tracker_count, app, slot, crashed>>

\* After mfs_destroy_pool or a crash the process is not followed further.
Over == app = "destroyed" \/ crashed

AppStep ==
    \/ register_tracker \/ register_unresolved \/ registered
    \/ mfs_pool_enable_maintenance \/ mfs_pool_disable_maintenance
    \/ mfs_init_file_system
    \/ stop_clears_flag \/ stop_signals \/ stop_joins
    \/ mfs_destroy_connection_pool \/ mfs_destroy_pool

WorkerStep(w) ==
    begin(w) \/ check_running(w) \/ pass(w) \/ sleep(w) \/ time_out(w)

Next ==
    \/ AppStep
    \/ \E w \in Workers : WorkerStep(w)
    \/ Over /\ UNCHANGED vars

Spec == Init /\ [][Next]_vars

\* Every thread that can run does, and a timed wait ends; once it has begun to
\* close the file system the application goes on to the end of that call.
FairSpec ==
    /\ Spec
    /\ \A w \in Workers : WF_vars(WorkerStep(w))
    /\ WF_vars(stop_signals \/ stop_joins)
-------------------------------------------------------------------------------
TypeOK ==
    /\ allow \in BOOLEAN /\ pool_running \in BOOLEAN
    /\ maintenance_thread \in Workers \cup {None}
    /\ maintenance_thread_running \in BOOLEAN
    /\ maintenance_thread_check_count \in 0 .. CheckMax - 1
    /\ tokens \in 0 .. MaxTrackers /\ tracker_count \in 0 .. MaxTrackers
    /\ worker \in [Workers -> {"none", "begin", "check", "pass", "sleep",
                               "waiting", "exited"}]
    /\ app \in {"register", "init", "use", "signal", "join", "destroy", "destroyed"}
    /\ slot \in 0 .. MaxTrackers
    /\ crashed \in BOOLEAN

Running(w) == worker[w] \notin {"none", "exited"}

\* When mfs_destroy_pool tears the pool down no maintenance thread runs any
\* more: pool_running is "used to let maintenance_thread shutdown"
\* (mogile_fs.h:168) before the memory it works on is released.
NoUseAfterDestroy ==
    (app \in {"destroy", "destroyed"}) => \A w \in Workers : ~Running(w)

\* A thread that still runs when the pool is torn down is one whose handle a later
\* start overwrote: mfs_close_file_system has waited for the thread of the handle,
\* whichever call started it and wherever it was when it was told to stop
\* (pool.c:360-367, 107).  In particular no thread runs if only one was started.
DestroySafe ==
    app \in {"destroy", "destroyed"} =>
        \A w \in Workers : Running(w) => maintenance_thread \notin {w, None}

\* tracker_count is the "max number of trackers that can be registered..."
\* (mogile_fs.h:176), so that a pool of which slots stayed empty can be destroyed
\* like any other.
NoNullMutex == ~crashed

\* mfs_pool_stop_maintenance_thread returns although its signal may come when
\* the thread is not waiting yet (pool.c:360-365 against 387-389).
StopReturns == app = "signal" ~> app = "destroy"
================================================================================
