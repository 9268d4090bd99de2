-------------------------- MODULE PoolLifecycle_proofs --------------------------
(*****************************************************************************)
(* Proofs about the life of a tracker_pool, for every number of trackers,    *)
(* threads and maintenance passes.                                           *)
(*****************************************************************************)
EXTENDS PoolLifecycle, TLAPS

USE WorkersAssumption, LifecycleCountsAssumption, UsageAssumption

\* No tracker is registered without an address.
Counted == tracker_count + tokens <= MaxTrackers

Safe == TypeOK /\ Counted

LEMMA SafeInit == Init => Safe
<1> SUFFICES ASSUME Init PROVE Safe
  OBVIOUS
<1>1. allow \in BOOLEAN /\ pool_running \in BOOLEAN
      /\ maintenance_thread_running \in BOOLEAN /\ crashed \in BOOLEAN
  BY Zenon DEF Init
<1>2. maintenance_thread_check_count \in 0 .. CheckMax - 1
      /\ tokens \in 0 .. MaxTrackers /\ tracker_count \in 0 .. MaxTrackers
      /\ slot \in 0 .. MaxTrackers /\ Counted
  BY DEF Init, Counted
<1> QED BY <1>1, <1>2, Zenon DEF Init, Safe, TypeOK

LEMMA SafeStep == Safe /\ [Next]_vars => Safe'
<1> SUFFICES ASSUME Safe, [Next]_vars PROVE Safe'
  OBVIOUS
<1> USE DEF Safe, TypeOK, Counted, flags
<1>1. CASE register_tracker
  <2>1. /\ tokens' \in 0 .. MaxTrackers /\ tracker_count' \in 0 .. MaxTrackers
        /\ tracker_count' + tokens' <= MaxTrackers
    BY <1>1 DEF register_tracker
  <2>2. CASE tracker_count' = MaxTrackers
    BY <1>1, <2>1, <2>2 DEF register_tracker, mfs_pool_start_maintenance_thread, Free
  <2>3. CASE tracker_count' # MaxTrackers
    BY <1>1, <2>1, <2>3 DEF register_tracker
  <2> QED BY <2>2, <2>3
<1>2. CASE register_unresolved
  BY <1>2 DEF register_unresolved
<1>3. CASE registered
  BY <1>3 DEF registered
<1>4. CASE mfs_pool_enable_maintenance
  BY <1>4 DEF mfs_pool_enable_maintenance
<1>5. CASE mfs_pool_disable_maintenance
  BY <1>5 DEF mfs_pool_disable_maintenance
<1>6. CASE mfs_init_file_system
  BY <1>6 DEF mfs_init_file_system, mfs_pool_start_maintenance_thread, Free
<1>7. CASE stop_clears_flag
  BY <1>7 DEF stop_clears_flag
<1>8. CASE stop_signals
  BY <1>8 DEF stop_signals, Waiting
<1>9. CASE stop_joins
  BY <1>9 DEF stop_joins
<1>10. CASE mfs_destroy_connection_pool
  BY <1>10 DEF mfs_destroy_connection_pool
<1>11. CASE mfs_destroy_pool
  BY <1>11 DEF mfs_destroy_pool
<1>12. ASSUME NEW w \in Workers, begin(w) PROVE Safe'
  BY <1>12 DEF begin
<1>13. ASSUME NEW w \in Workers, check_running(w) PROVE Safe'
  BY <1>13 DEF check_running
<1>14. ASSUME NEW w \in Workers, pass(w) PROVE Safe'
  BY <1>14 DEF pass
<1>15. ASSUME NEW w \in Workers, sleep(w) PROVE Safe'
  BY <1>15 DEF sleep
<1>16. ASSUME NEW w \in Workers, time_out(w) PROVE Safe'
  BY <1>16 DEF time_out
<1>17. CASE UNCHANGED vars
  BY <1>17 DEF vars
<1> QED
  BY <1>1, <1>2, <1>3, <1>4, <1>5, <1>6, <1>7, <1>8, <1>9, <1>10, <1>11, <1>12,
     <1>13, <1>14, <1>15, <1>16, <1>17 DEF Next, AppStep, WorkerStep

LEMMA AlwaysSafe == Spec => []Safe
  BY SafeInit, SafeStep, PTL DEF Spec

\* Every variable keeps its type; in particular the pass counter is always below
\* the value at which it would overflow (pool.c:384-386), and no more trackers
\* are counted than the pool has slots.
THEOREM LifecycleTypeCorrect == Spec => []TypeOK
<1>1. Safe => TypeOK
  BY DEF Safe
<1> QED BY <1>1, AlwaysSafe, PTL
-------------------------------------------------------------------------------
(* The handle is that of the thread started last, which is joined.           *)

\* A handle exists once a thread was started, and when the pool is destroyed the
\* thread of the handle has ended.
Joined ==
    /\ maintenance_thread = None => \A w \in Workers : worker[w] = "none"
    /\ maintenance_thread # None => worker[maintenance_thread] # "none"
    /\ app \in {"signal", "join"} => maintenance_thread # None
    /\ app \in {"destroy", "destroyed"} /\ maintenance_thread # None =>
          worker[maintenance_thread] = "exited"

LEMMA JoinedInit == Init => Joined
  BY DEF Init, Joined

LEMMA JoinedStep == Safe /\ Joined /\ [Next]_vars => Joined'
<1> SUFFICES ASSUME Safe, Joined, [Next]_vars PROVE Joined'
  OBVIOUS
<1> USE DEF Safe, TypeOK, Joined, flags
<1>1. CASE register_tracker
  <2>1. app = "register" /\ UNCHANGED app
    BY <1>1 DEF register_tracker
  <2>2. CASE UNCHANGED <<maintenance_thread, worker>>
    BY <2>1, <2>2
  <2>3. CASE mfs_pool_start_maintenance_thread /\ allow
    BY <2>1, <2>3 DEF mfs_pool_start_maintenance_thread, Free
  <2> QED
    BY <1>1, <2>2, <2>3, Zenon DEF register_tracker, mfs_pool_start_maintenance_thread
<1>2. CASE register_unresolved
  BY <1>2 DEF register_unresolved
<1>3. CASE registered
  BY <1>3 DEF registered
<1>4. CASE mfs_pool_enable_maintenance
  BY <1>4 DEF mfs_pool_enable_maintenance
<1>5. CASE mfs_pool_disable_maintenance
  BY <1>5 DEF mfs_pool_disable_maintenance
<1>6. CASE mfs_init_file_system
  BY <1>6 DEF mfs_init_file_system, mfs_pool_start_maintenance_thread, Free
<1>7. CASE stop_clears_flag
  BY <1>7 DEF stop_clears_flag
<1>8. CASE stop_signals
  BY <1>8 DEF stop_signals, Waiting
<1>9. CASE stop_joins
  BY <1>9 DEF stop_joins
<1>10. CASE mfs_destroy_connection_pool
  BY <1>10 DEF mfs_destroy_connection_pool
<1>11. CASE mfs_destroy_pool
  BY <1>11 DEF mfs_destroy_pool
<1>12. ASSUME NEW w \in Workers, begin(w) PROVE Joined'
  BY <1>12 DEF begin
<1>13. ASSUME NEW w \in Workers, check_running(w) PROVE Joined'
  BY <1>13 DEF check_running
<1>14. ASSUME NEW w \in Workers, pass(w) PROVE Joined'
  BY <1>14 DEF pass
<1>15. ASSUME NEW w \in Workers, sleep(w) PROVE Joined'
  BY <1>15 DEF sleep
<1>16. ASSUME NEW w \in Workers, time_out(w) PROVE Joined'
  BY <1>16 DEF time_out
<1>17. CASE UNCHANGED vars
  BY <1>17 DEF vars
<1> QED
  BY <1>1, <1>2, <1>3, <1>4, <1>5, <1>6, <1>7, <1>8, <1>9, <1>10, <1>11, <1>12,
     <1>13, <1>14, <1>15, <1>16, <1>17 DEF Next, AppStep, WorkerStep

\* Whichever calls started maintenance threads, mfs_destroy_pool runs after the
\* one whose handle was kept has left mfs_pool_maintenance (pool.c:107, 360-367).
THEOREM DestroyCorrect == Spec => []DestroySafe
<1>1. Safe /\ Joined => DestroySafe
  BY DEF Safe, TypeOK, Joined, DestroySafe, Running
<1> QED BY <1>1, JoinedInit, JoinedStep, AlwaysSafe, PTL DEF Spec
================================================================================
