------------------------------ MODULE TrackerLists ------------------------------
(*****************************************************************************)
(* The active and inactive tracker lists of a tracker_pool (src/src/pool.c): *)
(* two int arrays of max_tracker_count cells with a count each, filled by    *)
(* mfs_pool_register_tracker and shuffled by mfs_pool_activate and           *)
(* mfs_pool_deactivate, each of which holds the pool's write lock from its   *)
(* first to its last access to the lists and is one step here.               *)
(*                                                                           *)
(* The arrays come from apr_palloc, which does not clear them, and           *)
(* remove_from_array reads one cell past the elements it moves, past the end *)
(* of the array when the list is full: Garbage is what those reads return.   *)
(*****************************************************************************)
EXTENDS Integers

CONSTANTS
    MaxTrackers,    \* max_tracker_count: the argument of mfs_pool_init
    Garbage,        \* the ints that uninitialised or foreign memory may hold
    EarlyUse        \* TRUE: threads use the pool before the last register call

ASSUME MaxTrackersAssumption == MaxTrackers \in Nat \ {0}
ASSUME GarbageAssumption == Garbage # {} /\ Garbage \subseteq Int
ASSUME EarlyUseAssumption == EarlyUse \in BOOLEAN

VARIABLES
    tracker_count,              \* trackers registered so far
    active_trackers,            \* the array of active indexes
    active_tracker_count,       \* how many of its cells are in use
    inactive_trackers,          \* the array of inactive indexes
    inactive_tracker_count,     \* how many of its cells are in use
    maintenance_started,        \* the last register call started the thread
    tokens,                     \* addresses the caller has still to register
    in_use                      \* the pool has been handed to the threads

lists == <<active_trackers, active_tracker_count,
           inactive_trackers, inactive_tracker_count>>
vars == <<tracker_count, active_trackers, active_tracker_count,
          inactive_trackers, inactive_tracker_count,
          maintenance_started, tokens, in_use>>

Slot == 0 .. MaxTrackers - 1
Cell == Slot \cup Garbage

\* The indexes a list holds: the cells below its count.
Listed(values, length) == {values[i] : i \in 0 .. length - 1}
Active == Listed(active_trackers, active_tracker_count)
Inactive == Listed(inactive_trackers, inactive_tracker_count)
-------------------------------------------------------------------------------
\* Mutant of remove_from_array: the matching cell itself is not overwritten.
remove_after_match(values, length, test, foreign) ==
    [i \in Slot |->
        IF i < length /\ test \in Listed(values, i)
        THEN IF i + 1 \in Slot THEN values[i + 1] ELSE foreign
        ELSE values[i]]

\* The array after remove_from_array(values, length, test): every cell from the
\* first match to the end of the list takes the value of its right neighbour;
\* the neighbour of the last cell of the array is foreign memory.
remove_from_array(values, length, test, foreign) ==
    [i \in Slot |->
        IF i < length /\ test \in Listed(values, i + 1)
        THEN IF i + 1 \in Slot THEN values[i + 1] ELSE foreign
        ELSE values[i]]

\* mfs_pool_init; mfs_pool_init_quick sizes the arrays by the commas of its
\* argument, and empty or unresolvable entries leave fewer addresses than that.
Init ==
    /\ tracker_count = 0
    /\ active_trackers \in [Slot -> Cell]
    /\ active_tracker_count = 0
    /\ inactive_trackers \in [Slot -> Cell]
    /\ inactive_tracker_count = 0
    /\ maintenance_started = FALSE
    /\ tokens \in 0 .. MaxTrackers
    /\ in_use = FALSE

\* Mutant: the new tracker is filed one cell further on.
register_next_cell ==
    /\ tokens > 0
    /\ tracker_count # MaxTrackers
    /\ active_trackers' =
          [active_trackers EXCEPT ![tracker_count + 1] = tracker_count]
    /\ active_tracker_count' = active_tracker_count + 1
    /\ tracker_count' = tracker_count + 1
    /\ maintenance_started' = (tracker_count' = MaxTrackers)
    /\ tokens' = tokens - 1
    /\ UNCHANGED <<inactive_trackers, inactive_tracker_count, in_use>>

\* mfs_pool_register_tracker with an address that resolves.  The call takes no
\* lock.  It files the tracker in the cell numbered tracker_count, and starts
\* the maintenance thread when the pool is full.
mfs_pool_register_tracker ==
    /\ tokens > 0
    /\ tracker_count # MaxTrackers
    /\ active_trackers' = [active_trackers EXCEPT ![tracker_count] = tracker_count]
    /\ active_tracker_count' = active_tracker_count + 1
    /\ tracker_count' = tracker_count + 1
    /\ maintenance_started' = (tracker_count' = MaxTrackers)
    /\ tokens' = tokens - 1
    /\ UNCHANGED <<inactive_trackers, inactive_tracker_count, in_use>>

\* mfs_pool_register_tracker when mfs_tracker_init2 cannot resolve the address:
\* an early return that leaves the pool as it was.
register_unresolved ==
    /\ tokens > 0
    /\ tokens' = tokens - 1
    /\ UNCHANGED <<tracker_count, lists, maintenance_started, in_use>>

\* mfs_pool_init_quick returns once its list is consumed; an application that
\* registers trackers itself may start using the pool earlier.
hand_out ==
    /\ ~in_use
    /\ EarlyUse \/ tokens = 0
    /\ in_use' = TRUE
    /\ UNCHANGED <<tracker_count, lists, maintenance_started, tokens>>

\* Mutant: a second activate call for the same tracker is not discarded.
activate_again(t, foreign) ==
    /\ in_use
    /\ t \in 0 .. tracker_count - 1
    /\ inactive_trackers' =
          remove_from_array(inactive_trackers, inactive_tracker_count, t, foreign)
    /\ inactive_tracker_count' = inactive_tracker_count - 1
    /\ active_trackers' = [active_trackers EXCEPT ![active_tracker_count] = t]
    /\ active_tracker_count' = active_tracker_count + 1
    /\ UNCHANGED <<tracker_count, maintenance_started, tokens, in_use>>

mfs_pool_activate(t, foreign) ==
    /\ in_use
    /\ t \in Inactive
    /\ inactive_trackers' =
          remove_from_array(inactive_trackers, inactive_tracker_count, t, foreign)
    /\ inactive_tracker_count' = inactive_tracker_count - 1
    /\ active_trackers' = [active_trackers EXCEPT ![active_tracker_count] = t]
    /\ active_tracker_count' = active_tracker_count + 1
    /\ UNCHANGED <<tracker_count, maintenance_started, tokens, in_use>>

\* Mutant: the active count is not decremented.
deactivate_uncounted(t, foreign) ==
    /\ in_use
    /\ t \in Active
    /\ active_trackers' =
          remove_from_array(active_trackers, active_tracker_count, t, foreign)
    /\ inactive_trackers' = [inactive_trackers EXCEPT ![inactive_tracker_count] = t]
    /\ inactive_tracker_count' = inactive_tracker_count + 1
    /\ UNCHANGED <<tracker_count, active_tracker_count, maintenance_started,
                   tokens, in_use>>

mfs_pool_deactivate(t, foreign) ==
    /\ in_use
    /\ t \in Active
    /\ active_trackers' =
          remove_from_array(active_trackers, active_tracker_count, t, foreign)
    /\ active_tracker_count' = active_tracker_count - 1
    /\ inactive_trackers' = [inactive_trackers EXCEPT ![inactive_tracker_count] = t]
    /\ inactive_tracker_count' = inactive_tracker_count + 1
    /\ UNCHANGED <<tracker_count, maintenance_started, tokens, in_use>>

Next ==
    \/ mfs_pool_register_tracker
    \/ register_unresolved
    \/ hand_out
    \/ \E t \in Slot, foreign \in Cell :
          mfs_pool_activate(t, foreign) \/ mfs_pool_deactivate(t, foreign)

Spec == Init /\ [][Next]_vars
-------------------------------------------------------------------------------
TypeOK ==
    /\ tracker_count \in 0 .. MaxTrackers
    /\ active_trackers \in [Slot -> Cell]
    /\ active_tracker_count \in 0 .. MaxTrackers
    /\ inactive_trackers \in [Slot -> Cell]
    /\ inactive_tracker_count \in 0 .. MaxTrackers
    /\ maintenance_started \in BOOLEAN
    /\ tokens \in 0 .. MaxTrackers
    /\ in_use \in BOOLEAN

\* A list names no tracker twice.
Distinct(values, length) ==
    \A i, j \in 0 .. length - 1 : values[i] = values[j] => i = j

\* The lists partition the registered trackers: whatever the order of activate
\* and deactivate calls (pool.c:217-257, "we may get multiple activate calls"),
\* every registered tracker is on exactly one list, once, and no list holds a
\* stale or uninitialised index.
ListsPartition ==
    /\ Active \cup Inactive = 0 .. tracker_count - 1
    /\ Active \cap Inactive = {}
    /\ Distinct(active_trackers, active_tracker_count)
    /\ Distinct(inactive_trackers, inactive_tracker_count)

\* The two counts always add up to the registered trackers, so that neither
\* array can be written past its end by the append of the other call.
CountsAddUp == active_tracker_count + inactive_tracker_count = tracker_count

\* The strengthening that makes ListsPartition inductive: without early use no
\* tracker is inactive before the last register call, so that the cell numbered
\* tracker_count is the first free cell of the active list.
RegisterFirst ==
    /\ tokens > 0 => ~in_use
    /\ ~in_use => inactive_tracker_count = 0

IInv == TypeOK /\ CountsAddUp /\ ListsPartition /\ RegisterFirst

\* The arrays implement a set of active and a set of inactive trackers.
Membership ==
    INSTANCE TrackerMembership
      WITH Index <- Slot, active <- Active, inactive <- Inactive

MembershipSpec == Membership!Spec
================================================================================
