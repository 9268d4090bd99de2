--------------------------- MODULE TrackerMembership ---------------------------
(*****************************************************************************)
(* What the two tracker lists of a tracker_pool promise: a set of registered *)
(* trackers, each of which is either active or inactive.  A tracker is       *)
(* registered active; afterwards it only changes sides.  TrackerLists, the   *)
(* pair of int arrays of pool.c, is shown to implement this specification.   *)
(*****************************************************************************)
CONSTANT Index          \* the indexes a tracker can be registered under

VARIABLES active, inactive

vars == <<active, inactive>>

Init == active = {} /\ inactive = {}

Register(t) ==
    /\ t \notin active \cup inactive
    /\ active' = active \cup {t}
    /\ UNCHANGED inactive

Activate(t) ==
    /\ t \in inactive
    /\ inactive' = inactive \ {t}
    /\ active' = active \cup {t}

Deactivate(t) ==
    /\ t \in active
    /\ active' = active \ {t}
    /\ inactive' = inactive \cup {t}

Next == \E t \in Index : Register(t) \/ Activate(t) \/ Deactivate(t)

Spec == Init /\ [][Next]_vars
================================================================================
