----------------------------- MODULE MCTrackerPool -----------------------------
(* Symmetry of the connections and of the client threads for TLC.            *)
EXTENDS TrackerPool, TLC

Symmetry == Permutations(Conns) \cup Permutations(Clients)
================================================================================
