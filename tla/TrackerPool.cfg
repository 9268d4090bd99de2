\* Two clients and the maintenance thread on two trackers that may both fail.
CONSTANTS
    NumTrackers = 2
    Clients = {c1, c2}
    Maint = {m}
    Conns = {k1, k2, k3}
    None = None
    PoolArgs = {"given"}
    MaxCalls = 1
    Flaky = {0, 1}
    MaxFaults = 2
SPECIFICATION Spec
SYMMETRY Symmetry
INVARIANTS
    TypeOK TrackersPartition ConnectionsSafe RepliesSafe OutcomeTruthful CountNeverUnder
CHECK_DEADLOCK FALSE
