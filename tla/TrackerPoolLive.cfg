\* One client and the maintenance thread; tracker 1 never fails, so the active
\* list is never empty.
CONSTANTS
    NumTrackers = 2
    Clients = {c1}
    Maint = {m}
    Conns = {k1, k2, k3}
    None = None
    PoolArgs = {"given"}
    MaxCalls = 2
    Flaky = {0}
    MaxFaults = 2
SPECIFICATION FairSpec
PROPERTIES RequestCompletes Reactivated
