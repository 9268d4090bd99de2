\* Any order of calls: maintenance enabled or disabled while the trackers are
\* registered, every address resolving or not.
CONSTANTS
    Workers = {w1, w2}
    None = None
    MaxTrackers = 3
    Unresolvable = TRUE
    CheckMax = 3
SPECIFICATION FairSpec
INVARIANTS TypeOK DestroySafe
PROPERTY StopReturns
