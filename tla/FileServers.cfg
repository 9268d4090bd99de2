\* Every thread may stop: at the end of its jobs, or once a pool has lost all
\* its connections.
CONSTANTS
    Threads = {t1, t2, t3}
    Hosts = {h1, h2}
    Jobs = 1
    HardMax = 2
    Servers = {s1, s2, s3}
    Connections = {c1, c2, c3, c4}
    None = None
SPECIFICATION FairSpec
INVARIANTS TypeOK OneServerPerHost ConnectionsAccounted NoStaleOption
PROPERTY AcquireEnds
CHECK_DEADLOCK FALSE
