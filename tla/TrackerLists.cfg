\* The lists of a pool filled by mfs_pool_init_quick: no call before the last
\* register.  Garbage collides with a valid index and holds an invalid one.
CONSTANTS
    MaxTrackers = 3
    Garbage = {0, 9}
    EarlyUse = FALSE
SPECIFICATION Spec
INVARIANTS TypeOK ListsPartition CountsAddUp
PROPERTY MembershipSpec
CHECK_DEADLOCK FALSE
