\* mfs_pool_init_quick, then mfs_init_file_system, then mfs_close_file_system.
CONSTANTS
    Workers = {w1, w2}
    None = None
    MaxTrackers = 2
    Unresolvable = FALSE
    CheckMax = 3
SPECIFICATION Spec
INVARIANT NoUseAfterDestroy
