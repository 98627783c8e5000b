SPECIFICATION Spec
CONSTANTS
    t1 = t1
    t2 = t2
    b1 = b1
    b2 = b2
    NULL = NULL
    Threads = {t1, t2}
    Ids = {0, 1}
    Bufs = {b1, b2}
    Ops = {"ctl", "map", "unmap_fd", "invoke", "async", "get_async"}
    MaxFails = 1
SYMMETRY Symmetry
INVARIANTS
    BuffersAccounted
    ReplyToOwn
    JobsOnce
CHECK_DEADLOCK FALSE
