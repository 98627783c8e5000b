SPECIFICATION FairSpec
CONSTANTS
    t1 = t1
    t2 = t2
    b1 = b1
    b2 = b2
    NULL = NULL
    Threads = {t1, t2}
    Ids = {0, 1}
    Bufs = {b1}
    Ops = {"ctl", "unmap_fd", "invoke", "async", "get_async"}
    MaxFails = 0
PROPERTIES
    CallsReturn
CHECK_DEADLOCK FALSE
