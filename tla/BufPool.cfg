SPECIFICATION Spec
CONSTANTS
    b1 = b1
    b2 = b2
    b3 = b3
    b4 = b4
    a1 = a1
    a2 = a2
    t1 = t1
    t2 = t2
    NULL = NULL
    Bufs = {b1, b2, b3}
    Arrays = {a1, a2}
    Threads = {t1, t2}
    Sizes = {1, 3, 5}
    Headers = {1, 3}
    PageSize = 2
    MAX_CACHED_BUFS = 1
    MAX_CACHE_BUF_SIZE = 5
    MAX_PERSISTENT_HEADERS = 2
SYMMETRY Symmetry
INVARIANTS
    OneOwner
    LargeEnough
    CacheCounted
    DspBacked
    HeadersSafe
CHECK_DEADLOCK FALSE
