SPECIFICATION Spec
CONSTANTS
    m1 = m1
    m2 = m2
    m3 = m3
    t1 = t1
    t2 = t2
    NULL = NULL
    Maps = {m1, m2, m3}
    Fds = {1}
    MaxRefs = 3
    Threads = {t1, t2}
SYMMETRY Symmetry
INVARIANTS
    NoUseAfterFree
    CtxRefsExact
    DspMappingBacked
    MapsAccounted
    CloseEnds
CHECK_DEADLOCK FALSE
