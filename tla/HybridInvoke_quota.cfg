SPECIFICATION Spec
CONSTANTS
    c1 = c1
    c2 = c2
    c3 = c3
    t1 = t1
    t2 = t2
    s1 = s1
    NULL = NULL
    Ctx = {c1, c2, c3}
    Sessions = {s1}
    Threads = {t1, t2}
    SessionOf <- OneSession
    Scs = {1}
    CallTypes <- Mixed
    CtxMax = 3
    Reserved = 1
    MaxPending = 0
    CounterMod = 1000
    InterimFlags = {}
    CloseMayFail = FALSE
    MaxCalls = 3
    MaxSsr = 0
    MaxFails = 1
SYMMETRY Addresses
INVARIANTS
    ActiveAccounting
    QuotaOvershootBounded
PROPERTIES
    ReserveServesStatic
