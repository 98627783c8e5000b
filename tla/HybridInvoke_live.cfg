SPECIFICATION FairSpec
CONSTANTS
    c1 = c1
    c2 = c2
    c3 = c3
    t1 = t1
    t2 = t2
    s1 = s1
    NULL = NULL
    Ctx = {c1}
    Sessions = {s1}
    Threads = {t1}
    SessionOf <- OneThread
    Scs = {1, 2}
    CallTypes <- AllCalls
    CtxMax = 2
    Reserved = 1
    MaxPending = 0
    CounterMod = 1000
    InterimFlags = {"USER_EARLY", "EARLY", "POLL", "BAD"}
    CloseMayFail = FALSE
    MaxCalls = 1
    MaxSsr = 2
    MaxFails = 0
PROPERTIES
    InvocationReturns
    RestartReleases
