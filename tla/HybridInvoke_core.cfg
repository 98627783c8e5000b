SPECIFICATION Spec
CONSTANTS
    c1 = c1
    c2 = c2
    c3 = c3
    t1 = t1
    t2 = t2
    s1 = s1
    NULL = NULL
    Ctx = {c1, c2}
    Sessions = {s1}
    Threads = {t1, t2}
    SessionOf <- OneSession
    Scs = {1}
    CallTypes <- SyncUser
    CtxMax = 2
    Reserved = 0
    MaxPending = 1
    CounterMod = 1000
    InterimFlags = {"EARLY"}
    CloseMayFail = TRUE
    MaxCalls = 2
    MaxSsr = 1
    MaxFails = 0
SYMMETRY Alike
INVARIANTS
    TableIsLive
    SingleOwner
    ResponseToOwnCall
    NoLostWakeup
    DspOwnsBuffers
    SuccessIsGenuine
PROPERTIES
    ExecutedAtMostOnce
