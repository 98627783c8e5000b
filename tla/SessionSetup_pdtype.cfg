SPECIFICATION Spec
CONSTANTS
    f1 = f1
    f2 = f2
    t1 = t1
    t2 = t2
    NULL = NULL
    Files = {f1, f2}
    Threads = {t1, t2}
    MAX_FRPC_TGID = 3
    PdTypes = {"signed", "unsigned"}
    CloseMayFail = FALSE
    Notifying = FALSE
    Upids = {1}
    MaxLives = 2
    MaxPds = 2
    MaxNotifs = 0
CHECK_DEADLOCK FALSE
INVARIANTS
    SamePdType
