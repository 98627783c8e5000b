SPECIFICATION Spec
CONSTANTS
    f1 = f1
    f2 = f2
    t1 = t1
    t2 = t2
    NULL = NULL
    Files = {f1, f2}
    Threads = {t1, t2}
    MAX_FRPC_TGID = 3
    PdTypes = {"signed"}
    CloseMayFail = TRUE
    Notifying = TRUE
    Upids = {1}
    MaxLives = 2
    MaxPds = 2
    MaxNotifs = 1
CHECK_DEADLOCK FALSE
SYMMETRY Addresses
INVARIANTS
    IdsExact
    PidsUnique
    NotifCounted
