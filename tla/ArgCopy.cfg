SPECIFICATION Spec
CONSTANTS
    Bufs = 3
    AddrMod = 6
    Lens = {0, 1, 2, 3}
    BALIGN = 2
    PAGE_SIZE = 8
    metalen = 3
    LONG_MAX = 6
CHECK_DEADLOCK FALSE
INVARIANTS
    CallIsTransparent
