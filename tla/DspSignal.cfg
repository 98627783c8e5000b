SPECIFICATION FairSpec
CONSTANTS
    i1 = i1
    i2 = i2
    g1 = g1
    t1 = t1
    t2 = t2
    NULL = NULL
    Signals = {i1, i2}
    Groups = {g1}
    GroupOf <- OneGroup
    Threads = {t1, t2}
    MaxReceived <- Receptions
    MaxCreated <- Creations
INVARIANTS
    SignalNotLost
    SuccessMeansSignal
    NobodyLeftAsleep
    CreatedStays
PROPERTIES
    CancelReleases
