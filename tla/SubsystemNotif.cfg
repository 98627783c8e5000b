SPECIFICATION FairSpec
CONSTANTS
    lpass = lpass
    cdsp = cdsp
    slpi = slpi
    NULL = NULL
    Children <- ThreeChildren
    Virtual = {lpass, cdsp}
    OtherEvent = 4
    Early = TRUE
    OwnEvents = {2}
    MaxEvents <- EventBounds
CHECK_DEADLOCK FALSE
INVARIANTS
    LatestSeen
    AnswerTells
PROPERTIES
    PhasesInOrder
    AnswerComes
