SPECIFICATION Spec
CONSTANTS
    NumThreads = 2
    Events = {e1, e2}
    Ctl = ctl
    NoEvent = none
    TimedWait = FALSE
    Spurious = FALSE
    NotifyModes = {TRUE}
    MayShutdown = FALSE
SYMMETRY EventSymmetry
INVARIANTS TypeOK LostWakeupIsFlagged StartReachesAll
PROPERTY ImplementsBox
CHECK_DEADLOCK FALSE
