SPECIFICATION FairSpec
CONSTANTS
    NumThreads = 1
    Events = {e1}
    Ctl = ctl
    NoEvent = none
    TimedWait = TRUE
    Spurious = TRUE
    NotifyModes = {TRUE, FALSE}
    MayShutdown = TRUE
PROPERTIES PendingIsExecuted ToldThreadEnds
\* The server may be idle, and a join whose signal was lost does not return.
CHECK_DEADLOCK FALSE
