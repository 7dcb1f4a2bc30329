\* A server that was started, stopped and cleaned up may stay so.
CHECK_DEADLOCK FALSE
SPECIFICATION NamedSpec
CONSTANTS
    c1 = c1
    c2 = c2
    e1 = e1
    e2 = e2
    Conns = {c1, c2}
    EventThreads = {e1, e2}
    DataThread = data
    None = none
    NumNetworks = 2
    MaxStarts = 2
    MaxBindFails = 1
INVARIANTS TypeOK NetworksFollowServer CleanUpLeavesNothing OnlyLeftoversStray
PROPERTIES StaleIsUnregistered
