SPECIFICATION FairSpec
CONSTANTS
    c1 = c1
    c2 = c2
    Conns <- MCTwo
    MaxConnections = 1
INVARIANTS CountIsExact SessionsAreClosed
PROPERTIES LeavesWithClient ShutdownDrains
CHECK_DEADLOCK FALSE
