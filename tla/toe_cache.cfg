SPECIFICATION FairSpec
CONSTANTS
    a = a
    b = b
    c = c
    P = P
    Q = Q
    Callers = {a, b, c}
    Processes = {P, Q}
    Runs <- MCRuns
    Refreshing = {c}
    NoCaller = NoCaller
CHECK_DEADLOCK FALSE
INVARIANTS CacheInv
PROPERTIES ReturnsWhole EveryCallEnds DeadLocksGo
