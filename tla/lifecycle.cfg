SPECIFICATION FairSpec
CONSTANTS
    Calls = {c1, c2}
    Pids = {t1, t2}
    NoPid = NoPid
    NoFile = NoFile
INVARIANTS RunningIsRecorded StopEndsIt ReturnsItsTd NamesNoCopy
PROPERTIES EveryCallEnds
CHECK_DEADLOCK FALSE
