SPECIFICATION FairSpec
CONSTANTS
    Clients = {c1, c2}
    Sessions = {s1, s2, s3}
    TtlTicks = 1
    NoSession = NoSession
CHECK_DEADLOCK FALSE
INVARIANTS SessionInv
PROPERTIES EndsForAReason AbandonedExpires ShutdownEnds
