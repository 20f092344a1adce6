SPECIFICATION Spec
CONSTANTS
    a = a
    b = b
    d1 = d1
    d2 = d2
    Calls = {a, b}
    NoCall = NoCall
    Dests = {d1, d2}
    Lower <- MCLower
    Exts = {"n", "parm", "text", "table"}
    JobsOf <- MCJobsOf
    Kit <- MCKit
    PartOfKit <- MCPart
    MaxLost = 1
    MaxKills = 1
INVARIANTS CommitIsLast ForeignKept OwnWorkspace KitIsWhole
CHECK_DEADLOCK FALSE
