SPECIFICATION CompatFairSpec
CONSTANTS
    Calls = {c1, c2}
    Targets = {A, B}
    NoTarget = NoTarget
    Versions <- MCVersions
    NoVersion = NoVersion
    Down = Down
    NoAnswer = NoAnswer
    McpVersion <- MCMcp
    MinVersion <- MCMin
INVARIANTS OneVerdict
PROPERTIES Recovers
