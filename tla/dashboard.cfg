SPECIFICATION Spec
CONSTANTS
    Keys = {}
    Roles = {x1, x2}
    Rows = {p1}
    Tools = {}
    Matches <- MCMatches
    Second = 2
    TTL = 4
    Hour = 2
    Hours = 2
    Day = 4
    PageSize = 1
    MaxTime = 5
    MaxLogs = 2
    MaxSecret = 1
    Nil = Nil
INVARIANTS
    TypeOK
    SessionBounds
    StatsBounded
    ChartExact
SYMMETRY MCSymmetry
CHECK_DEADLOCK FALSE
