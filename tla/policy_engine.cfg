SPECIFICATION EngineSpec
CONSTANTS
    Keys = {k1}
    Procs = {p1, p2}
    day = day
    night = night
    TimePolicies = {day, night}
    ContentPolicies = {}
    RatePolicies = {}
    IdlePolicies = {}
    Lists <- MCLists
    BlockStart <- MCBlockStart
    BlockEnd <- MCBlockEnd
    MaxWrites <- MCNoLimits
    Window <- MCNoLimits
    HoursPerDay = 2
    Nil = Nil
    TTL = 1
    MaxTime = 2
    MaxEdits = 1
SYMMETRY MCSymmetry
INVARIANTS
    PolicyStaleness
    NeverSilentlyOpen
    JudgedByRecent
