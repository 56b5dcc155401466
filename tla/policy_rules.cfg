SPECIFICATION Spec
CONSTANTS
    Keys = {k1}
    Procs = {p1, p2}
    day = day
    night = night
    word = word
    idle = idle
    burst = burst
    slow = slow
    TimePolicies = {day, night}
    ContentPolicies = {word}
    RatePolicies = {burst}
    IdlePolicies = {idle}
    Lists <- MCLists
    BlockStart <- MCBlockStart
    BlockEnd <- MCBlockEnd
    MaxWrites <- MCMaxWrites
    Window <- MCWindow
    HoursPerDay = 3
    Nil = Nil
    MaxTime = 3
SYMMETRY MCSymmetry
INVARIANTS
    TypeOK
    PassesMeansAllowed
    OvershootBound
