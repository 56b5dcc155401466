SPECIFICATION Spec
CONSTANTS
    Keys = {k1}
    Procs = {p1}
    day = day
    night = night
    word = word
    idle = idle
    burst = burst
    slow = slow
    TimePolicies = {day, night}
    ContentPolicies = {word}
    RatePolicies = {burst, slow}
    IdlePolicies = {idle}
    Lists <- MCBothLists
    BlockStart <- MCBlockStart
    BlockEnd <- MCBlockEnd
    MaxWrites <- MCMaxWrites
    Window <- MCWindow
    HoursPerDay = 3
    Nil = Nil
    MaxTime = 4
INVARIANT LimitKept
